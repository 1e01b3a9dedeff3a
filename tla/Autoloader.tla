------------------------------ MODULE Autoloader ------------------------------
(***************************************************************************)
(* The Volume Auto-Loader (web/autoloader.py) for one pipeline: cycles run *)
(* by the background daemon (in a thread) and by POST .../run (on the      *)
(* event loop, which it blocks), the SQLite checkpoint, the target Delta   *)
(* table, and the API calls that change the pipeline or the volume while a *)
(* cycle is under way.                                                     *)
(*                                                                         *)
(* Every write of a file gets a fresh stamp from `stamp`.  It stands both  *)
(* for the file's mtime and for its fingerprint (size, mtime, first 64KB). *)
(***************************************************************************)
EXTENDS Integers, Sequences, FiniteSets

CONSTANTS
    Paths,      \* file names below the watched volume directory
    NoPath,     \* no file
    Kinds,      \* what a reader finds in a file: subset of KindVal
    Policies,   \* schema evolution policies in use: subset of PolicyVal
    Mode,       \* the pipeline's ingest_mode
    MaxWrites,  \* bound: how many times a volume file is written
    Budget      \* bound: how often each of Events may still happen

KindVal   == {"plain", "wide", "corrupt"}  \* wide: has a column the table lacks
PolicyVal == {"addNewColumns", "failOnNewColumns", "rescue"}
Events    == {"manual", "crash", "dbfail", "writefail", "reset", "update",
              "recreate", "remove"}

ASSUME PathsAssumption  == /\ IsFiniteSet(Paths)
                           /\ Paths # {}
                           /\ Paths \cap {NoPath, "idle", "manual"} = {}
ASSUME KindsAssumption  == Kinds \subseteq KindVal /\ Policies \subseteq PolicyVal
ASSUME ModeAssumption   == Mode \in {"append", "merge", "overwrite"}
ASSUME BoundsAssumption == MaxWrites \in Nat /\ Budget \in [Events -> Nat]

Runners == {"daemon", "manual"}
Stamps  == 1..MaxWrites
Stages  == {"off", "fetch", "start", "scan", "sort", "pick", "stat", "load",
            "checkpoint", "move", "audit", "fail", "finish"}

VARIABLES
    \* The volume.
    file,     \* path -> "absent", "writing" or "ready"
    mtime,    \* path -> stamp of its last write
    kind,     \* path -> what a reader finds in it
    stamp,    \* stamp of the last write of any file
    loop,     \* what the event loop is busy with: "idle", "manual" or an upload's path
    \* The databases.
    exists,   \* whether autoloader_pipelines has the pipeline's row
    config,   \* its settings,
    status,   \* its status
    total,    \* and its total_files_ingested
    rows,     \* autoloader_file_history: fingerprint -> status ("none": no row)
    delta,    \* commits of the target Delta table, oldest first
    epoch,    \* how often the checkpoints were cleared (history variable)
    \* Runner -> local variables of its run_pipeline_cycle.
    stage,    \* where it is
    conf,     \* the settings it read
    known,    \* known_hashes
    found,    \* discovered_files before they are sorted
    todo,     \* discovered_files still to process, with the mtime they are sorted by
    path,     \* the file at hand,
    fhash,    \* its fingerprint as run_pipeline_cycle took it
    fp,       \* and as process_single_file took it again
    left      \* what remains of Budget

volume   == <<file, mtime, kind, stamp>>
pipeline == <<exists, config, status, total>>
store    == <<rows, delta, epoch>>
cycle    == <<stage, conf, known, found, todo, path, fhash, fp>>
vars     == <<volume, loop, pipeline, store, cycle, left>>

-----------------------------------------------------------------------------
(* Types *)

ConfigRec == [enabled : BOOLEAN, policy : PolicyVal]
CommitRec == [fp : Stamps, content : Stamps, wide : BOOLEAN, epoch : Nat]
TodoRec   == [path : Paths, mtime : 0..MaxWrites]

VolumeOK   == /\ file \in [Paths -> {"absent", "writing", "ready"}]
              /\ mtime \in [Paths -> 0..MaxWrites]
              /\ kind \in [Paths -> KindVal]
              /\ stamp \in 0..MaxWrites
              /\ loop \in {"idle", "manual"} \cup Paths
PipelineOK == /\ exists \in BOOLEAN
              /\ config \in ConfigRec
              /\ status \in {"IDLE", "RUNNING", "ERROR", "PAUSED"}
              /\ total \in Nat
StoreOK    == /\ rows \in [Stamps -> {"none", "SUCCESS", "FAILED", "QUARANTINED"}]
              /\ delta \in Seq(CommitRec)
              /\ epoch \in Nat
CycleOK    == /\ stage \in [Runners -> Stages]
              /\ conf \in [Runners -> ConfigRec]
              /\ known \in [Runners -> SUBSET Stamps]
              /\ found \in [Runners -> SUBSET Paths]
              /\ todo \in [Runners -> SUBSET TodoRec]
              /\ path \in [Runners -> Paths \cup {NoPath}]
              /\ fhash \in [Runners -> 0..MaxWrites]
              /\ fp \in [Runners -> 0..MaxWrites]
TypeOK     == /\ VolumeOK /\ PipelineOK /\ StoreOK /\ CycleOK
              /\ left \in [Events -> Nat]

-----------------------------------------------------------------------------
(* Helpers *)

Present(p) == file[p] # "absent"
Succeeded  == {s \in Stamps : rows[s] = "SUCCESS"}
NoRows     == [s \in Stamps |-> "none"]

Spend(e) == /\ left[e] > 0
            /\ left' = [left EXCEPT ![e] = @ - 1]

\* web/autoloader.py:_plan_schema_policy.  A fresh table accepts any columns;
\* afterwards failOnNewColumns rejects columns no earlier commit added.
Replaces       == delta = <<>> \/ Mode = "overwrite"
HasWideColumn == \E i \in DOMAIN delta : delta[i].wide
PolicyRejects(c, k) ==
    /\ c.policy = "failOnNewColumns"
    /\ k = "wide"
    /\ ~Replaces
    /\ ~HasWideColumn
AddsWideColumn(c, k) ==
    /\ k = "wide"
    /\ c.policy # "rescue" \/ Replaces

\* A column update of the pipeline's row has no effect once the row is deleted.
SetStatus(s) == status' = IF exists THEN s ELSE status

GoTo(r, s) == stage' = [stage EXCEPT ![r] = s]

\* The cycle turns to the next file, with new hashes among its known ones.
NextFile(r, new) ==
    /\ GoTo(r, "pick")
    /\ known' = [known EXCEPT ![r] = @ \cup new]
    /\ path' = [path EXCEPT ![r] = NoPath]
    /\ fhash' = [fhash EXCEPT ![r] = 0]
    /\ fp' = [fp EXCEPT ![r] = 0]
    /\ UNCHANGED <<conf, found, todo>>

\* A cycle ends; the event loop goes on if the cycle was a manual one.
Return(r) ==
    /\ GoTo(r, "off")
    /\ known' = [known EXCEPT ![r] = {}]
    /\ found' = [found EXCEPT ![r] = {}]
    /\ loop' = IF r = "manual" THEN "idle" ELSE loop
    /\ UNCHANGED <<conf, todo, path, fhash, fp>>

-----------------------------------------------------------------------------
Init ==
    /\ file = [p \in Paths |-> "absent"]
    /\ mtime = [p \in Paths |-> 0]
    /\ kind = [p \in Paths |-> "plain"]
    /\ stamp = 0
    /\ loop = "idle"
    /\ exists = TRUE
    /\ config \in [enabled : {TRUE}, policy : Policies]
    /\ status = "IDLE"
    /\ total = 0
    /\ rows = NoRows
    /\ delta = <<>>
    /\ epoch = 0
    /\ stage = [r \in Runners |-> "off"]
    /\ conf = [r \in Runners |-> config]
    /\ known = [r \in Runners |-> {}]
    /\ found = [r \in Runners |-> {}]
    /\ todo = [r \in Runners |-> {}]
    /\ path = [r \in Runners |-> NoPath]
    /\ fhash = [r \in Runners |-> 0]
    /\ fp = [r \in Runners |-> 0]
    /\ left = Budget

-----------------------------------------------------------------------------
(* The volume API (web/volumes.py), on the event loop.  An upload writes its *)
(* destination in place, so the daemon's thread can read it half written.    *)

\* A chunk of an upload reaches the file, which then reads as k.
WriteFile(p, s, k) ==
    /\ stamp' = stamp + 1
    /\ mtime' = [mtime EXCEPT ![p] = stamp + 1]
    /\ file' = [file EXCEPT ![p] = s]
    /\ kind' = [kind EXCEPT ![p] = k]

UploadOpen(p) ==
    /\ loop = "idle"
    /\ stamp + 1 < MaxWrites      \* leaves a stamp for UploadClose
    /\ \E k \in Kinds : WriteFile(p, "writing", k)
    /\ loop' = p
    /\ UNCHANGED <<pipeline, store, cycle, left>>

\* The file may meanwhile have been moved away: then the rest goes to the moved
\* inode and the endpoint's os.stat fails.
UploadClose(p) ==
    /\ loop = p
    /\ IF Present(p) THEN \E k \in Kinds : WriteFile(p, "ready", k)
                     ELSE UNCHANGED volume
    /\ loop' = "idle"
    /\ UNCHANGED <<pipeline, store, cycle, left>>

RemoveFile(p) ==
    /\ loop = "idle"
    /\ Present(p)
    /\ Spend("remove")
    /\ file' = [file EXCEPT ![p] = "absent"]
    /\ UNCHANGED <<mtime, kind, stamp, loop, pipeline, store, cycle>>

-----------------------------------------------------------------------------
(* The pipeline API, on the event loop. *)

UpdatePipeline ==
    /\ loop = "idle"
    /\ exists
    /\ Spend("update")
    /\ config' \in [enabled : BOOLEAN, policy : Policies]
    /\ UNCHANGED <<volume, loop, exists, status, total, store, cycle>>

\* Both deletion and reset delete the pipeline's rows of autoloader_file_history.
ClearHistory == rows' = NoRows /\ epoch' = epoch + 1

\* Mutant: the counter survives a reset.
ResetKeepsTotal ==
    /\ loop = "idle"
    /\ Spend("reset")
    /\ ClearHistory
    /\ SetStatus("IDLE")
    /\ UNCHANGED <<volume, loop, exists, config, total, delta, cycle>>

ResetCheckpoints ==
    /\ loop = "idle"
    /\ Spend("reset")
    /\ ClearHistory
    /\ SetStatus("IDLE")
    /\ total' = IF exists THEN 0 ELSE total
    /\ UNCHANGED <<volume, loop, exists, config, delta, cycle>>

DeletePipeline ==
    /\ loop = "idle"
    /\ exists
    /\ Spend("recreate")
    /\ ClearHistory
    /\ exists' = FALSE
    /\ UNCHANGED <<volume, loop, config, status, total, delta, cycle>>

\* create_pipeline takes the id from the request when it names one.
CreatePipeline ==
    /\ loop = "idle"
    /\ ~exists
    /\ exists' = TRUE
    /\ config' \in [enabled : BOOLEAN, policy : Policies]
    /\ status' = "IDLE"
    /\ total' = 0
    /\ UNCHANGED <<volume, loop, store, cycle, left>>

-----------------------------------------------------------------------------
(* Who starts a cycle. *)

\* One turn of autoloader_daemon_loop finds the pipeline enabled and due.
DaemonDispatch ==
    /\ loop = "idle"
    /\ stage["daemon"] = "off"
    /\ exists
    /\ config.enabled
    /\ GoTo("daemon", "fetch")
    /\ UNCHANGED <<volume, loop, pipeline, store, conf, known, found, todo,
                   path, fhash, fp, left>>

RunNow ==
    /\ loop = "idle"
    /\ Spend("manual")
    /\ loop' = "manual"
    /\ GoTo("manual", "fetch")
    /\ UNCHANGED <<volume, pipeline, store, conf, known, found, todo, path,
                   fhash, fp>>

-----------------------------------------------------------------------------
(* run_pipeline_cycle, one action per access to shared state. *)

Fetch(r) ==
    /\ stage[r] = "fetch"
    /\ IF exists
       THEN /\ GoTo(r, "start")
            /\ conf' = [conf EXCEPT ![r] = config]
            /\ UNCHANGED <<loop, known, found, todo, path, fhash, fp>>
       ELSE Return(r)
    /\ UNCHANGED <<volume, pipeline, store, left>>

\* Mutant: the processed hashes are not fetched.
StartForgetful(r) ==
    /\ stage[r] = "start"
    /\ SetStatus("RUNNING")
    /\ GoTo(r, "scan")
    /\ UNCHANGED <<volume, loop, exists, config, total, store, conf, known,
                   found, todo, path, fhash, fp, left>>

Start(r) ==
    /\ stage[r] = "start"
    /\ SetStatus("RUNNING")
    /\ known' = [known EXCEPT ![r] = Succeeded]
    /\ GoTo(r, "scan")
    /\ UNCHANGED <<volume, loop, exists, config, total, store, conf, found,
                   todo, path, fhash, fp, left>>

Scan(r) ==
    /\ stage[r] = "scan"
    /\ found' = [found EXCEPT ![r] = {p \in Paths : Present(p)}]
    /\ GoTo(r, "sort")
    /\ UNCHANGED <<volume, loop, pipeline, store, conf, known, todo, path,
                   fhash, fp, left>>

\* Sorting reads each mtime outside any try: a file that vanished since the
\* scan ends the cycle with its status still RUNNING.
Sort(r) ==
    /\ stage[r] = "sort"
    /\ IF \A p \in found[r] : Present(p)
       THEN /\ todo' = [todo EXCEPT ![r] =
                          {[path |-> p, mtime |-> mtime[p]] : p \in found[r]}]
            /\ found' = [found EXCEPT ![r] = {}]
            /\ GoTo(r, "pick")
            /\ UNCHANGED <<loop, conf, known, path, fhash, fp>>
       ELSE Return(r)
    /\ UNCHANGED <<volume, pipeline, store, left>>

Oldest(r) == {t \in todo[r] : \A u \in todo[r] : t.mtime <= u.mtime}

\* The cycle has taken t from its list and processes it.
Take(r, t) ==
    /\ todo' = [todo EXCEPT ![r] = @ \ {t}]
    /\ path' = [path EXCEPT ![r] = t.path]
    /\ fhash' = [fhash EXCEPT ![r] = mtime[t.path]]
    /\ GoTo(r, "stat")
    /\ UNCHANGED <<volume, loop, pipeline, store, conf, known, found, fp, left>>

\* Mutant: no file is skipped.
PickAny(r) ==
    /\ stage[r] = "pick"
    /\ \E t \in Oldest(r) : Take(r, t)

\* The next file by modification time, when its fingerprint is not known.
Pick(r) ==
    /\ stage[r] = "pick"
    /\ \E t \in Oldest(r) :
          /\ Present(t.path)
          /\ mtime[t.path] \notin known[r]
          /\ Take(r, t)

\* Mutant: a file that vanished is not stepped over.
SkipOnlyKnown(r) ==
    /\ stage[r] = "pick"
    /\ \E t \in Oldest(r) :
          /\ Present(t.path)
          /\ mtime[t.path] \in known[r]
          /\ todo' = [todo EXCEPT ![r] = @ \ {t}]
    /\ UNCHANGED <<volume, loop, pipeline, store, stage, conf, known, found,
                   path, fhash, fp, left>>

\* A file that was processed already, or has vanished, is skipped.
Skip(r) ==
    /\ stage[r] = "pick"
    /\ \E t \in Oldest(r) :
          /\ ~Present(t.path) \/ mtime[t.path] \in known[r]
          /\ todo' = [todo EXCEPT ![r] = @ \ {t}]
    /\ UNCHANGED <<volume, loop, pipeline, store, stage, conf, known, found,
                   path, fhash, fp, left>>

PickNone(r) ==
    /\ stage[r] = "pick"
    /\ todo[r] = {}
    /\ GoTo(r, "finish")
    /\ UNCHANGED <<volume, loop, pipeline, store, conf, known, found, todo,
                   path, fhash, fp, left>>

Finish(r) ==
    /\ stage[r] = "finish"
    /\ SetStatus(IF conf[r].enabled THEN "IDLE" ELSE "PAUSED")
    /\ Return(r)
    /\ UNCHANGED <<volume, exists, config, total, store, left>>

-----------------------------------------------------------------------------
(* process_single_file. *)

\* The cycle only moves on.
OnlyStage == UNCHANGED <<volume, loop, pipeline, store, conf, known, found, todo,
                         path, fhash, fp>>

\* The fingerprint is computed a second time, and this one is checkpointed.
Stat(r) ==
    /\ stage[r] = "stat"
    /\ IF Present(path[r])
       THEN /\ fp' = [fp EXCEPT ![r] = mtime[path[r]]]
            /\ GoTo(r, "load")
            /\ UNCHANGED <<conf, known, found, todo, path, fhash>>
       ELSE NextFile(r, {})
    /\ UNCHANGED <<volume, loop, pipeline, store, left>>

Readable(r) == Present(path[r]) /\ kind[path[r]] # "corrupt"

\* The source is streamed into a single Delta commit.
LoadCommit(r) ==
    /\ stage[r] = "load"
    /\ Readable(r)
    /\ ~PolicyRejects(conf[r], kind[path[r]])
    /\ delta' = Append(delta, [fp |-> fp[r], content |-> mtime[path[r]],
                               wide |-> AddsWideColumn(conf[r], kind[path[r]]),
                               epoch |-> epoch])
    /\ GoTo(r, "checkpoint")
    /\ UNCHANGED <<volume, loop, pipeline, rows, epoch, conf, known, found,
                   todo, path, fhash, fp, left>>

\* The source cannot be opened, or a row of it cannot be parsed.
LoadUnreadable(r) ==
    /\ stage[r] = "load"
    /\ ~Readable(r)
    /\ GoTo(r, "move")
    /\ OnlyStage
    /\ UNCHANGED left

\* Mutant: the writer's exception is swallowed.
RefusalSwallowed(r) ==
    /\ stage[r] = "load"
    /\ Readable(r)
    /\ PolicyRejects(conf[r], kind[path[r]])
    /\ GoTo(r, "checkpoint")
    /\ OnlyStage
    /\ UNCHANGED left

\* The schema policy or the Delta writer refuses a readable source.
LoadRefused(r) ==
    /\ stage[r] = "load"
    /\ Readable(r)
    /\ IF PolicyRejects(conf[r], kind[path[r]]) THEN UNCHANGED left
                                                ELSE Spend("writefail")
    /\ GoTo(r, "fail")
    /\ OnlyStage

\* Mutant: the fingerprint is taken after the load instead of before it.
CheckpointLate(r) ==
    /\ stage[r] = "checkpoint"
    /\ rows' = [rows EXCEPT ![mtime[path[r]]] = "SUCCESS"]
    /\ SetStatus("IDLE")
    /\ total' = IF exists THEN total + 1 ELSE total
    /\ NextFile(r, {fhash[r]})
    /\ UNCHANGED <<volume, loop, exists, config, delta, epoch, left>>

Checkpoint(r) ==
    /\ stage[r] = "checkpoint"
    /\ rows' = [rows EXCEPT ![fp[r]] = "SUCCESS"]
    /\ SetStatus("IDLE")
    /\ total' = IF exists THEN total + 1 ELSE total
    /\ NextFile(r, {fhash[r]})
    /\ UNCHANGED <<volume, loop, exists, config, delta, epoch, left>>

\* The checkpoint transaction fails (a locked database): the exception is
\* handled like a failed load, although the Delta commit stands.
CheckpointFails(r) ==
    /\ stage[r] = "checkpoint"
    /\ Spend("dbfail")
    /\ GoTo(r, "fail")
    /\ OnlyStage

RecordFailure(r) ==
    /\ stage[r] = "fail"
    /\ rows' = [rows EXCEPT ![fp[r]] = "FAILED"]
    /\ SetStatus("ERROR")
    /\ NextFile(r, {})
    /\ UNCHANGED <<volume, loop, exists, config, total, delta, epoch, left>>

\* _quarantine_file moves whatever is at the path by now, then records it.
MoveToQuarantine(r) ==
    /\ stage[r] = "move"
    /\ file' = [file EXCEPT ![path[r]] = "absent"]
    /\ GoTo(r, "audit")
    /\ UNCHANGED <<mtime, kind, stamp, loop, pipeline, store, conf, known,
                   found, todo, path, fhash, fp, left>>

RecordQuarantine(r) ==
    /\ stage[r] = "audit"
    /\ rows' = [rows EXCEPT ![fp[r]] = "QUARANTINED"]
    /\ NextFile(r, {})
    /\ UNCHANGED <<volume, loop, pipeline, delta, epoch, left>>

\* Recording a failure or a quarantine fails as well: the exception reaches
\* run_pipeline_cycle, which goes on with the next file.
RecordFails(r) ==
    /\ stage[r] \in {"fail", "audit"}
    /\ Spend("dbfail")
    /\ NextFile(r, {})
    /\ UNCHANGED <<volume, loop, pipeline, store>>

-----------------------------------------------------------------------------
\* The studio process dies and starts again: files and databases remain.
Crash ==
    /\ Spend("crash")
    /\ loop' = "idle"
    /\ file' = [p \in Paths |-> IF file[p] = "writing" THEN "ready" ELSE file[p]]
    /\ stage' = [r \in Runners |-> "off"]
    /\ known' = [r \in Runners |-> {}]
    /\ found' = [r \in Runners |-> {}]
    /\ todo' = [r \in Runners |-> {}]
    /\ path' = [r \in Runners |-> NoPath]
    /\ fhash' = [r \in Runners |-> 0]
    /\ fp' = [r \in Runners |-> 0]
    /\ UNCHANGED <<mtime, kind, stamp, pipeline, store, conf>>

-----------------------------------------------------------------------------
VolumeNext   == \E p \in Paths : UploadOpen(p) \/ UploadClose(p) \/ RemoveFile(p)
PipelineNext == \/ UpdatePipeline \/ ResetCheckpoints
                \/ DeletePipeline \/ CreatePipeline

CycleStep(r) ==
    \/ Fetch(r) \/ Start(r) \/ Scan(r) \/ Sort(r) \/ Pick(r) \/ Skip(r)
    \/ PickNone(r) \/ Finish(r) \/ Stat(r) \/ LoadCommit(r) \/ LoadUnreadable(r)
    \/ LoadRefused(r) \/ Checkpoint(r) \/ CheckpointFails(r)
    \/ RecordFailure(r) \/ MoveToQuarantine(r) \/ RecordQuarantine(r)
    \/ RecordFails(r)

Next == \/ VolumeNext \/ PipelineNext
        \/ DaemonDispatch \/ RunNow
        \/ \E r \in Runners : CycleStep(r)
        \/ Crash

Spec == Init /\ [][Next]_vars

\* The daemon keeps polling, a running cycle and a running upload keep going.
Fairness ==
    /\ WF_vars(DaemonDispatch)
    /\ \A r \in Runners : WF_vars(CycleStep(r))
    /\ \A p \in Paths : WF_vars(UploadClose(p))

LiveSpec == Spec /\ Fairness

-----------------------------------------------------------------------------
(* Properties. *)

\* A file is marked SUCCESS only once its data is in the table: whatever
\* crashes or fails, a checkpoint never hides a file that was not loaded.
SuccessMeansCommitted ==
    \A s \in Succeeded : \E i \in DOMAIN delta : delta[i].fp = s

\* A cycle never loads a file whose fingerprint it knew as processed, although
\* the fingerprint is taken twice and the file may be rewritten in between.
NeverReloadKnown ==
    \A r \in Runners :
        stage[r] \in {"load", "checkpoint"} => fp[r] \notin known[r]

\* Exactly-once, as far as the checkpoint can give it: between two resets no
\* fingerprint is committed twice.
ExactlyOnce ==
    \A i, j \in DOMAIN delta :
        i # j /\ delta[i].fp = delta[j].fp => delta[i].epoch # delta[j].epoch

\* Every crash and every failing database transaction makes at most one file land
\* twice, every run by hand at most each file once more, however the cycles, uploads
\* and resets fall around them.
Repeats == {i \in DOMAIN delta :
              \E j \in 1..(i - 1) : /\ delta[j].fp = delta[i].fp
                                    /\ delta[j].epoch = delta[i].epoch}
Spent(e) == Budget[e] - left[e]
RepeatsAccountedFor ==
    Cardinality(Repeats) <= Spent("crash") + Spent("dbfail")
                            + Spent("manual") * Cardinality(Paths)

\* The pipeline's file counter and its checkpoints agree: they change in the
\* same transactions, also around resets in the middle of a cycle.
TotalMatchesHistory == exists => total = Cardinality(Succeeded)

\* What the table holds and what the checkpoints say of it, around crashes and resets.
HistoryKept == RepeatsAccountedFor /\ TotalMatchesHistory

\* Every complete, loadable file of an enabled pipeline gets loaded, through
\* crashes, failing writes and failing checkpoints, unless it is replaced.
Loadable(p, s) ==
    /\ exists /\ config.enabled
    /\ file[p] = "ready" /\ mtime[p] = s
    /\ \/ kind[p] = "plain"
       \/ kind[p] = "wide" /\ config.policy # "failOnNewColumns"
EventuallyLoaded ==
    \A p \in Paths, s \in Stamps :
        Loadable(p, s) ~> \/ \E i \in DOMAIN delta : delta[i].content = s
                          \/ ~Loadable(p, s)

\* Every run of a cycle ends, so one file never blocks the files behind it.
CycleEnds == \A r \in Runners : stage[r] # "off" ~> stage[r] = "off"

-----------------------------------------------------------------------------
\* What the pipeline promises the rest of the lakehouse (module IngestContract).
Contract == INSTANCE IngestContract WITH
                Items <- Stamps,
                log   <- [i \in DOMAIN delta |-> delta[i].fp],
                acked <- Succeeded

ImplementsContract == Contract!Spec

=============================================================================
