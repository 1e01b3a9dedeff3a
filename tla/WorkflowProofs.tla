---------------------------- MODULE WorkflowProofs ----------------------------
(***************************************************************************)
(* Proofs about Jobs & Pipelines: the state keeps its type, the cron loop  *)
(* never has two runs of a job under way, the rows of job_runs say what    *)
(* became of the runs, topological_sort_tasks puts every task list in      *)
(* order that can be, and the tasks of a run keep to it.                   *)
(*                                                                         *)
(* The argument: a cron run's job is in _running_jobs from the turn of the *)
(* loop that starts it to its discard, so the loop passes the job by       *)
(* (CronInv).  The row of a run follows the stage the run is in (RowInv):  *)
(* it says RUNNING while the tasks run, so a run that is gone leaves such a *)
(* row only by an update that the database refused (StaleRowsExplained).   *)
(*                                                                         *)
(* The sort: no id is queued twice, because an id that has been queued has *)
(* no dependencies left to count (Apart); with unique ids in_degree counts *)
(* the dependencies that have not been sorted (Counted), so what is taken  *)
(* from the queue comes after its dependencies (InOrder) and, where some   *)
(* ranking exists, the unsorted id of least rank would have to be queued.  *)
(* That TaskOrder's recursive functions exist and what holds for each of   *)
(* their arguments rests on two facts proved first from the well-founded   *)
(* order of the naturals: SetInduction and Recursion.                      *)
(*                                                                         *)
(* A run's tasks, recorded and to come, are always the sorted tasks of one *)
(* list, and a task is skipped just when something it depends on failed or *)
(* was skipped before it (PlanInv).                                        *)
(***************************************************************************)
EXTENDS Workflow, FiniteSetTheorems, SequenceTheorems, WellFoundedInduction, TLAPS

IsSequence(s) == \E S : s \in Seq(S)

\* What TypeOK leaves open: the shape of the runs' lists.
ListsOK ==
    /\ DOMAIN todo = Runs /\ DOMAIN done = Runs
    /\ done = [r \in Runs |-> done[r]] /\ todo = [r \in Runs |-> todo[r]]
    /\ \A r \in Runs : IsSequence(done[r])

\* A run of the cron loop, from the loop's turn to its discard.
CronRun(r) == trigger[r] = "CRON" /\ stage[r] \in {"load", "insert", "tasks", "ended"}

CronInv ==
    /\ \A r \in Runs : CronRun(r) => r[1] \in running
    /\ \A q, r \in Runs : CronRun(q) /\ CronRun(r) /\ q[1] = r[1] => q = r

RowInv ==
    \A r \in Runs :
        /\ stage[r] \in {"unused", "load", "insert"} => row[r] = "none"
        /\ stage[r] = "tasks" => row[r] = "RUNNING"

-----------------------------------------------------------------------------
(* Types. *)

LEMMA SpendType ==
    ASSUME left \in [Events -> Nat], NEW e \in Events, Spend(e)
    PROVE  left' \in [Events -> Nat]
  BY DEF Spend

LEMMA LoadJobsType == TypeOK => LoadJobs \in Book
  BY DEF TypeOK, LoadJobs

LEMMA InitType == Init => TypeOK /\ ListsOK
  <1> SUFFICES ASSUME Init PROVE TypeOK /\ ListsOK
    OBVIOUS
  <1>1. \A r \in Runs : done[r] = <<>>
    BY DEF Init
  <1>2. ListsOK
    <2>1. <<>> \in Seq({})
      OBVIOUS
    <2>2. \A r \in Runs : IsSequence(done[r])
      BY <1>1, <2>1 DEF IsSequence
    <2> QED
      BY <2>2 DEF Init, ListsOK
  <1>3. \A r \in Runs : \A i \in DOMAIN done[r] :
           done[r][i].status \in {"SUCCESS", "FAILED", "SKIPPED"}
    BY <1>1
  <1> QED
    BY <1>2, <1>3, WorkflowAssumption DEF Init, TypeOK, Stages

\* A slot that a run may take is free.
LEMMA NextRunIsFree ==
    ASSUME NEW j \in Jobs, FreeSlots(j) # {}
    PROVE  /\ NextRun(j) \in Runs /\ NextRun(j)[1] = j
           /\ stage[NextRun(j)] = "unused"
  <1> DEFINE n == CHOOSE k \in FreeSlots(j) : TRUE
  <1>1. n \in 1..MaxRuns /\ stage[<<j, n>>] = "unused"
    BY DEF FreeSlots
  <1>2. NextRun(j) = <<j, n>>
    BY DEF NextRun
  <1> HIDE DEF n
  <1> QED
    BY <1>1, <1>2 DEF Runs

LEMMA ReturnType ==
    ASSUME TypeOK, NEW r \in Runs, Return(r)
    PROVE  stage' \in [Runs -> Stages] /\ loop' \in {"idle", "save", "run"}
  BY DEF TypeOK, Return, GoTo, Stages

LEMMA RecordType ==
    ASSUME TypeOK, ListsOK, NEW r \in Runs, NEW task,
           NEW status \in {"SUCCESS", "FAILED", "SKIPPED"}, Record(r, task, status)
    PROVE  TypeOK' /\ ListsOK'
  <1> DEFINE entry == [task |-> task, status |-> status]
  <1>1. PICK S : done[r] \in Seq(S)
    BY DEF ListsOK, IsSequence
  <1>2. done[r] \in Seq(S \cup {entry}) /\ entry \in S \cup {entry}
    <2> HIDE DEF entry
    <2> QED
      BY <1>1
  <1>3. done' = [done EXCEPT ![r] = Append(done[r], entry)] /\ entry.status = status
    BY DEF Record
  <1>4. /\ Append(done[r], entry) \in Seq(S \cup {entry})
        /\ \A i \in DOMAIN Append(done[r], entry) :
              Append(done[r], entry)[i] = entry \/ (i \in DOMAIN done[r] /\ Append(done[r], entry)[i] = done[r][i])
    <2> HIDE DEF entry
    <2> QED
      BY <1>2
  <1>5. DOMAIN done' = Runs /\ done' = [q \in Runs |-> done'[q]]
        /\ done'[r] = Append(done[r], entry) /\ \A q \in Runs \ {r} : done'[q] = done[q]
    BY <1>3 DEF ListsOK
  <1>6. DOMAIN todo' = Runs /\ todo' = [q \in Runs |-> todo'[q]]
    BY DEF ListsOK, Record
  <1>7. ListsOK'
    <2>1. IsSequence(done[r])'
      BY <1>4, <1>5 DEF IsSequence
    <2>2. \A q \in Runs \ {r} : IsSequence(done[q])'
      BY <1>5 DEF IsSequence, ListsOK
    <2> QED
      BY <1>5, <1>6, <2>1, <2>2 DEF ListsOK
  <1>8. \A q \in Runs : \A i \in DOMAIN done'[q] :
           done'[q][i].status \in {"SUCCESS", "FAILED", "SKIPPED"}
    <2>1. \A i \in DOMAIN done'[r] : done'[r][i].status \in {"SUCCESS", "FAILED", "SKIPPED"}
      <3>1. \A i \in DOMAIN done[r] : done[r][i].status \in {"SUCCESS", "FAILED", "SKIPPED"}
        BY DEF TypeOK
      <3> HIDE DEF entry
      <3> QED
        BY <1>3, <1>4, <1>5, <3>1
    <2>2. ASSUME NEW q \in Runs, q # r, NEW i \in DOMAIN done'[q]
          PROVE  done'[q][i].status \in {"SUCCESS", "FAILED", "SKIPPED"}
      BY <1>5, <2>2 DEF TypeOK
    <2> QED
      BY <2>1, <2>2
  <1> QED
    BY <1>7, <1>8 DEF Record, TypeOK, file, cron

LEMMA TypeStep == TypeOK /\ ListsOK /\ [Next]_vars => TypeOK' /\ ListsOK'
  <1> SUFFICES ASSUME TypeOK, ListsOK, [Next]_vars PROVE TypeOK' /\ ListsOK'
    OBVIOUS
  <1> USE WorkflowAssumption
  <1>1. ASSUME NEW j \in Jobs, CreateOrUpdateJob(j) PROVE TypeOK' /\ ListsOK'
    <2>1. PICK job \in JobRec : /\ SaveJobs([LoadJobs EXCEPT ![j] = job])
                                /\ defaults' = IF torn THEN [defaults EXCEPT ![j] = job]
                                                       ELSE defaults
      BY <1>1 DEF CreateOrUpdateJob
    <2>2. [LoadJobs EXCEPT ![j] = job] \in Book /\ defaults' \in Book
      BY <2>1, LoadJobsType DEF Book, TypeOK
    <2>3. left' \in [Events -> Nat]
      BY <1>1, SpendType DEF CreateOrUpdateJob, TypeOK, Events
    <2> QED
      BY <1>1, <2>1, <2>2, <2>3 DEF CreateOrUpdateJob, SaveJobs, TypeOK, ListsOK, cron
  <1>2. ASSUME NEW j \in Jobs, DeleteJob(j) PROVE TypeOK' /\ ListsOK'
    <2>1. [LoadJobs EXCEPT ![j] = NoJob] \in Book
      BY LoadJobsType DEF Book
    <2>2. left' \in [Events -> Nat]
      BY <1>2, SpendType DEF DeleteJob, TypeOK, Events
    <2> QED
      BY <1>2, <2>1, <2>2 DEF DeleteJob, SaveJobs, TypeOK, ListsOK, cron
  <1>3. CASE SaveDone
    BY <1>3 DEF SaveDone, TypeOK, ListsOK, cron
  <1>4. ASSUME NEW j \in Jobs, Tick(j) PROVE TypeOK' /\ ListsOK'
    BY <1>4 DEF Tick, TypeOK, ListsOK, file
  <1>5. CASE CronTurn
    <2>1. running' \subseteq Jobs
      BY <1>5 DEF CronTurn, Due, TypeOK
    <2>2. last' \in [Jobs -> {"none", "fresh", "tick"}]
      BY <1>5 DEF CronTurn, TypeOK
    <2>3. trigger' \in [Runs -> {"", "CRON", "MANUAL"}] /\ stage' \in [Runs -> Stages]
      BY <1>5 DEF CronTurn, TypeOK, Stages
    <2> QED
      BY <1>5, <2>1, <2>2, <2>3 DEF CronTurn, TypeOK, ListsOK, file
  <1>6. ASSUME NEW j \in Jobs, RunNow(j) PROVE TypeOK' /\ ListsOK'
    <2>1. left' \in [Events -> Nat]
      BY <1>6, SpendType DEF RunNow, TypeOK, Events
    <2>2. trigger' \in [Runs -> {"", "CRON", "MANUAL"}] /\ stage' \in [Runs -> Stages]
      BY <1>6 DEF RunNow, TypeOK, Stages, GoTo
    <2> QED
      BY <1>6, <2>1, <2>2 DEF RunNow, TypeOK, ListsOK, file, cron
  <1>7. ASSUME NEW r \in Runs, Discard(r) PROVE TypeOK' /\ ListsOK'
    BY <1>7 DEF Discard, GoTo, TypeOK, ListsOK, file, Stages
  <1>8. ASSUME NEW r \in Runs, Load(r) PROVE TypeOK' /\ ListsOK'
    <2>1. stage' \in [Runs -> Stages] /\ loop' \in {"idle", "save", "run"}
      BY <1>8, ReturnType DEF Load, GoTo, TypeOK, Stages
    <2>2. DOMAIN todo' = Runs /\ todo' = [q \in Runs |-> todo'[q]]
      BY <1>8 DEF Load, ListsOK
    <2> QED
      BY <1>8, <2>1, <2>2 DEF Load, TypeOK, ListsOK, file, cron
  <1>9. ASSUME NEW r \in Runs, InsertRow(r) PROVE TypeOK' /\ ListsOK'
    BY <1>9 DEF InsertRow, GoTo, TypeOK, ListsOK, file, cron, Stages
  <1>10. ASSUME NEW r \in Runs, SkipTask(r) PROVE TypeOK' /\ ListsOK'
    BY <1>10, RecordType DEF SkipTask
  <1>11. ASSUME NEW r \in Runs, ExecuteTask(r) PROVE TypeOK' /\ ListsOK'
    BY <1>11, RecordType DEF ExecuteTask, Outcomes
  <1>12. ASSUME NEW r \in Runs, UpdateRow(r) PROVE TypeOK' /\ ListsOK'
    BY <1>12, ReturnType DEF UpdateRow, OverallStatus, TypeOK, ListsOK, file, cron
  <1>13. ASSUME NEW r \in Runs, RowFails(r) PROVE TypeOK' /\ ListsOK'
    <2>1. left' \in [Events -> Nat]
      BY <1>13, SpendType DEF RowFails, TypeOK, Events
    <2> QED
      BY <1>13, <2>1, ReturnType DEF RowFails, TypeOK, ListsOK, file, cron
  <1>14. CASE Crash
    <2>1. left' \in [Events -> Nat]
      BY <1>14, SpendType DEF Crash, TypeOK, Events
    <2>2. stage' \in [Runs -> Stages]
      BY <1>14 DEF Crash, TypeOK, Stages
    <2> QED
      BY <1>14, <2>1, <2>2 DEF Crash, TypeOK, ListsOK
  <1>15. CASE UNCHANGED vars
    BY <1>15 DEF vars, file, cron, TypeOK, ListsOK
  <1> QED
    BY <1>1, <1>2, <1>3, <1>4, <1>5, <1>6, <1>7, <1>8, <1>9, <1>10, <1>11, <1>12, <1>13,
       <1>14, <1>15 DEF Next, RunStep

-----------------------------------------------------------------------------
(* The cron loop's runs. *)

\* A step that starts no run of the cron loop and releases no job.
LEMMA NoNewCronRun ==
    ASSUME CronInv, running \subseteq running',
           \A r \in Runs : CronRun(r)' => CronRun(r)
    PROVE  CronInv'
  BY DEF CronInv

\* A step of one run, which does not take it back to its start.
LEMMA OneRunMoves ==
    ASSUME TypeOK, CronInv, NEW r \in Runs, NEW s \in Stages, GoTo(r, s),
           CronRun(r) \/ s \notin {"load", "insert", "tasks", "ended"},
           UNCHANGED <<trigger, running>>
    PROVE  CronInv'
  <1>1. \A q \in Runs : CronRun(q)' => CronRun(q)
    <2>1. \A q \in Runs : stage'[q] = IF q = r THEN s ELSE stage[q]
      BY DEF GoTo, TypeOK
    <2> QED
      BY <2>1 DEF CronRun
  <1> QED
    BY <1>1, NoNewCronRun

LEMMA ReturnKeepsCron ==
    ASSUME TypeOK, CronInv, NEW r \in Runs, stage[r] \in {"load", "insert", "tasks"},
           Return(r), UNCHANGED <<trigger, running>>
    PROVE  CronInv'
  <1>1. CASE trigger[r] = "CRON"
    BY <1>1, OneRunMoves DEF Return, CronRun, Stages
  <1>2. CASE trigger[r] # "CRON"
    BY <1>2, OneRunMoves DEF Return, CronRun, Stages
  <1> QED
    BY <1>1, <1>2

LEMMA CronStep == TypeOK /\ CronInv /\ [Next]_vars => CronInv'
  <1> SUFFICES ASSUME TypeOK, CronInv, [Next]_vars PROVE CronInv'
    OBVIOUS
  <1>1. ASSUME UNCHANGED <<running, trigger, stage>> PROVE CronInv'
    BY <1>1 DEF CronInv, CronRun
  <1>2. CASE CronTurn
    <2> DEFINE started == {NextRun(j) : j \in Due}
    <2>1. /\ running' = running \cup Due
          /\ \A r \in Runs : r \in started \/ (trigger'[r] = trigger[r] /\ stage'[r] = stage[r])
      BY <1>2 DEF CronTurn
    <2>2. ASSUME NEW r \in started
          PROVE  r = NextRun(r[1]) /\ r[1] \in Due /\ r[1] \notin running
      BY DEF NextRun, Due, Watched
    <2>3. \A r \in Runs : r \notin started /\ CronRun(r)' => CronRun(r) /\ r[1] \in running
      BY <2>1 DEF CronInv, CronRun
    <2> HIDE DEF started
    <2>4. \A r \in Runs : CronRun(r)' => r[1] \in running'
      BY <2>1, <2>2, <2>3
    <2>5. ASSUME NEW q \in Runs, NEW r \in Runs, CronRun(q)', CronRun(r)', q[1] = r[1]
          PROVE  q = r
      <3>1. q \in started <=> r \in started
        BY <2>2, <2>3, <2>5
      <3> QED
        BY <2>2, <2>3, <2>5, <3>1 DEF CronInv
    <2> QED
      BY <2>4, <2>5 DEF CronInv
  <1>3. ASSUME NEW j \in Jobs, RunNow(j) PROVE CronInv'
    <2>1. NextRun(j) \in Runs /\ stage[NextRun(j)] = "unused"
      BY <1>3, NextRunIsFree DEF RunNow
    <2>2. \A r \in Runs : /\ trigger'[r] = IF r = NextRun(j) THEN "MANUAL" ELSE trigger[r]
                          /\ r # NextRun(j) => stage'[r] = stage[r]
      BY <1>3, <2>1 DEF RunNow, GoTo, TypeOK
    <2>3. \A r \in Runs : CronRun(r)' => CronRun(r)
      BY <2>2 DEF CronRun
    <2> QED
      BY <1>3, <2>3, NoNewCronRun DEF RunNow, cron
  <1>4. ASSUME NEW r \in Runs, Discard(r) PROVE CronInv'
    <2>1. CronRun(r) /\ running' = running \ {r[1]} /\ trigger' = trigger
      BY <1>4 DEF Discard, CronRun
    <2>2. \A q \in Runs : stage'[q] = IF q = r THEN "over" ELSE stage[q]
      BY <1>4 DEF Discard, GoTo, TypeOK
    <2>3. \A q \in Runs : CronRun(q)' => CronRun(q) /\ q # r
      BY <2>1, <2>2 DEF CronRun
    <2> QED
      BY <2>1, <2>3 DEF CronInv
  <1>5. ASSUME NEW r \in Runs, Load(r) PROVE CronInv'
    <2>1. CASE LoadJobs[r[1]] = NoJob
      BY <1>5, <2>1, ReturnKeepsCron DEF Load, cron
    <2>2. CASE LoadJobs[r[1]] # NoJob
      <3>1. CASE trigger[r] = "CRON"
        BY <1>5, <2>2, <3>1, OneRunMoves DEF Load, cron, CronRun, Stages
      <3>2. CASE trigger[r] # "CRON"
        <4>1. \A q \in Runs : stage'[q] = stage[q] \/ q = r
          BY <1>5, <2>2 DEF Load, GoTo, TypeOK
        <4>2. \A q \in Runs : CronRun(q)' => CronRun(q)
          BY <1>5, <3>2, <4>1 DEF Load, CronRun
        <4> QED
          BY <1>5, <4>2, NoNewCronRun DEF Load, cron
      <3> QED
        BY <3>1, <3>2
    <2> QED
      BY <2>1, <2>2
  <1>6. ASSUME NEW r \in Runs, InsertRow(r) PROVE CronInv'
    <2>1. \A q \in Runs : stage'[q] = IF q = r THEN "tasks" ELSE stage[q]
      BY <1>6 DEF InsertRow, GoTo, TypeOK
    <2>2. \A q \in Runs : CronRun(q)' => CronRun(q)
      BY <1>6, <2>1 DEF InsertRow, CronRun
    <2> QED
      BY <1>6, <2>2, NoNewCronRun DEF InsertRow, cron
  <1>7. ASSUME NEW r \in Runs, UpdateRow(r) \/ RowFails(r) PROVE CronInv'
    BY <1>7, ReturnKeepsCron DEF UpdateRow, RowFails, cron
  <1>8. CASE Crash
    <2>1. \A r \in Runs : ~CronRun(r)'
      BY <1>8 DEF Crash, CronRun
    <2> QED
      BY <2>1 DEF CronInv
  <1>9. ASSUME NEW r \in Runs, SkipTask(r) \/ ExecuteTask(r)
        PROVE  UNCHANGED <<running, trigger, stage>>
    BY <1>9 DEF SkipTask, ExecuteTask, Record, cron
  <1>10. ASSUME NEW j \in Jobs, CreateOrUpdateJob(j) \/ DeleteJob(j) \/ Tick(j)
         PROVE  UNCHANGED <<running, trigger, stage>>
    BY <1>10 DEF CreateOrUpdateJob, DeleteJob, Tick, cron
  <1>11. SaveDone \/ UNCHANGED vars => UNCHANGED <<running, trigger, stage>>
    BY DEF SaveDone, vars, cron
  <1> QED
    BY <1>1, <1>2, <1>3, <1>4, <1>5, <1>6, <1>7, <1>8, <1>9, <1>10, <1>11 DEF Next, RunStep

-----------------------------------------------------------------------------
(* The rows of job_runs. *)

\* overall_status is SUCCESS just when every task succeeded.
LEMMA FailedMeansNotAllSucceeded ==
    ASSUME TypeOK, NEW r \in Runs
    PROVE  Failed(r) = {} <=> \A i \in DOMAIN done[r] : done[r][i].status = "SUCCESS"
  <1>1. \A i \in DOMAIN done[r] : done[r][i].status \in {"SUCCESS", "FAILED", "SKIPPED"}
    BY DEF TypeOK
  <1>2. Failed(r) = {} <=> \A i \in DOMAIN done[r] : done[r][i].status \notin {"FAILED", "SKIPPED"}
    BY DEF Failed, Ids
  <1> QED
    BY <1>1, <1>2

RunsIn(stages) == {r \in Runs : row[r] = "RUNNING" /\ stage[r] \in stages}
Stale == RunsIn({"ended", "over"})

LEMMA StaleType == ASSUME TypeOK PROVE IsFiniteSet(Stale) /\ Cardinality(Stale) \in Nat
  <1>1. IsFiniteSet(Runs)
    <2>1. IsFiniteSet(1..MaxRuns)
      BY WorkflowAssumption, FS_Interval
    <2> QED
      BY <2>1, WorkflowAssumption, FS_Product DEF Runs
  <1> QED
    BY <1>1, FS_Subset, FS_CardinalityType DEF Stale, RunsIn

\* A step that leaves no run behind in RUNNING.
LEMMA NoNewStale ==
    ASSUME TypeOK, TypeOK', StaleRowsExplained, Stale' \subseteq Stale,
           left'["dbfail"] <= left["dbfail"]
    PROVE  StaleRowsExplained'
  <1>1. Cardinality(Stale') <= Cardinality(Stale) /\ Cardinality(Stale') \in Nat
    BY StaleType, FS_Subset, FS_CardinalityType
  <1>2. left["dbfail"] \in Nat /\ left'["dbfail"] \in Nat /\ Budget["dbfail"] \in Nat
    BY WorkflowAssumption DEF TypeOK, Events
  <1>3. Cardinality(Stale) <= Budget["dbfail"] - left["dbfail"]
    BY DEF StaleRowsExplained, Stale, RunsIn, Spent
  <1>4. Cardinality(Stale') <= Budget["dbfail"] - left'["dbfail"]
    BY <1>1, <1>2, <1>3, StaleType
  <1> QED
    BY <1>4 DEF StaleRowsExplained, Stale, RunsIn, Spent

\* The run whose row the database refuses is the only one left behind.
LEMMA OneNewStale ==
    ASSUME TypeOK, TypeOK', StaleRowsExplained, NEW r \in Runs,
           Stale' \subseteq Stale \cup {r}, Spend("dbfail")
    PROVE  StaleRowsExplained'
  <1>1. /\ IsFiniteSet(Stale \cup {r})
        /\ Cardinality(Stale \cup {r}) <= Cardinality(Stale) + 1
        /\ Cardinality(Stale \cup {r}) \in Nat
    <2>1. /\ IsFiniteSet(Stale) /\ Cardinality(Stale) \in Nat
          /\ IsFiniteSet(Stale \cup {r})
          /\ Cardinality(Stale \cup {r}) = IF r \in Stale THEN Cardinality(Stale)
                                           ELSE Cardinality(Stale) + 1
      BY StaleType, FS_AddElement
    <2> QED
      BY <2>1
  <1>2. Cardinality(Stale') <= Cardinality(Stale) + 1 /\ Cardinality(Stale') \in Nat
    BY <1>1, StaleType, FS_Subset, FS_CardinalityType
  <1>3. /\ left["dbfail"] \in Nat /\ left'["dbfail"] = left["dbfail"] - 1
        /\ Budget["dbfail"] \in Nat
    BY WorkflowAssumption DEF TypeOK, Events, Spend
  <1>4. Cardinality(Stale) <= Budget["dbfail"] - left["dbfail"]
    BY DEF StaleRowsExplained, Stale, RunsIn, Spent
  <1>5. Cardinality(Stale') <= Budget["dbfail"] - left'["dbfail"]
    BY <1>2, <1>3, <1>4, StaleType
  <1> QED
    BY <1>5 DEF StaleRowsExplained, Stale, RunsIn, Spent

\* Whatever else a step does, rows and lists stay and no run comes to its end.
NoRunEnds ==
    \A r \in Runs : \/ stage'[r] = stage[r]
                    \/ stage[r] \in {"unused", "load"} /\ stage'[r] = "load"
                    \/ stage[r] = "ended" /\ stage'[r] = "over"
                    \/ stage'[r] = "dead"

LEMMA RowsUntouched ==
    ASSUME TypeOK, TypeOK', RowInv, RowsKept, UNCHANGED <<row, todo, done>>, NoRunEnds,
           left'["dbfail"] <= left["dbfail"]
    PROVE  RowInv' /\ RowsKept'
  <1>1. RowInv'
    BY DEF RowInv, NoRunEnds
  <1>2. RowTellsOutcome'
    BY DEF RowsKept, RowTellsOutcome
  <1>3. Stale' \subseteq Stale
    BY DEF Stale, RunsIn, RowInv, NoRunEnds
  <1> QED
    BY <1>1, <1>2, <1>3, NoNewStale DEF RowsKept

LEMMA Unspent ==
    ASSUME TypeOK, UNCHANGED left
    PROVE  left'["dbfail"] <= left["dbfail"]
  <1>1. left["dbfail"] \in Nat
    BY DEF TypeOK, Events
  <1> QED
    BY <1>1

LEMMA SpentElsewhere ==
    ASSUME TypeOK, NEW e \in Events \ {"dbfail"}, Spend(e)
    PROVE  left'["dbfail"] <= left["dbfail"]
  <1>1. left["dbfail"] \in Nat /\ left'["dbfail"] = left["dbfail"]
    BY DEF TypeOK, Events, Spend
  <1> QED
    BY <1>1

LEMMA ReturnEnds ==
    ASSUME TypeOK, NEW r \in Runs, Return(r)
    PROVE  \E s \in {"ended", "over"} :
              \A q \in Runs : stage'[q] = IF q = r THEN s ELSE stage[q]
  <1>1. PICK s \in {"ended", "over"} : GoTo(r, s)
    BY DEF Return
  <1> QED
    BY <1>1 DEF GoTo, TypeOK

\* A task that is recorded belongs to a run whose row says RUNNING.
LEMMA RecordKeepsRows ==
    ASSUME TypeOK, TypeOK', ListsOK, RowInv, RowsKept, NEW r \in Runs, stage[r] = "tasks",
           NEW task, NEW status, Record(r, task, status)
    PROVE  RowInv' /\ RowsKept'
  <1>1. UNCHANGED <<row, stage, left>>
    BY DEF Record
  <1>2. \A q \in Runs \ {r} : todo'[q] = todo[q] /\ done'[q] = done[q]
    BY DEF Record, ListsOK
  <1>3. row[r] = "RUNNING"
    BY DEF RowInv
  <1>4. RowTellsOutcome'
    BY <1>1, <1>2, <1>3 DEF RowsKept, RowTellsOutcome
  <1>5. RowInv' /\ Stale' = Stale
    BY <1>1 DEF RowInv, Stale, RunsIn
  <1>6. left'["dbfail"] <= left["dbfail"]
    BY <1>1, Unspent
  <1> QED
    BY <1>4, <1>5, <1>6, NoNewStale DEF RowsKept

LEMMA RowStep ==
    TypeOK /\ TypeOK' /\ ListsOK /\ RowInv /\ RowsKept /\ [Next]_vars => RowInv' /\ RowsKept'
  <1> SUFFICES ASSUME TypeOK, TypeOK', ListsOK, RowInv, RowsKept, [Next]_vars
               PROVE  RowInv' /\ RowsKept'
    OBVIOUS
  <1>1. ASSUME NEW j \in Jobs, CreateOrUpdateJob(j) \/ DeleteJob(j) \/ Tick(j)
        PROVE  RowInv' /\ RowsKept'
    <2>1. UNCHANGED <<row, todo, done, stage>>
      BY <1>1 DEF CreateOrUpdateJob, DeleteJob, Tick
    <2>2. left'["dbfail"] <= left["dbfail"]
      BY <1>1, SpentElsewhere, Unspent DEF CreateOrUpdateJob, DeleteJob, Tick, Events
    <2> QED
      BY <2>1, <2>2, RowsUntouched DEF NoRunEnds
  <1>2. CASE SaveDone \/ UNCHANGED vars
    <2>1. UNCHANGED <<row, todo, done, stage, left>>
      BY <1>2 DEF SaveDone, vars
    <2>2. left'["dbfail"] <= left["dbfail"]
      BY <2>1, Unspent
    <2> QED
      BY <2>1, <2>2, RowsUntouched DEF NoRunEnds
  <1>3. CASE CronTurn
    <2>1. UNCHANGED <<row, todo, done, left>>
      BY <1>3 DEF CronTurn
    <2>2. left'["dbfail"] <= left["dbfail"]
      BY <2>1, Unspent
    <2>3. ASSUME NEW r \in Runs, stage'[r] # stage[r]
          PROVE  stage[r] = "unused" /\ stage'[r] = "load"
      <3>1. PICK j \in Due : r = NextRun(j) /\ stage'[r] = "load"
        BY <1>3, <2>3 DEF CronTurn
      <3>2. j \in Jobs /\ FreeSlots(j) # {}
        BY DEF Due
      <3> QED
        BY <3>1, <3>2, NextRunIsFree
    <2>4. \A r \in Runs : stage'[r] = stage[r] \/ (stage[r] = "unused" /\ stage'[r] = "load")
      BY <2>3
    <2> QED
      BY <2>1, <2>2, <2>4, RowsUntouched DEF NoRunEnds
  <1>4. ASSUME NEW j \in Jobs, RunNow(j) PROVE RowInv' /\ RowsKept'
    <2>1. NextRun(j) \in Runs /\ stage[NextRun(j)] = "unused"
      BY <1>4, NextRunIsFree DEF RunNow
    <2>2. UNCHANGED <<row, todo, done>> /\ left'["dbfail"] <= left["dbfail"]
      BY <1>4, SpentElsewhere DEF RunNow, Events
    <2>3. \A r \in Runs : stage'[r] = IF r = NextRun(j) THEN "load" ELSE stage[r]
      BY <1>4 DEF RunNow, GoTo, TypeOK
    <2> QED
      BY <2>1, <2>2, <2>3, RowsUntouched DEF NoRunEnds
  <1>5. ASSUME NEW r \in Runs, Discard(r) PROVE RowInv' /\ RowsKept'
    <2>1. UNCHANGED <<row, todo, done, left>> /\ left'["dbfail"] <= left["dbfail"]
      BY <1>5, Unspent DEF Discard
    <2>2. \A q \in Runs : stage'[q] = IF q = r THEN "over" ELSE stage[q]
      BY <1>5 DEF Discard, GoTo, TypeOK
    <2>3. stage[r] = "ended"
      BY <1>5 DEF Discard
    <2> QED
      BY <2>1, <2>2, <2>3, RowsUntouched DEF NoRunEnds
  <1>6. ASSUME NEW r \in Runs, Load(r) PROVE RowInv' /\ RowsKept'
    <2>1. UNCHANGED <<row, done, left>> /\ left'["dbfail"] <= left["dbfail"]
      BY <1>6, Unspent DEF Load
    <2>2. PICK s \in {"insert", "ended", "over"} :
             \A q \in Runs : stage'[q] = IF q = r THEN s ELSE stage[q]
      <3>1. PICK s \in {"insert", "ended", "over"} : GoTo(r, s)
        BY <1>6 DEF Load, Return
      <3> QED
        BY <3>1 DEF GoTo, TypeOK
    <2>3. stage[r] = "load" /\ row[r] = "none"
      BY <1>6 DEF Load, RowInv
    <2>4. \A q \in Runs \ {r} : todo'[q] = todo[q]
      BY <1>6 DEF Load, ListsOK
    <2>5. RowInv'
      BY <2>1, <2>2, <2>3 DEF RowInv
    <2>6. RowTellsOutcome'
      BY <2>1, <2>3, <2>4 DEF RowsKept, RowTellsOutcome
    <2>7. Stale' \subseteq Stale
      BY <2>1, <2>2, <2>3 DEF Stale, RunsIn
    <2> QED
      BY <2>1, <2>5, <2>6, <2>7, NoNewStale DEF RowsKept
  <1>7. ASSUME NEW r \in Runs, InsertRow(r) PROVE RowInv' /\ RowsKept'
    <2>1. UNCHANGED <<todo, done, left>> /\ left'["dbfail"] <= left["dbfail"]
      BY <1>7, Unspent DEF InsertRow
    <2>2. \A q \in Runs : /\ stage'[q] = IF q = r THEN "tasks" ELSE stage[q]
                          /\ row'[q] = IF q = r THEN "RUNNING" ELSE row[q]
      <3>1. DOMAIN stage = Runs /\ DOMAIN row = Runs
        BY DEF TypeOK
      <3>2. stage' = [stage EXCEPT ![r] = "tasks"] /\ row' = [row EXCEPT ![r] = "RUNNING"]
        BY <1>7 DEF InsertRow, GoTo
      <3> QED
        BY <3>1, <3>2
    <2>3. RowInv'
      BY <2>2 DEF RowInv
    <2>4. RowTellsOutcome'
      BY <2>1, <2>2 DEF RowsKept, RowTellsOutcome
    <2>5. Stale' \subseteq Stale
      BY <2>2 DEF Stale, RunsIn
    <2> QED
      BY <2>1, <2>3, <2>4, <2>5, NoNewStale DEF RowsKept
  <1>8. ASSUME NEW r \in Runs, SkipTask(r) PROVE RowInv' /\ RowsKept'
    BY <1>8, RecordKeepsRows DEF SkipTask
  <1>9. ASSUME NEW r \in Runs, ExecuteTask(r) PROVE RowInv' /\ RowsKept'
    BY <1>9, RecordKeepsRows DEF ExecuteTask
  <1>10. ASSUME NEW r \in Runs, UpdateRow(r) PROVE RowInv' /\ RowsKept'
    <2>1. UNCHANGED <<todo, done, left>> /\ left'["dbfail"] <= left["dbfail"]
      BY <1>10, Unspent DEF UpdateRow
    <2>2. PICK s \in {"ended", "over"} :
             \A q \in Runs : stage'[q] = IF q = r THEN s ELSE stage[q]
      BY <1>10, ReturnEnds DEF UpdateRow
    <2>3. \A q \in Runs : row'[q] = IF q = r THEN OverallStatus(r) ELSE row[q]
      BY <1>10 DEF UpdateRow, TypeOK
    <2>4. todo[r] = <<>> /\ OverallStatus(r) \in {"SUCCESS", "FAILED"}
      BY <1>10 DEF UpdateRow, OverallStatus
    <2>5. OverallStatus(r) = "SUCCESS" <=>
            \A i \in DOMAIN done[r] : done[r][i].status = "SUCCESS"
      BY FailedMeansNotAllSucceeded DEF OverallStatus
    <2>6. RowInv'
      BY <2>2, <2>3 DEF RowInv
    <2>7. RowTellsOutcome'
      BY <2>1, <2>3, <2>4, <2>5 DEF RowsKept, RowTellsOutcome
    <2>8. Stale' \subseteq Stale
      BY <2>2, <2>3, <2>4 DEF Stale, RunsIn
    <2> QED
      BY <2>1, <2>6, <2>7, <2>8, NoNewStale DEF RowsKept
  <1>11. ASSUME NEW r \in Runs, RowFails(r) PROVE RowInv' /\ RowsKept'
    <2>1. UNCHANGED <<row, todo, done>> /\ Spend("dbfail")
      BY <1>11 DEF RowFails
    <2>2. PICK s \in {"ended", "over"} :
             \A q \in Runs : stage'[q] = IF q = r THEN s ELSE stage[q]
      BY <1>11, ReturnEnds DEF RowFails
    <2>3. RowInv'
      BY <2>1, <2>2 DEF RowInv
    <2>4. RowTellsOutcome'
      BY <2>1 DEF RowsKept, RowTellsOutcome
    <2>5. Stale' \subseteq Stale \cup {r}
      BY <2>1, <2>2 DEF Stale, RunsIn
    <2> QED
      BY <2>1, <2>3, <2>4, <2>5, OneNewStale DEF RowsKept
  <1>12. CASE Crash
    <2>1. UNCHANGED <<row, todo, done>> /\ left'["dbfail"] <= left["dbfail"]
      BY <1>12, SpentElsewhere DEF Crash, Events
    <2>2. \A r \in Runs : stage'[r] = stage[r] \/ stage'[r] = "dead"
      BY <1>12 DEF Crash
    <2> QED
      BY <2>1, <2>2, RowsUntouched DEF NoRunEnds
  <1> QED
    BY <1>1, <1>2, <1>3, <1>4, <1>5, <1>6, <1>7, <1>8, <1>9, <1>10, <1>11, <1>12
    DEF Next, RunStep

-----------------------------------------------------------------------------
(* Induction on the natural numbers, and recursion. *)

LEMMA LeastMember ==
    ASSUME NEW P \in SUBSET Nat, P # {}
    PROVE  \E n \in P : \A k \in P : n <= k
  <1> DEFINE R == {ss \in Nat \X Nat : ss[1] < ss[2]}
  <1>1. IsWellFoundedOn(R, Nat)
    BY NatLessThanWellFounded DEF OpToRel
  <1>2. PICK n \in P : \A k \in P : <<k, n>> \notin R
    <2> HIDE DEF R
    <2> QED
      BY <1>1, WFMin
  <1>3. \A k \in P : ~(k < n)
    BY <1>2
  <1>4. \A k \in P : k \in Nat /\ n \in Nat
    OBVIOUS
  <1> HIDE DEF R
  <1>5. \A k \in P : n <= k
    BY <1>3, <1>4
  <1> QED
    BY <1>5

LEMMA SetInduction ==
    ASSUME NEW P \in SUBSET Nat, 0 \in P, \A n \in P : n + 1 \in P
    PROVE  P = Nat
  <1> DEFINE Q == Nat \ P
  <1> SUFFICES ASSUME Q # {} PROVE FALSE
    OBVIOUS
  <1>1. PICK n \in Q : \A k \in Q : n <= k
    BY LeastMember
  <1>2. n # 0 /\ n - 1 \in Nat /\ n - 1 \notin Q
    BY <1>1
  <1>3. n - 1 \in P /\ (n - 1) + 1 = n
    BY <1>2
  <1> QED
    BY <1>1, <1>3

\* A function that is defined by recursion exists.
StepsIn(S) == [Nat \X S -> S]
Iterates(S, a, G) == {f \in [Nat -> S] : f[0] = a /\ \A n \in Nat : f[n + 1] = G[<<n, f[n]>>]}

LEMMA Recursion ==
    ASSUME NEW S, NEW a \in S, NEW G \in StepsIn(S)
    PROVE  Iterates(S, a, G) # {}
  <1>0. G \in [Nat \X S -> S]
    BY DEF StepsIn
  <1> DEFINE Part(n, g) == g \in [0..n -> S] /\ g[0] = a /\ \A i \in 0..(n - 1) : g[i + 1] = G[<<i, g[i]>>]
             P == {n \in Nat : \E g \in [0..n -> S] : Part(n, g)}
  <1>1. 0 \in P
    <2>1. Part(0, [i \in 0..0 |-> a])
      OBVIOUS
    <2> QED
      BY <2>1
  <1>2. ASSUME NEW n \in P
        PROVE  n + 1 \in P
    <2>1. PICK g \in [0..n -> S] : Part(n, g)
      OBVIOUS
    <2> DEFINE h == [i \in 0..(n + 1) |-> IF i = n + 1 THEN G[<<n, g[n]>>] ELSE g[i]]
    <2>2. n \in Nat /\ g[n] \in S /\ G[<<n, g[n]>>] \in S
      BY <1>0
    <2>3. h \in [0..(n + 1) -> S] /\ h[0] = a
      BY <2>1, <2>2
    <2>4. ASSUME NEW i \in 0..((n + 1) - 1)
          PROVE  h[i + 1] = G[<<i, h[i]>>]
      <3>0. i \in 0..n /\ i \in 0..(n + 1) /\ i + 1 \in 0..(n + 1) /\ i # n + 1 /\ (i + 1 = n + 1 <=> i = n)
            /\ (i # n => i \in 0..(n - 1))
        BY <2>2
      <3>3. h[i] = g[i] /\ h[i + 1] = IF i = n THEN G[<<n, g[n]>>] ELSE g[i + 1]
        BY <3>0
      <3> HIDE DEF h
      <3>1. CASE i = n
        BY <3>1, <3>3
      <3>2. CASE i # n
        <4>1. g[i + 1] = G[<<i, g[i]>>]
          BY <3>0, <3>2, <2>1
        <4> QED
          BY <3>2, <3>3, <4>1
      <3> QED
        BY <3>1, <3>2
    <2>5. Part(n + 1, h)
      BY <2>3, <2>4
    <2> HIDE DEF h, Part
    <2>6. n + 1 \in Nat /\ \E x \in [0..(n + 1) -> S] : Part(n + 1, x)
      BY <2>2, <2>3, <2>5
    <2> QED
      BY <2>6
  <1>3. P = Nat
    <2> P \in SUBSET Nat
      OBVIOUS
    <2> HIDE DEF P
    <2> QED
      BY <1>1, <1>2, SetInduction
  <1>4. \A n \in Nat : \E g \in [0..n -> S] : Part(n, g)
    BY <1>3
  <1> HIDE DEF P
  \* Two of them agree as far as both go.
  <1>5. ASSUME NEW m \in Nat, NEW n \in Nat, NEW g \in [0..m -> S], NEW h \in [0..n -> S],
               Part(m, g), Part(n, h)
        PROVE  \A i \in Nat : i <= m /\ i <= n => g[i] = h[i]
    <2> DEFINE E == {i \in Nat : i <= m /\ i <= n => g[i] = h[i]}
    <2>1. 0 \in E
      BY <1>5
    <2>2. ASSUME NEW i \in E
          PROVE  i + 1 \in E
      <3>1. i + 1 <= m /\ i + 1 <= n => i \in 0..(m - 1) /\ i \in 0..(n - 1) /\ g[i] = h[i]
        OBVIOUS
      <3>2. i + 1 <= m /\ i + 1 <= n => g[i + 1] = G[<<i, g[i]>>] /\ h[i + 1] = G[<<i, h[i]>>]
        BY <3>1, <1>5
      <3>3. i + 1 \in Nat
        OBVIOUS
      <3> QED
        BY <3>1, <3>2, <3>3
    <2>3. E = Nat
      <3> E \in SUBSET Nat
        OBVIOUS
      <3> HIDE DEF E
      <3> QED
        BY <2>1, <2>2, SetInduction
    <2> QED
      BY <2>3
  <1> DEFINE part == [n \in Nat |-> CHOOSE g \in [0..n -> S] : Part(n, g)]
             f == [n \in Nat |-> part[n][n]]
  <1>6. \A n \in Nat : part[n] \in [0..n -> S] /\ Part(n, part[n])
    BY <1>4
  <1> HIDE DEF part
  <1>7. f \in [Nat -> S]
    BY <1>6
  <1>8. f[0] = a
    BY <1>6
  <1>9. ASSUME NEW n \in Nat
        PROVE  f[n + 1] = G[<<n, f[n]>>]
    <2>1. n + 1 \in Nat /\ n \in 0..((n + 1) - 1) /\ n <= n + 1 /\ n <= n
      OBVIOUS
    <2>2. Part(n, part[n]) /\ Part(n + 1, part[n + 1])
      BY <1>6, <2>1
    <2>3. part[n + 1][n + 1] = G[<<n, part[n + 1][n]>>]
      BY <2>1, <2>2
    <2>4. part[n + 1][n] = part[n][n]
      <3> HIDE DEF Part
      <3> QED
        BY <2>1, <2>2, <1>6, <1>5
    <2> QED
      BY <2>1, <2>3, <2>4
  <1> HIDE DEF f
  <1> QED
    BY <1>7, <1>8, <1>9 DEF Iterates

LEMMA UpTo ==
    ASSUME NEW N \in Nat, NEW P, 0 \in P, \A n \in 0..(N - 1) : n \in P => n + 1 \in P
    PROVE  \A n \in 0..N : n \in P
  <1> DEFINE Q == {n \in Nat : n <= N => n \in P}
  <1>1. 0 \in Q
    OBVIOUS
  <1>2. ASSUME NEW n \in Q
        PROVE  n + 1 \in Q
    <2>1. n + 1 <= N => n \in 0..(N - 1)
      OBVIOUS
    <2> QED
      BY <2>1
  <1>3. Q = Nat
    <2> Q \in SUBSET Nat
      OBVIOUS
    <2> HIDE DEF Q
    <2> QED
      BY <1>1, <1>2, SetInduction
  <1> QED
    BY <1>3

-----------------------------------------------------------------------------
(* Sequences of distinct elements.                                         *)

One(s) == \A i, j \in DOMAIN s : s[i] = s[j] => i = j

LEMMA AppendFacts ==
    ASSUME NEW S, NEW s \in Seq(S), NEW x \in S
    PROVE  /\ Append(s, x) \in Seq(S) /\ ToSet(Append(s, x)) = ToSet(s) \cup {x}
           /\ Len(Append(s, x)) = Len(s) + 1
           /\ \A i \in 1..Len(s) : Append(s, x)[i] = s[i]
           /\ Append(s, x)[Len(s) + 1] = x
           /\ One(s) /\ x \notin ToSet(s) => One(Append(s, x))
  <1>1. /\ Append(s, x) \in Seq(S) /\ Len(s) \in Nat /\ DOMAIN s = 1..Len(s)
        /\ DOMAIN Append(s, x) = 1..(Len(s) + 1) /\ Len(Append(s, x)) = Len(s) + 1
        /\ \A i \in 1..Len(s) : Append(s, x)[i] = s[i]
        /\ Append(s, x)[Len(s) + 1] = x
    BY AppendProperties
  <1> DEFINE a == Append(s, x)
             n == Len(s)
  <1> HIDE DEF a
  <1>2. \A i \in 1..(n + 1) : (i \in 1..n /\ a[i] = s[i]) \/ (i = n + 1 /\ a[i] = x)
    <2>1. \A i \in 1..(n + 1) : i \in 1..n \/ i = n + 1
      BY <1>1
    <2> QED
      BY <1>1, <2>1 DEF a
  <1>3. \A i \in 1..n : i \in 1..(n + 1) /\ i # n + 1
    BY <1>1
  <1>4. n + 1 \in 1..(n + 1)
    BY <1>1
  <1> HIDE DEF n
  <1>5. ToSet(a) = ToSet(s) \cup {x}
    <2>1. DOMAIN a = 1..(n + 1) /\ DOMAIN s = 1..n /\ a[n + 1] = x /\ \A i \in 1..n : a[i] = s[i]
      BY <1>1 DEF a, n
    <2>2. ASSUME NEW y \in ToSet(a) PROVE y \in ToSet(s) \cup {x}
      BY <1>2, <2>1, <2>2 DEF ToSet
    <2>3. ASSUME NEW y \in ToSet(s) \cup {x} PROVE y \in ToSet(a)
      BY <1>3, <1>4, <2>1, <2>3 DEF ToSet
    <2> QED
      BY <2>2, <2>3
  <1>6. ASSUME One(s), x \notin ToSet(s)
        PROVE  One(a)
    <2>1. DOMAIN a = 1..(n + 1) /\ DOMAIN s = 1..n
      BY <1>1 DEF a, n
    <2> QED
      BY <1>2, <1>6, <2>1 DEF One, ToSet
  <1> QED
    BY <1>1, <1>5, <1>6 DEF a

LEMMA TailFacts ==
    ASSUME NEW S, NEW s \in Seq(S), s # <<>>
    PROVE  /\ Head(s) \in S /\ Tail(s) \in Seq(S)
           /\ ToSet(s) = {Head(s)} \cup ToSet(Tail(s))
           /\ One(s) => One(Tail(s)) /\ Head(s) \notin ToSet(Tail(s))
  <1>1. Len(s) \in Nat \ {0} /\ DOMAIN s = 1..Len(s) /\ Head(s) = s[1] /\ Head(s) \in S
    BY HeadTailProperties
  <1>2. Tail(s) \in Seq(S) /\ DOMAIN Tail(s) = 1..(Len(s) - 1)
        /\ \A i \in 1..(Len(s) - 1) : Tail(s)[i] = s[i + 1]
    BY HeadTailProperties
  <1> DEFINE n == Len(s)
             t == Tail(s)
  <1>3. \A i \in 1..(n - 1) : i + 1 \in 1..n /\ i + 1 # 1 /\ t[i] = s[i + 1]
    BY <1>1, <1>2
  <1>4. \A i \in 1..n : i = 1 \/ \E j \in 1..(n - 1) : i = j + 1
    <2> TAKE i \in 1..n
    <2>1. i # 1 => i - 1 \in 1..(n - 1) /\ i = (i - 1) + 1
      BY <1>1
    <2> QED
      BY <2>1
  <1>5. \A i, j \in 1..(n - 1) : i + 1 = j + 1 => i = j
    BY <1>1
  <1>6. 1 \in 1..n
    BY <1>1
  <1>7. DOMAIN s = 1..n /\ DOMAIN t = 1..(n - 1) /\ Head(s) = s[1]
    BY <1>1, <1>2
  <1> HIDE DEF n, t
  <1>8. ASSUME NEW y \in ToSet(s) PROVE y = Head(s) \/ y \in ToSet(t)
    BY <1>3, <1>4, <1>7 DEF ToSet
  <1>9. Head(s) \in ToSet(s) /\ ToSet(t) \subseteq ToSet(s)
    BY <1>3, <1>6, <1>7 DEF ToSet
  <1>10. ASSUME One(s)
         PROVE  One(t) /\ Head(s) \notin ToSet(t)
    <2>1. One(t)
      BY <1>3, <1>5, <1>7, <1>10 DEF One
    <2>2. \A i \in 1..(n - 1) : t[i] # Head(s)
      BY <1>3, <1>6, <1>7, <1>10 DEF One
    <2> QED
      BY <2>1, <2>2, <1>7 DEF ToSet
  <1> QED
    BY <1>1, <1>2, <1>8, <1>9, <1>10 DEF t

LEMMA DistinctCount ==
    ASSUME NEW S, NEW s \in Seq(S)
    PROVE  /\ IsFiniteSet(ToSet(s)) /\ Cardinality(ToSet(s)) \in Nat
           /\ Cardinality(ToSet(s)) <= Len(s)
           /\ Cardinality(ToSet(s)) = Len(s) <=> One(s)
  <1>1. Len(s) \in Nat /\ DOMAIN s = 1..Len(s) /\ s = [i \in 1..Len(s) |-> s[i]]
    OBVIOUS
  <1>2. IsFiniteSet(1..Len(s)) /\ Cardinality(1..Len(s)) = Len(s)
    <2>1. 1 \in Int /\ Len(s) \in Int /\ (IF 1 > Len(s) THEN 0 ELSE Len(s) - 1 + 1) = Len(s)
      BY <1>1
    <2>2. IsFiniteSet(1..Len(s)) /\ Cardinality(1..Len(s)) = IF 1 > Len(s) THEN 0 ELSE Len(s) - 1 + 1
      BY <2>1, FS_Interval, Zenon
    <2> QED
      BY <2>1, <2>2
  <1>3. s \in Surjection(1..Len(s), ToSet(s))
    BY <1>1 DEF Surjection, ToSet
  <1>4. s \in Injection(1..Len(s), ToSet(s)) <=> One(s)
    <2>1. s \in [1..Len(s) -> ToSet(s)]
      BY <1>1 DEF ToSet
    <2> QED
      BY <1>1, <2>1 DEF Injection, IsInjective, One
  <1> QED
    BY <1>2, <1>3, <1>4, FS_Surjection, FS_CardinalityType

-----------------------------------------------------------------------------
(* Task lists.                                                             *)

UniqueIds(tasks) == \A i, k \in DOMAIN tasks : tasks[i].id = tasks[k].id => i = k

DepsOf(tasks, id) == TaskOf(tasks, id).deps

LEMMA TaskOfFacts ==
    ASSUME NEW tasks, IsTaskList(tasks)
    PROVE  /\ Len(tasks) \in Nat /\ DOMAIN tasks = 1..Len(tasks)
           /\ \A id \in TaskIds(tasks) : \E i \in 1..Len(tasks) : tasks[i].id = id /\ TaskOf(tasks, id) = tasks[i]
           /\ \A id \in TaskIds(tasks) : IsFiniteSet(DepsOf(tasks, id))
           /\ \A i \in 1..Len(tasks) : tasks[i].id \in TaskIds(tasks)
  <1> DEFINE N == Len(tasks)
  <1>1. N \in Nat /\ DOMAIN tasks = 1..N
    BY DEF IsTaskList
  <1>2. ASSUME NEW id \in TaskIds(tasks)
        PROVE  \E i \in 1..N : tasks[i].id = id /\ TaskOf(tasks, id) = tasks[i]
    <2> DEFINE Back == {N - i : i \in {k \in 1..N : tasks[k].id = id}}
    <2>1. Back \in SUBSET Nat /\ Back # {}
      BY <1>1 DEF TaskIds
    <2>2. PICK b \in Back : \A k \in Back : b <= k
      BY <2>1, LeastMember
    <2>3. PICK i \in 1..N : tasks[i].id = id /\ b = N - i
      BY <2>2
    <2>4. \A k \in 1..N : tasks[k].id = id => k <= i
      <3> SUFFICES ASSUME NEW k \in 1..N, tasks[k].id = id
                   PROVE  k <= i
        OBVIOUS
      <3>1. N - k \in Back
        OBVIOUS
      <3>2. b <= N - k
        BY <2>2, <3>1
      <3> QED
        BY <1>1, <2>3, <3>2
    <2> DEFINE Latest(j) == /\ tasks[j].id = id
                            /\ \A k \in DOMAIN tasks : tasks[k].id = id => k <= j
    <2>5. \E j \in DOMAIN tasks : Latest(j)
      BY <1>1, <2>3, <2>4
    <2>6. PICK j : j = CHOOSE x \in DOMAIN tasks : Latest(x)
      OBVIOUS
    <2>7. j \in DOMAIN tasks /\ Latest(j)
      BY <2>5, <2>6
    <2>8. TaskOf(tasks, id) = tasks[j]
      BY <2>6 DEF TaskOf
    <2> QED
      BY <1>1, <2>7, <2>8
  <1>3. \A id \in TaskIds(tasks) : IsFiniteSet(DepsOf(tasks, id))
    BY <1>1, <1>2 DEF IsTaskList, DepsOf
  <1> QED
    BY <1>1, <1>2, <1>3 DEF TaskIds

LEMMA UniqueTaskOf ==
    ASSUME NEW tasks, IsTaskList(tasks), UniqueIds(tasks), NEW i \in 1..Len(tasks)
    PROVE  TaskOf(tasks, tasks[i].id) = tasks[i]
  BY TaskOfFacts DEF UniqueIds

LEMMA IdCount ==
    ASSUME NEW tasks, IsTaskList(tasks)
    PROVE  /\ IsFiniteSet(TaskIds(tasks)) /\ Cardinality(TaskIds(tasks)) \in Nat
           /\ Cardinality(TaskIds(tasks)) <= Len(tasks)
           /\ Cardinality(TaskIds(tasks)) = Len(tasks) <=> UniqueIds(tasks)
  <1> DEFINE s == [i \in 1..Len(tasks) |-> tasks[i].id]
  <1>1. Len(tasks) \in Nat /\ DOMAIN tasks = 1..Len(tasks)
    BY TaskOfFacts
  <1>2. s \in Seq(TaskIds(tasks)) /\ DOMAIN s = 1..Len(tasks) /\ Len(s) = Len(tasks)
    BY <1>1 DEF TaskIds
  <1>3. ToSet(s) = TaskIds(tasks)
    BY <1>1, <1>2 DEF TaskIds, ToSet
  <1>4. One(s) <=> UniqueIds(tasks)
    BY <1>1, <1>2 DEF One, UniqueIds
  <1> HIDE DEF s
  <1> QED
    BY <1>2, <1>3, <1>4, DistinctCount

-----------------------------------------------------------------------------
(* The loops, unfolded.                                                    *)

\* What each loop does with the n-th task, or in the n-th turn.
RootsWith(tasks, n, roots) ==
    IF Contains(roots, tasks[n].id) \/ TaskOf(tasks, tasks[n].id).deps # {} THEN roots
    ELSE Append(roots, tasks[n].id)

ReleasedWith(tasks, id, n, q) ==
    IF id \in tasks[n].deps THEN Release(q, tasks[n].id) ELSE q

States(tasks) == [queue : Seq(TaskIds(tasks)), degree : [TaskIds(tasks) -> Int], sorted : Seq(TaskIds(tasks))]

LEMMA ReleaseTypes ==
    ASSUME NEW tasks, NEW q \in States(tasks), NEW child \in TaskIds(tasks)
    PROVE  /\ Release(q, child) \in States(tasks)
           /\ Release(q, child).sorted = q.sorted
           /\ Release(q, child).degree = [q.degree EXCEPT ![child] = @ - 1]
           /\ Release(q, child).queue = IF q.degree[child] = 1 THEN Append(q.queue, child) ELSE q.queue
  <1>1. /\ q.queue \in Seq(TaskIds(tasks)) /\ q.degree \in [TaskIds(tasks) -> Int]
        /\ q.sorted \in Seq(TaskIds(tasks))
        /\ DOMAIN q = {"queue", "degree", "sorted"} /\ q = [f \in {"queue", "degree", "sorted"} |-> q[f]]
    BY DEF States
  <1> DEFINE r == Release(q, child)
  <1>2. /\ r.sorted = q.sorted
        /\ r.degree = [q.degree EXCEPT ![child] = @ - 1]
        /\ r.queue = IF q.degree[child] = 1 THEN Append(q.queue, child) ELSE q.queue
        /\ r = [f \in {"queue", "degree", "sorted"} |-> r[f]]
    BY <1>1 DEF Release
  <1> HIDE DEF r
  <1>3. r.queue \in Seq(TaskIds(tasks))
    BY <1>1, <1>2, AppendFacts
  <1>4. r.degree \in [TaskIds(tasks) -> Int]
    BY <1>1, <1>2
  <1>5. r \in States(tasks)
    BY <1>1, <1>2, <1>3, <1>4 DEF States
  <1> QED
    BY <1>2, <1>5 DEF r

LEMMA TakeTypes ==
    ASSUME NEW tasks, NEW q \in States(tasks), q.queue # <<>>
    PROVE  /\ Take(q) \in States(tasks) /\ Take(q).queue = Tail(q.queue) /\ Take(q).degree = q.degree
           /\ Take(q).sorted = Append(q.sorted, Head(q.queue)) /\ Head(q.queue) \in TaskIds(tasks)
  <1>1. /\ q.queue \in Seq(TaskIds(tasks)) /\ q.degree \in [TaskIds(tasks) -> Int]
        /\ q.sorted \in Seq(TaskIds(tasks))
        /\ DOMAIN q = {"queue", "degree", "sorted"} /\ q = [f \in {"queue", "degree", "sorted"} |-> q[f]]
    BY DEF States
  <1> DEFINE r == Take(q)
  <1>2. /\ r.sorted = Append(q.sorted, Head(q.queue)) /\ r.degree = q.degree /\ r.queue = Tail(q.queue)
        /\ r = [f \in {"queue", "degree", "sorted"} |-> r[f]]
    BY <1>1 DEF Take
  <1> HIDE DEF r
  <1>3. r.queue \in Seq(TaskIds(tasks)) /\ Head(q.queue) \in TaskIds(tasks)
    BY <1>1, <1>2, TailFacts
  <1>4. r.sorted \in Seq(TaskIds(tasks))
    BY <1>1, <1>2, <1>3, AppendFacts
  <1>5. r \in States(tasks)
    BY <1>1, <1>2, <1>3, <1>4 DEF States
  <1> QED
    BY <1>2, <1>3, <1>5 DEF r

\* A loop over the tasks exists, and is what its definition says.
Loops(S, a, N, G) == {f \in [0..N -> S] : f = [n \in 0..N |-> IF n = 0 THEN a ELSE G[<<n, f[n - 1]>>]]}

LEMMA LoopExists ==
    ASSUME NEW S, NEW a \in S, NEW N \in Nat, NEW G \in StepsIn(S)
    PROVE  Loops(S, a, N, G) # {}
  <1>0. G \in [Nat \X S -> S]
    BY DEF StepsIn
  <1> DEFINE H == [x \in Nat \X S |-> G[<<x[1] + 1, x[2]>>]]
  <1>1. H \in [Nat \X S -> S]
    BY <1>0
  <1>2. \A n \in Nat : \A s \in S : H[<<n, s>>] = G[<<n + 1, s>>]
    BY <1>0
  <1> HIDE DEF H
  <1>3. PICK g \in [Nat -> S] : g[0] = a /\ \A n \in Nat : g[n + 1] = H[<<n, g[n]>>]
    <2>1. H \in StepsIn(S)
      BY <1>1 DEF StepsIn
    <2>2. Iterates(S, a, H) # {}
      BY <2>1, Recursion
    <2> QED
      BY <2>2 DEF Iterates
  <1> DEFINE f == [n \in 0..N |-> g[n]]
  <1>4. ASSUME NEW n \in 0..N
        PROVE  f[n] = IF n = 0 THEN a ELSE G[<<n, f[n - 1]>>]
    <2>1. CASE n = 0
      BY <1>3, <2>1
    <2>2. CASE n # 0
      <3>1. n - 1 \in Nat /\ n - 1 \in 0..N /\ (n - 1) + 1 = n
        BY <2>2
      <3>2. g[n] = H[<<n - 1, g[n - 1]>>] /\ g[n - 1] \in S
        BY <1>3, <3>1
      <3>3. g[n] = G[<<n, g[n - 1]>>]
        BY <1>2, <3>1, <3>2
      <3> QED
        BY <2>2, <3>1, <3>3
    <2> QED
      BY <2>1, <2>2
  <1>5. f = [n \in 0..N |-> f[n]] /\ f \in [0..N -> S]
    OBVIOUS
  <1> HIDE DEF f
  <1>6. f = [n \in 0..N |-> IF n = 0 THEN a ELSE G[<<n, f[n - 1]>>]]
    BY <1>4, <1>5
  <1> QED
    BY <1>5, <1>6 DEF Loops

LEMMA RootsLoop ==
    ASSUME NEW tasks, IsTaskList(tasks)
    PROVE  /\ \A n \in 0..Len(tasks) : RootsAmong(tasks)[n] \in Seq(TaskIds(tasks))
           /\ RootsAmong(tasks)[0] = <<>>
           /\ \A n \in 1..Len(tasks) : RootsAmong(tasks)[n] = RootsWith(tasks, n, RootsAmong(tasks)[n - 1])
  <1> DEFINE N == Len(tasks)
             S == Seq(TaskIds(tasks))
             R == RootsAmong(tasks)
  <1>1. N \in Nat /\ \A n \in 1..N : tasks[n].id \in TaskIds(tasks)
    BY TaskOfFacts
  <1>2. \A n \in 1..N : \A s \in S : RootsWith(tasks, n, s) \in S
    BY <1>1, AppendFacts DEF RootsWith
  <1>3. \E f : f = [n \in 0..N |-> IF n = 0 THEN <<>> ELSE RootsWith(tasks, n, f[n - 1])]
    <2> DEFINE G == [x \in Nat \X S |-> IF x[1] \in 1..N THEN RootsWith(tasks, x[1], x[2]) ELSE x[2]]
    <2>1. G \in StepsIn(S)
      BY <1>2 DEF StepsIn
    <2>2. \A n \in 1..N : \A s \in S : G[<<n, s>>] = RootsWith(tasks, n, s)
      BY <1>1
    <2> HIDE DEF G
    <2>3. <<>> \in S
      OBVIOUS
    <2> HIDE DEF S, N
    <2>4. PICK f \in [0..N -> S] : f = [n \in 0..N |-> IF n = 0 THEN <<>> ELSE G[<<n, f[n - 1]>>]]
      <3>1. Loops(S, <<>>, N, G) # {}
        BY <1>1, <2>1, <2>3, LoopExists
      <3> QED
        BY <3>1 DEF Loops
    <2>5. \A n \in 0..N : n # 0 => n \in 1..N /\ f[n - 1] \in S
      BY <1>1, <2>4
    <2>6. f = [n \in 0..N |-> IF n = 0 THEN <<>> ELSE RootsWith(tasks, n, f[n - 1])]
      BY <2>2, <2>4, <2>5
    <2> QED
      BY <2>6
  <1>4. R = [n \in 0..N |-> IF n = 0 THEN <<>> ELSE RootsWith(tasks, n, R[n - 1])]
    <2>1. R = CHOOSE f : f = [n \in 0..N |-> IF n = 0 THEN <<>> ELSE RootsWith(tasks, n, f[n - 1])]
      BY DEF RootsAmong, RootsWith
    <2> HIDE DEF R, N
    <2> QED
      BY <1>3, <2>1
  <1> HIDE DEF R, N
  <1>5. R[0] = <<>> /\ \A n \in 1..N : R[n] = RootsWith(tasks, n, R[n - 1])
    <2>1. \A n \in 1..N : n \in 0..N /\ n # 0
      BY <1>1
    <2>2. 0 \in 0..N
      BY <1>1
    <2> QED
      BY <1>4, <2>1, <2>2
  <1>6. \A n \in 0..N : R[n] \in S
    <2> DEFINE P == {n \in 0..N : R[n] \in S}
    <2>1. 0 \in P
      <3>1. <<>> \in Seq(TaskIds(tasks)) /\ 0 \in 0..N
        BY <1>1
      <3> QED
        BY <1>5, <3>1
    <2>2. ASSUME NEW n \in 0..(N - 1), n \in P
          PROVE  n + 1 \in P
      <3>1. n + 1 \in 1..N /\ n + 1 \in 0..N /\ (n + 1) - 1 = n
        BY <1>1
      <3>2. R[n + 1] = RootsWith(tasks, n + 1, R[n])
        BY <1>5, <3>1
      <3> QED
        BY <1>2, <2>2, <3>1, <3>2
    <2> HIDE DEF P
    <2>3. \A n \in 0..N : n \in P
      BY <1>1, <2>1, <2>2, UpTo
    <2> QED
      BY <2>3 DEF P
  <1> QED
    BY <1>5, <1>6 DEF R, N

LEMMA ReleasedLoop ==
    ASSUME NEW tasks, IsTaskList(tasks), NEW q \in States(tasks), NEW id
    PROVE  /\ \A n \in 0..Len(tasks) : Released(tasks, q, id)[n] \in States(tasks)
           /\ Released(tasks, q, id)[0] = q
           /\ \A n \in 1..Len(tasks) : Released(tasks, q, id)[n] = ReleasedWith(tasks, id, n, Released(tasks, q, id)[n - 1])
  <1> DEFINE N == Len(tasks)
             S == States(tasks)
             R == Released(tasks, q, id)
  <1>1. N \in Nat /\ \A n \in 1..N : tasks[n].id \in TaskIds(tasks)
    BY TaskOfFacts
  <1>2. \A n \in 1..N : \A s \in S : ReleasedWith(tasks, id, n, s) \in S
    BY <1>1, ReleaseTypes DEF ReleasedWith
  <1>3. \E f : f = [n \in 0..N |-> IF n = 0 THEN q ELSE ReleasedWith(tasks, id, n, f[n - 1])]
    <2> DEFINE G == [x \in Nat \X S |-> IF x[1] \in 1..N THEN ReleasedWith(tasks, id, x[1], x[2]) ELSE x[2]]
    <2>1. G \in StepsIn(S)
      BY <1>2 DEF StepsIn
    <2>2. \A n \in 1..N : \A s \in S : G[<<n, s>>] = ReleasedWith(tasks, id, n, s)
      BY <1>1
    <2> HIDE DEF G
    <2>3. q \in S
      OBVIOUS
    <2> HIDE DEF S, N
    <2>4. PICK f \in [0..N -> S] : f = [n \in 0..N |-> IF n = 0 THEN q ELSE G[<<n, f[n - 1]>>]]
      <3>1. Loops(S, q, N, G) # {}
        BY <1>1, <2>1, <2>3, LoopExists
      <3> QED
        BY <3>1 DEF Loops
    <2>5. \A n \in 0..N : n # 0 => n \in 1..N /\ f[n - 1] \in S
      BY <1>1, <2>4
    <2>6. f = [n \in 0..N |-> IF n = 0 THEN q ELSE ReleasedWith(tasks, id, n, f[n - 1])]
      BY <2>2, <2>4, <2>5
    <2> QED
      BY <2>6
  <1>4. R = [n \in 0..N |-> IF n = 0 THEN q ELSE ReleasedWith(tasks, id, n, R[n - 1])]
    <2>1. R = CHOOSE f : f = [n \in 0..N |-> IF n = 0 THEN q ELSE ReleasedWith(tasks, id, n, f[n - 1])]
      BY DEF Released, ReleasedWith
    <2> HIDE DEF R, N
    <2> QED
      BY <1>3, <2>1
  <1> HIDE DEF R, N
  <1>5. R[0] = q /\ \A n \in 1..N : R[n] = ReleasedWith(tasks, id, n, R[n - 1])
    <2>1. \A n \in 1..N : n \in 0..N /\ n # 0
      BY <1>1
    <2>2. 0 \in 0..N
      BY <1>1
    <2> QED
      BY <1>4, <2>1, <2>2
  <1>6. \A n \in 0..N : R[n] \in S
    <2> DEFINE P == {n \in 0..N : R[n] \in S}
    <2>1. 0 \in P
      <3>1. q \in States(tasks) /\ 0 \in 0..N
        BY <1>1
      <3> QED
        BY <1>5, <3>1
    <2>2. ASSUME NEW n \in 0..(N - 1), n \in P
          PROVE  n + 1 \in P
      <3>1. n + 1 \in 1..N /\ n + 1 \in 0..N /\ (n + 1) - 1 = n
        BY <1>1
      <3>2. R[n + 1] = ReleasedWith(tasks, id, n + 1, R[n])
        BY <1>5, <3>1
      <3> QED
        BY <1>2, <2>2, <3>1, <3>2
    <2> HIDE DEF P
    <2>3. \A n \in 0..N : n \in P
      BY <1>1, <2>1, <2>2, UpTo
    <2> QED
      BY <2>3 DEF P
  <1> QED
    BY <1>5, <1>6 DEF R, N

LEMMA TurnTypes ==
    ASSUME NEW tasks, IsTaskList(tasks), NEW q \in States(tasks)
    PROVE  Turn(tasks, q) \in States(tasks)
  <1>1. CASE q.queue = <<>>
    BY <1>1 DEF Turn
  <1>2. CASE q.queue # <<>>
    <2>1. Take(q) \in States(tasks) /\ Len(tasks) \in 0..Len(tasks)
      BY <1>2, TakeTypes, TaskOfFacts
    <2>2. Turn(tasks, q) = Released(tasks, Take(q), Head(q.queue))[Len(tasks)]
      BY <1>2 DEF Turn
    <2> QED
      BY <2>1, <2>2, ReleasedLoop
  <1> QED
    BY <1>1, <1>2

LEMMA StartTypes ==
    ASSUME NEW tasks, IsTaskList(tasks)
    PROVE  /\ Start(tasks) \in States(tasks)
           /\ Start(tasks).queue = RootsAmong(tasks)[Len(tasks)] /\ Start(tasks).sorted = <<>>
           /\ \A id \in TaskIds(tasks) : Start(tasks).degree[id] = Cardinality(DepsOf(tasks, id))
  <1>1. \A id \in TaskIds(tasks) : Cardinality(DepsOf(tasks, id)) \in Nat
    BY TaskOfFacts, FS_CardinalityType
  <1>2. RootsAmong(tasks)[Len(tasks)] \in Seq(TaskIds(tasks))
    <2>1. Len(tasks) \in 0..Len(tasks)
      BY TaskOfFacts
    <2> QED
      BY <2>1, RootsLoop
  <1>3. <<>> \in Seq(TaskIds(tasks))
    OBVIOUS
  <1> QED
    BY <1>1, <1>2, <1>3 DEF Start, States, DepsOf

LEMMA TurnsLoop ==
    ASSUME NEW tasks, IsTaskList(tasks)
    PROVE  /\ \A n \in 0..Len(tasks) : Turns(tasks)[n] \in States(tasks)
           /\ Turns(tasks)[0] = Start(tasks)
           /\ \A n \in 1..Len(tasks) : Turns(tasks)[n] = Turn(tasks, Turns(tasks)[n - 1])
  <1> DEFINE N == Len(tasks)
             S == States(tasks)
             R == Turns(tasks)
  <1>1. N \in Nat /\ \A n \in 1..N : tasks[n].id \in TaskIds(tasks)
    BY TaskOfFacts
  <1>2. \A n \in 1..N : \A s \in S : Turn(tasks, s) \in S
    BY TurnTypes
  <1>3. \E f : f = [n \in 0..N |-> IF n = 0 THEN Start(tasks) ELSE Turn(tasks, f[n - 1])]
    <2> DEFINE G == [x \in Nat \X S |-> IF x[1] \in 1..N THEN Turn(tasks, x[2]) ELSE x[2]]
    <2>1. G \in StepsIn(S)
      BY <1>2 DEF StepsIn
    <2>2. \A n \in 1..N : \A s \in S : G[<<n, s>>] = Turn(tasks, s)
      BY <1>1
    <2> HIDE DEF G
    <2>3. Start(tasks) \in S
      BY StartTypes
    <2> HIDE DEF S, N
    <2>4. PICK f \in [0..N -> S] : f = [n \in 0..N |-> IF n = 0 THEN Start(tasks) ELSE G[<<n, f[n - 1]>>]]
      <3>1. Loops(S, Start(tasks), N, G) # {}
        BY <1>1, <2>1, <2>3, LoopExists
      <3> QED
        BY <3>1 DEF Loops
    <2>5. \A n \in 0..N : n # 0 => n \in 1..N /\ f[n - 1] \in S
      BY <1>1, <2>4
    <2>6. f = [n \in 0..N |-> IF n = 0 THEN Start(tasks) ELSE Turn(tasks, f[n - 1])]
      BY <2>2, <2>4, <2>5
    <2> QED
      BY <2>6
  <1>4. R = [n \in 0..N |-> IF n = 0 THEN Start(tasks) ELSE Turn(tasks, R[n - 1])]
    <2>1. R = CHOOSE f : f = [n \in 0..N |-> IF n = 0 THEN Start(tasks) ELSE Turn(tasks, f[n - 1])]
      BY DEF Turns
    <2> HIDE DEF R, N
    <2> QED
      BY <1>3, <2>1
  <1> HIDE DEF R, N
  <1>5. R[0] = Start(tasks) /\ \A n \in 1..N : R[n] = Turn(tasks, R[n - 1])
    <2>1. \A n \in 1..N : n \in 0..N /\ n # 0
      BY <1>1
    <2>2. 0 \in 0..N
      BY <1>1
    <2> QED
      BY <1>4, <2>1, <2>2
  <1>6. \A n \in 0..N : R[n] \in S
    <2> DEFINE P == {n \in 0..N : R[n] \in S}
    <2>1. 0 \in P
      <3>1. Start(tasks) \in States(tasks) /\ 0 \in 0..N
        BY <1>1, StartTypes
      <3> QED
        BY <1>5, <3>1
    <2>2. ASSUME NEW n \in 0..(N - 1), n \in P
          PROVE  n + 1 \in P
      <3>1. n + 1 \in 1..N /\ n + 1 \in 0..N /\ (n + 1) - 1 = n
        BY <1>1
      <3>2. R[n + 1] = Turn(tasks, R[n])
        BY <1>5, <3>1
      <3> QED
        BY <1>2, <2>2, <3>1, <3>2
    <2> HIDE DEF P
    <2>3. \A n \in 0..N : n \in P
      BY <1>1, <2>1, <2>2, UpTo
    <2> QED
      BY <2>3 DEF P
  <1> QED
    BY <1>5, <1>6 DEF R, N

-----------------------------------------------------------------------------
(* Nothing is queued twice.                                                *)

Free(tasks, n) == {tasks[k].id : k \in {j \in 1..n : DepsOf(tasks, tasks[j].id) = {}}}

LEMMA RootsFound ==
    ASSUME NEW tasks, IsTaskList(tasks), NEW n \in 0..Len(tasks)
    PROVE  One(RootsAmong(tasks)[n]) /\ ToSet(RootsAmong(tasks)[n]) = Free(tasks, n)
  <1> DEFINE N == Len(tasks)
             R == RootsAmong(tasks)
             P == {m \in 0..N : One(R[m]) /\ ToSet(R[m]) = Free(tasks, m)}
  <1>1. N \in Nat /\ \A m \in 1..N : tasks[m].id \in TaskIds(tasks)
    BY TaskOfFacts
  <1>2. 0 \in P
    <2>1. R[0] = <<>> /\ 0 \in 0..N
      BY <1>1, RootsLoop
    <2>2. One(R[0]) /\ ToSet(R[0]) = {}
      BY <2>1 DEF One, ToSet
    <2>3. Free(tasks, 0) = {}
      BY DEF Free
    <2> QED
      BY <2>1, <2>2, <2>3
  <1>3. ASSUME NEW m \in 0..(N - 1), m \in P
        PROVE  m + 1 \in P
    <2>1. m + 1 \in 1..N /\ m + 1 \in 0..N /\ (m + 1) - 1 = m /\ m \in 0..N
      BY <1>1
    <2> DEFINE id == tasks[m + 1].id
    <2>2. R[m + 1] = RootsWith(tasks, m + 1, R[m]) /\ R[m] \in Seq(TaskIds(tasks)) /\ id \in TaskIds(tasks)
      BY <1>1, <2>1, RootsLoop
    <2>3. One(R[m]) /\ ToSet(R[m]) = Free(tasks, m)
      BY <1>3
    <2>4. Free(tasks, m + 1) = Free(tasks, m) \cup (IF DepsOf(tasks, id) = {} THEN {id} ELSE {})
      <3>1. \A j : j \in 1..(m + 1) <=> j \in 1..m \/ j = m + 1
        BY <2>1
      <3> QED
        BY <3>1 DEF Free
    <2>5. Contains(R[m], id) <=> id \in ToSet(R[m])
      BY <2>2 DEF Contains, ToSet
    <2> HIDE DEF R, id, N
    <2>6. CASE Contains(R[m], id) \/ DepsOf(tasks, id) # {}
      <3>1. R[m + 1] = R[m] /\ Free(tasks, m + 1) = Free(tasks, m)
        BY <2>2, <2>3, <2>4, <2>5, <2>6 DEF RootsWith, DepsOf, id
      <3> QED
        BY <2>1, <2>3, <3>1
    <2>7. CASE ~Contains(R[m], id) /\ DepsOf(tasks, id) = {}
      <3>1. R[m + 1] = Append(R[m], id) /\ Free(tasks, m + 1) = Free(tasks, m) \cup {id}
        BY <2>2, <2>4, <2>7 DEF RootsWith, DepsOf, id
      <3>2. One(Append(R[m], id)) /\ ToSet(Append(R[m], id)) = ToSet(R[m]) \cup {id}
        <4>1. R[m] \in Seq(TaskIds(tasks)) /\ id \in TaskIds(tasks) /\ One(R[m]) /\ id \notin ToSet(R[m])
          BY <2>2, <2>3, <2>5, <2>7
        <4> QED
          BY <4>1, AppendFacts
      <3> QED
        BY <2>1, <2>3, <3>1, <3>2
    <2> QED
      BY <2>6, <2>7
  <1> HIDE DEF P
  <1>4. \A m \in 0..N : m \in P
    BY <1>1, <1>2, <1>3, UpTo
  <1> QED
    BY <1>4 DEF P

\* The ids a state of the loop has come across.
Seen(q) == ToSet(q.queue) \cup ToSet(q.sorted)

Apart(q) ==
    /\ One(q.queue) /\ One(q.sorted) /\ ToSet(q.queue) \cap ToSet(q.sorted) = {}
    /\ \A id \in Seen(q) : q.degree[id] <= 0

LEMMA SeenTypes ==
    ASSUME NEW tasks, NEW q \in States(tasks)
    PROVE  Seen(q) \subseteq TaskIds(tasks)
  <1>1. \A S : \A s \in Seq(S) : ToSet(s) \subseteq S
    BY DEF ToSet
  <1> QED
    BY <1>1 DEF Seen, States

LEMMA TakeApart ==
    ASSUME NEW tasks, NEW q \in States(tasks), q.queue # <<>>, Apart(q)
    PROVE  Apart(Take(q)) /\ Seen(Take(q)) = Seen(q)
           /\ ToSet(Take(q).sorted) = ToSet(q.sorted) \cup {Head(q.queue)} /\ Head(q.queue) \notin ToSet(q.sorted)
  <1>1. q.queue \in Seq(TaskIds(tasks)) /\ q.sorted \in Seq(TaskIds(tasks))
    BY DEF States
  <1> DEFINE r == Take(q)
  <1>2. /\ r.queue = Tail(q.queue) /\ r.degree = q.degree
        /\ r.sorted = Append(q.sorted, Head(q.queue)) /\ Head(q.queue) \in TaskIds(tasks)
    BY TakeTypes
  <1> HIDE DEF r
  <1>3. /\ ToSet(q.queue) = {Head(q.queue)} \cup ToSet(r.queue)
        /\ One(r.queue) /\ Head(q.queue) \notin ToSet(r.queue)
    BY <1>1, <1>2, TailFacts DEF Apart
  <1>4. Head(q.queue) \notin ToSet(q.sorted)
    BY <1>3 DEF Apart
  <1>5. ToSet(r.sorted) = ToSet(q.sorted) \cup {Head(q.queue)} /\ One(r.sorted)
    BY <1>1, <1>2, <1>4, AppendFacts DEF Apart
  <1>6. Seen(r) = Seen(q)
    BY <1>3, <1>5 DEF Seen
  <1>7. ToSet(r.queue) \cap ToSet(r.sorted) = {}
    BY <1>3, <1>5 DEF Apart
  <1>8. Apart(r)
    BY <1>2, <1>3, <1>5, <1>6, <1>7 DEF Apart
  <1> QED
    BY <1>4, <1>5, <1>6, <1>8 DEF r

LEMMA ReleaseApart ==
    ASSUME NEW tasks, NEW q \in States(tasks), NEW child \in TaskIds(tasks), Apart(q)
    PROVE  /\ Apart(Release(q, child)) /\ Release(q, child).sorted = q.sorted
           /\ Seen(Release(q, child)) = IF q.degree[child] = 1 THEN Seen(q) \cup {child} ELSE Seen(q)
  <1>1. q.queue \in Seq(TaskIds(tasks)) /\ q.degree \in [TaskIds(tasks) -> Int]
    BY DEF States
  <1> DEFINE r == Release(q, child)
  <1>2. /\ r.sorted = q.sorted /\ r.degree = [q.degree EXCEPT ![child] = @ - 1]
        /\ r.queue = IF q.degree[child] = 1 THEN Append(q.queue, child) ELSE q.queue
    BY ReleaseTypes
  <1> HIDE DEF r
  <1>3. \A id \in TaskIds(tasks) : r.degree[id] = IF id = child THEN q.degree[child] - 1 ELSE q.degree[id]
    BY <1>1, <1>2
  <1>4. Seen(q) \subseteq TaskIds(tasks)
    BY SeenTypes
  <1>5. \A id \in Seen(q) : r.degree[id] <= 0
    <2>1. \A d \in Int : d <= 0 => d - 1 <= 0
      OBVIOUS
    <2>2. q.degree[child] \in Int
      BY <1>1
    <2> QED
      BY <1>3, <1>4, <2>1, <2>2 DEF Apart
  <1>6. ASSUME q.degree[child] = 1
        PROVE  Apart(r) /\ Seen(r) = Seen(q) \cup {child}
    <2>1. child \notin Seen(q)
      BY <1>6 DEF Apart
    <2>2. One(r.queue) /\ ToSet(r.queue) = ToSet(q.queue) \cup {child}
      BY <1>1, <1>2, <1>6, <2>1, AppendFacts DEF Apart, Seen
    <2>3. Seen(r) = Seen(q) \cup {child} /\ ToSet(r.queue) \cap ToSet(r.sorted) = {}
      BY <1>2, <2>1, <2>2 DEF Seen, Apart
    <2>4. r.degree[child] <= 0
      BY <1>3, <1>6
    <2> QED
      BY <1>2, <1>5, <1>6, <2>2, <2>3, <2>4 DEF Apart
  <1>7. ASSUME q.degree[child] # 1
        PROVE  Apart(r) /\ Seen(r) = Seen(q)
    <2>1. r.queue = q.queue /\ r.sorted = q.sorted
      BY <1>2, <1>7
    <2>2. Seen(r) = Seen(q)
      BY <2>1 DEF Seen
    <2> QED
      BY <1>5, <1>7, <2>1, <2>2 DEF Apart
  <1> QED
    BY <1>2, <1>6, <1>7 DEF r

LEMMA ReleasedApart ==
    ASSUME NEW tasks, IsTaskList(tasks), NEW q \in States(tasks), Apart(q), NEW c, NEW n \in 0..Len(tasks)
    PROVE  Apart(Released(tasks, q, c)[n]) /\ Released(tasks, q, c)[n].sorted = q.sorted
  <1> DEFINE N == Len(tasks)
             R == Released(tasks, q, c)
             P == {m \in 0..N : Apart(R[m]) /\ R[m].sorted = q.sorted}
  <1>1. N \in Nat /\ \A m \in 1..N : tasks[m].id \in TaskIds(tasks)
    BY TaskOfFacts
  <1>2. 0 \in P
    BY <1>1, ReleasedLoop
  <1>3. ASSUME NEW m \in 0..(N - 1), m \in P
        PROVE  m + 1 \in P
    <2>1. m + 1 \in 1..N /\ m + 1 \in 0..N /\ (m + 1) - 1 = m /\ m \in 0..N
      BY <1>1
    <2>2. /\ R[m + 1] = ReleasedWith(tasks, c, m + 1, R[m])
          /\ R[m] \in States(tasks) /\ tasks[m + 1].id \in TaskIds(tasks)
      BY <1>1, <2>1, ReleasedLoop
    <2>3. Apart(R[m]) /\ R[m].sorted = q.sorted
      BY <1>3
    <2> HIDE DEF R, N
    <2>4. Apart(R[m + 1]) /\ R[m + 1].sorted = q.sorted
      <3>1. CASE c \in tasks[m + 1].deps
        <4>1. R[m + 1] = Release(R[m], tasks[m + 1].id)
          BY <2>2, <3>1 DEF ReleasedWith
        <4> DEFINE child == tasks[m + 1].id
                   p == R[m]
        <4>0. child \in TaskIds(tasks) /\ p \in States(tasks) /\ Apart(p)
          BY <2>2, <2>3
        <4> HIDE DEF child, p
        <4>2. Apart(Release(p, child)) /\ Release(p, child).sorted = p.sorted
          BY <4>0, ReleaseApart
        <4> QED
          BY <2>3, <4>1, <4>2 DEF child, p
      <3>2. CASE c \notin tasks[m + 1].deps
        BY <2>2, <2>3, <3>2 DEF ReleasedWith
      <3> QED
        BY <3>1, <3>2
    <2> QED
      BY <2>1, <2>4
  <1> HIDE DEF P
  <1>4. \A m \in 0..N : m \in P
    BY <1>1, <1>2, <1>3, UpTo
  <1> QED
    BY <1>4 DEF P

LEMMA TurnApart ==
    ASSUME NEW tasks, IsTaskList(tasks), NEW q \in States(tasks), Apart(q), q.queue # <<>>
    PROVE  Apart(Turn(tasks, q)) /\ Turn(tasks, q).sorted = Append(q.sorted, Head(q.queue))
  <1>1. Take(q) \in States(tasks) /\ Apart(Take(q)) /\ Take(q).sorted = Append(q.sorted, Head(q.queue))
    BY TakeTypes, TakeApart
  <1>2. Turn(tasks, q) = Released(tasks, Take(q), Head(q.queue))[Len(tasks)] /\ Len(tasks) \in 0..Len(tasks)
    BY TaskOfFacts DEF Turn
  <1> QED
    BY <1>1, <1>2, ReleasedApart

LEMMA StartApart ==
    ASSUME NEW tasks, IsTaskList(tasks)
    PROVE  Apart(Start(tasks)) /\ Seen(Start(tasks)) = {id \in TaskIds(tasks) : DepsOf(tasks, id) = {}}
  <1> DEFINE s == Start(tasks)
  <1>1. /\ s.queue = RootsAmong(tasks)[Len(tasks)] /\ s.sorted = <<>>
        /\ \A id \in TaskIds(tasks) : s.degree[id] = Cardinality(DepsOf(tasks, id))
    BY StartTypes
  <1>2. Len(tasks) \in 0..Len(tasks) /\ DOMAIN tasks = 1..Len(tasks)
    BY TaskOfFacts
  <1> HIDE DEF s
  <1>3. One(s.queue) /\ ToSet(s.queue) = Free(tasks, Len(tasks))
    BY <1>1, <1>2, RootsFound
  <1>4. Free(tasks, Len(tasks)) = {id \in TaskIds(tasks) : DepsOf(tasks, id) = {}}
    BY <1>2 DEF Free, TaskIds
  <1>5. One(s.sorted) /\ ToSet(s.sorted) = {}
    BY <1>1 DEF One, ToSet
  <1>6. Seen(s) = {id \in TaskIds(tasks) : DepsOf(tasks, id) = {}}
    BY <1>3, <1>4, <1>5 DEF Seen
  <1>7. \A id \in Seen(s) : s.degree[id] = 0
    <2>1. Cardinality({}) = 0
      BY FS_EmptySet
    <2> QED
      BY <1>1, <1>6, <2>1
  <1>8. Apart(s)
    BY <1>3, <1>5, <1>7 DEF Apart
  <1> QED
    BY <1>6, <1>8 DEF s

LEMMA TurnsApart ==
    ASSUME NEW tasks, IsTaskList(tasks), NEW n \in 0..Len(tasks)
    PROVE  /\ Apart(Turns(tasks)[n])
           /\ Turns(tasks)[n].queue = <<>> \/ Len(Turns(tasks)[n].sorted) = n
  <1> DEFINE N == Len(tasks)
             R == Turns(tasks)
             P == {m \in 0..N : Apart(R[m]) /\ (R[m].queue = <<>> \/ Len(R[m].sorted) = m)}
  <1>1. N \in Nat
    BY TaskOfFacts
  <1>2. 0 \in P
    <2>1. R[0] = Start(tasks) /\ 0 \in 0..N
      BY <1>1, TurnsLoop
    <2>2. Apart(R[0]) /\ R[0].sorted = <<>>
      BY <2>1, StartApart, StartTypes
    <2> QED
      BY <2>1, <2>2
  <1>3. ASSUME NEW m \in 0..(N - 1), m \in P
        PROVE  m + 1 \in P
    <2>1. m + 1 \in 1..N /\ m + 1 \in 0..N /\ (m + 1) - 1 = m /\ m \in 0..N
      BY <1>1
    <2>2. R[m + 1] = Turn(tasks, R[m]) /\ R[m] \in States(tasks)
      BY <2>1, TurnsLoop
    <2>3. Apart(R[m]) /\ (R[m].queue = <<>> \/ Len(R[m].sorted) = m)
      BY <1>3
    <2> HIDE DEF R, N
    <2>4. CASE R[m].queue = <<>>
      <3>1. R[m + 1] = R[m]
        BY <2>2, <2>4 DEF Turn
      <3> QED
        BY <2>1, <2>3, <2>4, <3>1
    <2>5. CASE R[m].queue # <<>>
      <3>1. Apart(R[m + 1]) /\ R[m + 1].sorted = Append(R[m].sorted, Head(R[m].queue))
        BY <2>2, <2>3, <2>5, TurnApart
      <3>2. R[m].sorted \in Seq(TaskIds(tasks)) /\ Head(R[m].queue) \in TaskIds(tasks)
        BY <2>2, <2>5, TakeTypes DEF States
      <3>3. Len(R[m + 1].sorted) = m + 1
        BY <2>3, <2>5, <3>1, <3>2, AppendFacts
      <3> QED
        BY <2>1, <3>1, <3>3
    <2> QED
      BY <2>4, <2>5
  <1> HIDE DEF P
  <1>4. \A m \in 0..N : m \in P
    BY <1>1, <1>2, <1>3, UpTo
  <1> QED
    BY <1>4 DEF P

-----------------------------------------------------------------------------
(* With unique ids, in_degree counts the dependencies that have not run.   *)

\* Of the first n tasks with `now' run, of the others with `before'.
Counted(tasks, q, n, before, now) ==
    \A k \in 1..Len(tasks) :
       q.degree[tasks[k].id] = Cardinality(tasks[k].deps \ (IF k <= n THEN now ELSE before))

\* A task whose count is down has been queued.
Queued(tasks, q) == \A id \in TaskIds(tasks) : q.degree[id] = 0 => id \in Seen(q)

\* Every sorted task comes after its dependencies.
InOrder(tasks, s) == \A i \in DOMAIN s : DepsOf(tasks, s[i]) \subseteq {s[k] : k \in 1..(i - 1)}

LEMMA ReleaseCounts ==
    ASSUME NEW tasks, IsTaskList(tasks), UniqueIds(tasks), NEW q \in States(tasks), Apart(q),
           NEW before, NEW c, c \notin before, NEW n \in 0..(Len(tasks) - 1),
           Counted(tasks, q, n, before, before \cup {c}), Queued(tasks, q)
    PROVE  LET r == ReleasedWith(tasks, c, n + 1, q)
           IN  Counted(tasks, r, n + 1, before, before \cup {c}) /\ Queued(tasks, r)
  <1> DEFINE N == Len(tasks)
             now == before \cup {c}
             t == tasks[n + 1]
             r == ReleasedWith(tasks, c, n + 1, q)
  <1>1. /\ N \in Nat /\ DOMAIN tasks = 1..N /\ n + 1 \in 1..N /\ t.id \in TaskIds(tasks)
        /\ \A k \in 1..N : k <= n + 1 <=> k <= n \/ k = n + 1
        /\ ~(n + 1 <= n) /\ n + 1 <= n + 1
    BY TaskOfFacts
  <1>2. \A k \in 1..N : tasks[k].id = t.id <=> k = n + 1
    BY <1>1 DEF UniqueIds
  <1>3. IsFiniteSet(t.deps \ before) /\ Cardinality(t.deps \ before) \in Nat
    <2>1. IsFiniteSet(t.deps)
      BY <1>1 DEF IsTaskList
    <2> QED
      BY <2>1, FS_Difference, FS_CardinalityType
  <1>4. q.degree[t.id] = Cardinality(t.deps \ before)
    BY <1>1 DEF Counted
  <1>5. \A id \in TaskIds(tasks) : \E k \in 1..N : id = tasks[k].id
    BY <1>1 DEF TaskIds
  <1>6. CASE c \notin t.deps
    <2>1. r = q
      BY <1>6 DEF ReleasedWith
    <2>2. t.deps \ now = t.deps \ before
      BY <1>6
    <2> HIDE DEF N, t, r, now
    <2>3. Counted(tasks, q, n + 1, before, now)
      <3> SUFFICES ASSUME NEW k \in 1..N
                   PROVE  q.degree[tasks[k].id] = Cardinality(tasks[k].deps \ (IF k <= n + 1 THEN now ELSE before))
        BY DEF Counted, N
      <3>1. q.degree[tasks[k].id] = Cardinality(tasks[k].deps \ (IF k <= n THEN now ELSE before))
        BY DEF Counted, N, now
      <3>2. CASE k = n + 1
        BY <1>1, <1>4, <2>2, <3>2 DEF t
      <3>3. CASE k # n + 1
        BY <1>1, <3>1, <3>3
      <3> QED
        BY <3>2, <3>3
    <2> QED
      BY <2>1, <2>3 DEF now, r
  <1>7. CASE c \in t.deps
    <2>1. r = Release(q, t.id)
      BY <1>7 DEF ReleasedWith
    <2>2. q.degree \in [TaskIds(tasks) -> Int]
      BY DEF States
    <2>3. r.degree = [q.degree EXCEPT ![t.id] = @ - 1]
      BY <1>1, <2>1, ReleaseTypes
    <2>4. Cardinality(t.deps \ now) = Cardinality(t.deps \ before) - 1
      <3> DEFINE D == t.deps \ before
      <3>1. c \in D /\ t.deps \ now = D \ {c} /\ IsFiniteSet(D)
        BY <1>3, <1>7
      <3> HIDE DEF D
      <3>2. Cardinality(D \ {c}) = Cardinality(D) - 1
        BY <3>1, FS_RemoveElement
      <3> QED
        BY <3>1, <3>2 DEF D
    <2>5. Seen(r) = IF q.degree[t.id] = 1 THEN Seen(q) \cup {t.id} ELSE Seen(q)
      <3> DEFINE child == t.id
      <3>1. child \in TaskIds(tasks)
        BY <1>1
      <3> HIDE DEF child
      <3>2. Seen(Release(q, child)) = IF q.degree[child] = 1 THEN Seen(q) \cup {child} ELSE Seen(q)
        BY <3>1, ReleaseApart
      <3> QED
        BY <2>1, <3>2 DEF child
    <2> HIDE DEF N, t, r, now
    <2>6. \A id \in TaskIds(tasks) : r.degree[id] = IF id = t.id THEN q.degree[t.id] - 1 ELSE q.degree[id]
      BY <2>2, <2>3
    <2>7. Counted(tasks, r, n + 1, before, now)
      <3> SUFFICES ASSUME NEW k \in 1..N
                   PROVE  r.degree[tasks[k].id] = Cardinality(tasks[k].deps \ (IF k <= n + 1 THEN now ELSE before))
        BY DEF Counted, N
      <3>1. q.degree[tasks[k].id] = Cardinality(tasks[k].deps \ (IF k <= n THEN now ELSE before))
        BY DEF Counted, N, now
      <3>2. tasks[k].id \in TaskIds(tasks)
        BY <1>1 DEF TaskIds
      <3>3. CASE k = n + 1
        <4>1. r.degree[t.id] = Cardinality(t.deps \ now)
          BY <1>1, <1>4, <2>4, <2>6
        <4> QED
          BY <1>1, <3>3, <4>1 DEF t
      <3>4. CASE k # n + 1
        <4>1. r.degree[tasks[k].id] = q.degree[tasks[k].id]
          BY <1>2, <2>6, <3>2, <3>4
        <4> QED
          BY <1>1, <3>1, <3>4, <4>1
      <3> QED
        BY <3>3, <3>4
    <2>8. Queued(tasks, r)
      <3> SUFFICES ASSUME NEW id \in TaskIds(tasks), r.degree[id] = 0
                   PROVE  id \in Seen(r)
        BY DEF Queued
      <3>1. CASE id = t.id
        <4>1. q.degree[t.id] \in Int /\ q.degree[t.id] - 1 = 0
          BY <1>1, <2>2, <2>6, <3>1
        <4>2. q.degree[t.id] = 1
          BY <4>1
        <4> QED
          BY <2>5, <3>1, <4>2
      <3>2. CASE id # t.id
        BY <2>5, <2>6, <3>2 DEF Queued
      <3> QED
        BY <3>1, <3>2
    <2> QED
      BY <2>7, <2>8 DEF now, r
  <1> QED
    BY <1>6, <1>7

LEMMA ReleasedCounts ==
    ASSUME NEW tasks, IsTaskList(tasks), UniqueIds(tasks), NEW q \in States(tasks), Apart(q),
           NEW before, NEW c, c \notin before,
           Counted(tasks, q, 0, before, before \cup {c}), Queued(tasks, q), NEW n \in 0..Len(tasks)
    PROVE  Counted(tasks, Released(tasks, q, c)[n], n, before, before \cup {c}) /\ Queued(tasks, Released(tasks, q, c)[n])
  <1> DEFINE N == Len(tasks)
             R == Released(tasks, q, c)
             P == {m \in 0..N : Counted(tasks, R[m], m, before, before \cup {c}) /\ Queued(tasks, R[m])}
  <1>1. N \in Nat
    BY TaskOfFacts
  <1>2. 0 \in P
    BY <1>1, ReleasedLoop
  <1>3. ASSUME NEW m \in 0..(N - 1), m \in P
        PROVE  m + 1 \in P
    <2>1. m + 1 \in 1..N /\ m + 1 \in 0..N /\ (m + 1) - 1 = m /\ m \in 0..N
      BY <1>1
    <2>2. R[m + 1] = ReleasedWith(tasks, c, m + 1, R[m]) /\ R[m] \in States(tasks)
      BY <2>1, ReleasedLoop
    <2>3. Apart(R[m])
      BY <2>1, ReleasedApart
    <2>4. Counted(tasks, R[m], m, before, before \cup {c}) /\ Queued(tasks, R[m])
      BY <1>3
    <2> HIDE DEF R
    <2>5. Counted(tasks, R[m + 1], m + 1, before, before \cup {c}) /\ Queued(tasks, R[m + 1])
      BY <2>2, <2>3, <2>4, ReleaseCounts
    <2> QED
      BY <2>1, <2>5
  <1> HIDE DEF P
  <1>4. \A m \in 0..N : m \in P
    BY <1>1, <1>2, <1>3, UpTo
  <1> QED
    BY <1>4 DEF P

\* What is true between two turns.
Sound(tasks, q) ==
    LET ran == ToSet(q.sorted) IN Counted(tasks, q, 0, ran, ran) /\ Queued(tasks, q) /\ InOrder(tasks, q.sorted)

LEMMA StartSound ==
    ASSUME NEW tasks, IsTaskList(tasks), UniqueIds(tasks)
    PROVE  Sound(tasks, Start(tasks))
  <1> DEFINE s == Start(tasks)
  <1>1. /\ s.sorted = <<>> /\ \A id \in TaskIds(tasks) : s.degree[id] = Cardinality(DepsOf(tasks, id))
        /\ Seen(s) = {id \in TaskIds(tasks) : DepsOf(tasks, id) = {}}
    BY StartTypes, StartApart
  <1> HIDE DEF s
  <1>2. ToSet(s.sorted) = {} /\ InOrder(tasks, s.sorted)
    BY <1>1 DEF ToSet, InOrder
  <1>3. Counted(tasks, s, 0, {}, {})
    <2> SUFFICES ASSUME NEW k \in 1..Len(tasks)
                 PROVE  s.degree[tasks[k].id] = Cardinality(tasks[k].deps \ {})
      BY DEF Counted
    <2>1. tasks[k].id \in TaskIds(tasks) /\ DepsOf(tasks, tasks[k].id) = tasks[k].deps
      BY TaskOfFacts, UniqueTaskOf DEF DepsOf
    <2>2. tasks[k].deps \ {} = tasks[k].deps
      OBVIOUS
    <2> QED
      BY <1>1, <2>1, <2>2
  <1>4. Queued(tasks, s)
    <2>1. \A id \in TaskIds(tasks) : IsFiniteSet(DepsOf(tasks, id))
      BY TaskOfFacts
    <2> QED
      BY <1>1, <2>1, FS_EmptySet DEF Queued
  <1> QED
    BY <1>2, <1>3, <1>4 DEF Sound, s

LEMMA TurnSound ==
    ASSUME NEW tasks, IsTaskList(tasks), UniqueIds(tasks), NEW q \in States(tasks), Apart(q),
           q.queue # <<>>, Sound(tasks, q)
    PROVE  Sound(tasks, Turn(tasks, q))
  <1> DEFINE c == Head(q.queue)
             p == Take(q)
             r == Turn(tasks, q)
             ran == ToSet(q.sorted)
             N == Len(tasks)
  <1>1. /\ p \in States(tasks) /\ p.degree = q.degree /\ p.sorted = Append(q.sorted, c) /\ c \in TaskIds(tasks)
        /\ Apart(p) /\ Seen(p) = Seen(q) /\ ToSet(p.sorted) = ran \cup {c} /\ c \notin ran
    BY TakeTypes, TakeApart
  <1>2. r = Released(tasks, p, c)[N] /\ N \in Nat /\ N \in 0..N
    BY TaskOfFacts DEF Turn
  <1>3. q.queue \in Seq(TaskIds(tasks)) /\ q.sorted \in Seq(TaskIds(tasks)) /\ q.degree \in [TaskIds(tasks) -> Int]
    BY DEF States
  <1>4. c \in Seen(q)
    BY <1>3, TailFacts DEF Seen
  <1> HIDE DEF c, p, r, ran
  <1>5. Counted(tasks, p, 0, ran, ran \cup {c})
    <2> SUFFICES ASSUME NEW k \in 1..N
                 PROVE  p.degree[tasks[k].id] = Cardinality(tasks[k].deps \ (IF k <= 0 THEN ran \cup {c} ELSE ran))
      BY DEF Counted
    <2>1. ~(k <= 0)
      BY <1>2
    <2>2. q.degree[tasks[k].id] = Cardinality(tasks[k].deps \ ran)
      BY <2>1 DEF Sound, Counted, ran
    <2> QED
      BY <1>1, <2>1, <2>2
  <1>6. Queued(tasks, p)
    BY <1>1 DEF Sound, Queued
  <1>7. Counted(tasks, r, N, ran, ran \cup {c}) /\ Queued(tasks, r)
    BY <1>1, <1>2, <1>5, <1>6, ReleasedCounts
  <1>8. r.sorted = p.sorted
    BY <1>1, <1>2, ReleasedApart
  <1>9. Counted(tasks, r, 0, ran \cup {c}, ran \cup {c})
    <2>1. \A k \in 1..N : k <= N
      BY <1>2
    <2> QED
      BY <1>7, <2>1 DEF Counted
  \* The dependencies of the head have run: none is left to count.
  <1>10. DepsOf(tasks, c) \subseteq ran
    <2>1. PICK k \in 1..N : tasks[k].id = c
      BY <1>1, TaskOfFacts
    <2>2. q.degree[c] = Cardinality(tasks[k].deps \ ran)
      BY <2>1 DEF Sound, Counted, ran
    <2>3. q.degree[c] <= 0
      BY <1>4 DEF Apart
    <2>4. IsFiniteSet(tasks[k].deps \ ran)
      <3>1. IsFiniteSet(tasks[k].deps)
        BY TaskOfFacts DEF IsTaskList
      <3> QED
        BY <3>1, FS_Difference
    <2>5. Cardinality(tasks[k].deps \ ran) = 0
      <3>1. Cardinality(tasks[k].deps \ ran) \in Nat
        BY <2>4, FS_CardinalityType
      <3> QED
        BY <2>2, <2>3, <3>1
    <2>6. tasks[k].deps \ ran = {}
      BY <2>4, <2>5, FS_EmptySet
    <2>7. DepsOf(tasks, c) = tasks[k].deps
      BY <2>1, UniqueTaskOf DEF DepsOf
    <2> QED
      BY <2>6, <2>7
  <1>11. InOrder(tasks, r.sorted)
    <2> DEFINE s == q.sorted
               n == Len(s)
    <2>1. /\ n \in Nat /\ DOMAIN s = 1..n /\ DOMAIN r.sorted = 1..(n + 1)
          /\ \A i \in 1..n : r.sorted[i] = s[i]
          /\ r.sorted[n + 1] = c
      <3>1. r.sorted = Append(s, c) /\ s \in Seq(TaskIds(tasks)) /\ c \in TaskIds(tasks)
        BY <1>1, <1>3, <1>8
      <3> HIDE DEF s
      <3>2. DOMAIN Append(s, c) = 1..(Len(s) + 1)
        BY <3>1, AppendProperties
      <3> QED
        BY <3>1, <3>2, AppendFacts
    <2>2. InOrder(tasks, s) /\ ran = {s[k] : k \in 1..n}
      BY <2>1 DEF Sound, ToSet, ran
    <2> HIDE DEF s, n
    <2> SUFFICES ASSUME NEW i \in 1..(n + 1)
                 PROVE  DepsOf(tasks, r.sorted[i]) \subseteq {r.sorted[k] : k \in 1..(i - 1)}
      BY <2>1 DEF InOrder
    <2>3. \A k \in 1..(i - 1) : k \in 1..n /\ r.sorted[k] = s[k]
      BY <2>1
    <2>4. {r.sorted[k] : k \in 1..(i - 1)} = {s[k] : k \in 1..(i - 1)}
      BY <2>3
    <2>5. CASE i = n + 1
      <3>1. i - 1 = n
        BY <2>1, <2>5
      <3> QED
        BY <1>10, <2>1, <2>2, <2>4, <2>5, <3>1
    <2>6. CASE i # n + 1
      <3>1. i \in 1..n
        BY <2>1, <2>6
      <3>2. DepsOf(tasks, s[i]) \subseteq {s[k] : k \in 1..(i - 1)}
        BY <2>1, <2>2, <3>1 DEF InOrder
      <3> QED
        BY <2>1, <2>4, <3>1, <3>2
    <2> QED
      BY <2>5, <2>6
  <1>12. ToSet(r.sorted) = ran \cup {c}
    BY <1>1, <1>8
  <1> QED
    BY <1>7, <1>9, <1>11, <1>12 DEF Sound, r

LEMMA TurnsSound ==
    ASSUME NEW tasks, IsTaskList(tasks), UniqueIds(tasks), NEW n \in 0..Len(tasks)
    PROVE  Sound(tasks, Turns(tasks)[n])
  <1> DEFINE N == Len(tasks)
             R == Turns(tasks)
             P == {m \in 0..N : Sound(tasks, R[m])}
  <1>1. N \in Nat
    BY TaskOfFacts
  <1>2. 0 \in P
    BY <1>1, TurnsLoop, StartSound
  <1>3. ASSUME NEW m \in 0..(N - 1), m \in P
        PROVE  m + 1 \in P
    <2>1. m + 1 \in 1..N /\ m + 1 \in 0..N /\ (m + 1) - 1 = m /\ m \in 0..N
      BY <1>1
    <2>2. R[m + 1] = Turn(tasks, R[m]) /\ R[m] \in States(tasks)
      BY <2>1, TurnsLoop
    <2>3. Apart(R[m]) /\ Sound(tasks, R[m])
      BY <1>3, <2>1, TurnsApart
    <2> HIDE DEF R, N
    <2>4. Sound(tasks, R[m + 1])
      <3>1. CASE R[m].queue = <<>>
        BY <2>2, <2>3, <3>1 DEF Turn
      <3>2. CASE R[m].queue # <<>>
        BY <2>2, <2>3, <3>2, TurnSound
      <3> QED
        BY <3>1, <3>2
    <2> QED
      BY <2>1, <2>4
  <1> HIDE DEF P
  <1>4. \A m \in 0..N : m \in P
    BY <1>1, <1>2, <1>3, UpTo
  <1> QED
    BY <1>4 DEF P

-----------------------------------------------------------------------------
(* topological_sort_tasks orders every task list that can be ordered.      *)

LEMMA KahnSound ==
    ASSUME NEW tasks, IsTaskList(tasks)
    PROVE  /\ Kahn(tasks) \in Seq(TaskIds(tasks)) /\ One(Kahn(tasks))
           /\ UniqueIds(tasks) => InOrder(tasks, Kahn(tasks))
           /\ WellFormed(tasks) => Len(Kahn(tasks)) = Len(tasks)
  <1> DEFINE N == Len(tasks)
             q == Turns(tasks)[N]
             s == Kahn(tasks)
  <1>1. /\ N \in Nat /\ N \in 0..N /\ DOMAIN tasks = 1..N
        /\ q \in States(tasks) /\ Apart(q) /\ (q.queue = <<>> \/ Len(q.sorted) = N)
        /\ s = q.sorted
    BY TaskOfFacts, TurnsLoop, TurnsApart DEF Kahn
  <1>2. UniqueIds(tasks) => Sound(tasks, q)
    BY <1>1, TurnsSound
  <1> HIDE DEF q, s
  <1>3. s \in Seq(TaskIds(tasks)) /\ One(s)
    BY <1>1 DEF States, Apart
  <1>4. ASSUME WellFormed(tasks)
        PROVE  Len(s) = N
    <2> SUFFICES ASSUME q.queue = <<>>
                 PROVE  Len(s) = N
      BY <1>1
    <2>1. UniqueIds(tasks)
      BY <1>4 DEF WellFormed, UniqueIds
    <2>2. Sound(tasks, q)
      BY <1>2, <2>1
    <2>3. Seen(q) = ToSet(s)
      BY <1>1 DEF Seen, ToSet
    <2>4. PICK rank \in [TaskIds(tasks) -> DOMAIN tasks] :
             \A i \in DOMAIN tasks : \A d \in tasks[i].deps : rank[d] < rank[tasks[i].id]
      BY <1>4 DEF WellFormed
    <2>5. TaskIds(tasks) \subseteq ToSet(s)
      <3> DEFINE late == TaskIds(tasks) \ ToSet(s)
                 ranks == {rank[id] : id \in late}
      <3> SUFFICES ASSUME late # {} PROVE FALSE
        OBVIOUS
      <3>1. ranks \in SUBSET Nat /\ ranks # {}
        BY <1>1
      <3>2. PICK m \in ranks : \A k \in ranks : m <= k
        BY <3>1, LeastMember
      <3>3. PICK id \in late : m = rank[id]
        BY <3>2
      <3>4. PICK i \in 1..N : tasks[i].id = id
        BY <1>1, <3>3, TaskOfFacts
      <3>5. tasks[i].deps \ ToSet(s) # {}
        <4> SUFFICES ASSUME tasks[i].deps \ ToSet(s) = {} PROVE FALSE
          OBVIOUS
        <4>1. q.degree[id] = Cardinality(tasks[i].deps \ ToSet(s))
          <5>1. ~(i <= 0)
            BY <1>1
          <5> QED
            BY <1>1, <2>2, <3>4, <5>1 DEF Sound, Counted
        <4>2. q.degree[id] = 0
          BY <4>1, FS_EmptySet
        <4> QED
          BY <2>2, <2>3, <3>3, <4>2 DEF Sound, Queued
      <3>6. PICK d \in tasks[i].deps : d \notin ToSet(s)
        BY <3>5
      <3>7. d \in late
        BY <1>1, <1>4, <3>6 DEF WellFormed
      <3>8. rank[d] < m /\ m <= rank[d]
        BY <1>1, <2>4, <3>2, <3>3, <3>4, <3>7
      <3>9. rank[d] \in Nat /\ m \in Nat
        BY <1>1, <3>1, <3>2, <3>7
      <3> QED
        BY <3>8, <3>9
    <2>6. ToSet(s) = TaskIds(tasks)
      BY <1>3, <2>5 DEF ToSet
    <2>7. Cardinality(TaskIds(tasks)) = N
      BY <2>1, IdCount
    <2> QED
      BY <1>3, <2>6, <2>7, DistinctCount
  <1> QED
    BY <1>1, <1>2, <1>3, <1>4 DEF Sound, s

\* A full order makes the list well formed: the positions rank the tasks.
LEMMA OrderRanks ==
    ASSUME NEW tasks, IsTaskList(tasks), Len(Kahn(tasks)) = Len(tasks)
    PROVE  WellFormed(tasks) /\ ToSet(Kahn(tasks)) = TaskIds(tasks)
  <1> DEFINE N == Len(tasks)
             s == Kahn(tasks)
  <1>1. /\ N \in Nat /\ DOMAIN tasks = 1..N /\ s \in Seq(TaskIds(tasks)) /\ One(s) /\ Len(s) = N
        /\ UniqueIds(tasks) => InOrder(tasks, s)
    BY TaskOfFacts, KahnSound
  <1> HIDE DEF s, N
  <1>2. DOMAIN s = 1..N /\ ToSet(s) = {s[i] : i \in 1..N} /\ ToSet(s) \subseteq TaskIds(tasks)
    BY <1>1 DEF ToSet
  <1>3. ToSet(s) = TaskIds(tasks) /\ UniqueIds(tasks)
    <2>1. Cardinality(ToSet(s)) = N
      BY <1>1, DistinctCount
    <2>2. /\ IsFiniteSet(TaskIds(tasks)) /\ Cardinality(TaskIds(tasks)) \in Nat
          /\ Cardinality(TaskIds(tasks)) <= N /\ (Cardinality(TaskIds(tasks)) = N <=> UniqueIds(tasks))
      BY IdCount DEF N
    <2>3. Cardinality(ToSet(s)) <= Cardinality(TaskIds(tasks))
      BY <1>2, <2>2, FS_Subset
    <2>4. Cardinality(TaskIds(tasks)) = N
      BY <1>1, <2>1, <2>2, <2>3
    <2> QED
      BY <1>2, <2>1, <2>2, <2>4, FS_Subset
  <1>4. InOrder(tasks, s)
    BY <1>1, <1>3
  <1> DEFINE rank == [id \in TaskIds(tasks) |-> CHOOSE i \in 1..N : s[i] = id]
  <1>5. \A id \in TaskIds(tasks) : rank[id] \in 1..N /\ s[rank[id]] = id
    BY <1>2, <1>3
  <1>6. rank \in [TaskIds(tasks) -> 1..N]
    BY <1>5
  <1> HIDE DEF rank
  <1>7. ASSUME NEW i \in 1..N, NEW d \in tasks[i].deps
        PROVE  d \in TaskIds(tasks) /\ rank[d] < rank[tasks[i].id]
    <2> DEFINE id == tasks[i].id
               j == rank[id]
    <2>1. id \in TaskIds(tasks) /\ TaskOf(tasks, id) = tasks[i]
      BY <1>1, <1>3, TaskOfFacts, UniqueTaskOf DEF N
    <2>2. j \in 1..N /\ s[j] = id
      BY <1>5, <2>1
    <2> HIDE DEF id, j
    <2>3. d \in DepsOf(tasks, s[j])
      BY <1>7, <2>1, <2>2 DEF DepsOf
    <2>4. PICK k \in 1..(j - 1) : d = s[k]
      BY <1>2, <1>4, <2>2, <2>3 DEF InOrder
    <2>5. k \in 1..N /\ k < j
      BY <1>1, <2>2
    <2>6. d \in TaskIds(tasks)
      BY <1>2, <2>4, <2>5
    <2>7. rank[d] = k
      BY <1>1, <1>2, <1>5, <2>4, <2>5, <2>6 DEF One
    <2> QED
      BY <2>5, <2>6, <2>7 DEF id, j
  <1>8. \A i, k \in DOMAIN tasks : tasks[i].id = tasks[k].id => i = k
    BY <1>3 DEF UniqueIds
  <1>9. \A i \in DOMAIN tasks : tasks[i].deps \subseteq TaskIds(tasks)
    BY <1>1, <1>7
  <1>10. \E f \in [TaskIds(tasks) -> DOMAIN tasks] :
            \A i \in DOMAIN tasks : \A d \in tasks[i].deps : f[d] < f[tasks[i].id]
    BY <1>1, <1>6, <1>7
  <1> QED
    BY <1>3, <1>8, <1>9, <1>10 DEF WellFormed, s

LEMMA SortTypes ==
    ASSUME NEW tasks, IsTaskList(tasks)
    PROVE  TopologicalSort(tasks) \in Seq(ToSet(tasks))
  <1> DEFINE ids == Kahn(tasks)
  <1>1. ids \in Seq(TaskIds(tasks)) /\ DOMAIN tasks = 1..Len(tasks) /\ tasks \in Seq(ToSet(tasks))
    BY KahnSound, TaskOfFacts DEF IsTaskList
  <1>2. DOMAIN ids = 1..Len(ids) /\ Len(ids) \in Nat /\ \A i \in 1..Len(ids) : ids[i] \in TaskIds(tasks)
    BY <1>1
  <1>3. \A id \in TaskIds(tasks) : TaskOf(tasks, id) \in ToSet(tasks)
    BY <1>1, TaskOfFacts DEF ToSet
  <1>4. [i \in DOMAIN ids |-> TaskOf(tasks, ids[i])] \in Seq(ToSet(tasks))
    <2> HIDE DEF ids
    <2> QED
      BY <1>2, <1>3
  <1> QED
    BY <1>1, <1>4 DEF TopologicalSort

THEOREM SortIsCorrect ==
    ASSUME NEW tasks, IsTaskList(tasks)
    PROVE  SortsWell(tasks)
  <1> DEFINE ids == Kahn(tasks)
             out == TopologicalSort(tasks)
             N == Len(tasks)
  <1>1. N \in Nat /\ DOMAIN tasks = 1..N /\ tasks \in Seq(ToSet(tasks))
    BY TaskOfFacts DEF IsTaskList
  <1>2. ids \in Seq(TaskIds(tasks)) /\ One(ids)
    BY KahnSound
  <1>3. CASE ~WellFormed(tasks)
    <2>1. Len(ids) # Len(tasks)
      BY <1>3, OrderRanks
    <2> QED
      BY <1>3, <2>1 DEF SortsWell, TopologicalSort
  <1>4. CASE WellFormed(tasks)
    <2>1. Len(ids) = N /\ ToSet(ids) = TaskIds(tasks) /\ UniqueIds(tasks) /\ InOrder(tasks, ids)
      BY <1>4, KahnSound, OrderRanks DEF WellFormed, UniqueIds
    <2>2. out = [i \in DOMAIN ids |-> TaskOf(tasks, ids[i])] /\ DOMAIN ids = 1..N
      BY <1>1, <1>2, <2>1 DEF TopologicalSort
    <2> HIDE DEF ids, out, N
    <2>3. \A i \in 1..N : ids[i] \in TaskIds(tasks)
      <3>1. ids \in Seq(TaskIds(tasks))
        BY <1>2
      <3>2. \A i \in 1..Len(ids) : ids[i] \in TaskIds(tasks)
        BY <3>1
      <3> QED
        BY <2>1, <3>2
    <2>4. \A i \in 1..N : out[i].id = ids[i] /\ out[i] \in ToSet(tasks) /\ out[i].deps = DepsOf(tasks, ids[i])
      <3> SUFFICES ASSUME NEW i \in 1..N
                   PROVE  out[i].id = ids[i] /\ out[i] \in ToSet(tasks) /\ out[i].deps = DepsOf(tasks, ids[i])
        OBVIOUS
      <3>1. out[i] = TaskOf(tasks, ids[i])
        BY <2>2
      <3>2. PICK k \in 1..N : tasks[k].id = ids[i] /\ TaskOf(tasks, ids[i]) = tasks[k]
        BY <2>3, TaskOfFacts DEF N
      <3> QED
        BY <1>1, <3>1, <3>2 DEF DepsOf, ToSet
    <2>5. out \in Seq(ToSet(tasks)) /\ Len(out) = N /\ DOMAIN out = 1..N
      BY <1>1, <2>2, <2>4
    <2>6. ToSet(tasks) \subseteq ToSet(out)
      <3> SUFFICES ASSUME NEW k \in 1..N
                   PROVE  \E i \in 1..N : out[i] = tasks[k]
        <4>1. ToSet(tasks) = {tasks[k] : k \in 1..N} /\ ToSet(out) = {out[i] : i \in 1..N}
          BY <1>1, <2>5 DEF ToSet
        <4> QED
          BY <4>1
      <3>1. tasks[k].id \in ToSet(ids) /\ TaskOf(tasks, tasks[k].id) = tasks[k]
        BY <2>1, TaskOfFacts, UniqueTaskOf DEF N
      <3>2. PICK i \in 1..N : ids[i] = tasks[k].id
        BY <2>2, <3>1 DEF ToSet
      <3> QED
        BY <2>2, <3>1, <3>2
    <2>7. ToSet(out) = ToSet(tasks)
      BY <2>4, <2>5, <2>6 DEF ToSet
    <2>8. \A i \in DOMAIN out : out[i].deps \subseteq {out[k].id : k \in 1..(i - 1)}
      <3> SUFFICES ASSUME NEW i \in 1..N
                   PROVE  out[i].deps \subseteq {out[k].id : k \in 1..(i - 1)}
        BY <2>5
      <3>1. \A k \in 1..(i - 1) : k \in 1..N
        BY <1>1
      <3>2. {out[k].id : k \in 1..(i - 1)} = {ids[k] : k \in 1..(i - 1)}
        BY <2>4, <3>1
      <3>3. DepsOf(tasks, ids[i]) \subseteq {ids[k] : k \in 1..(i - 1)}
        BY <2>1, <2>2 DEF InOrder
      <3> QED
        BY <2>4, <3>2, <3>3
    <2> QED
      BY <1>4, <2>5, <2>7, <2>8 DEF SortsWell, out, N
  <1> QED
    BY <1>3, <1>4

-----------------------------------------------------------------------------
(* The tasks of a run keep to the order. *)

AllTasks == UNION {ToSet(tasks) : tasks \in TaskLists}
Entries  == [task : AllTasks, status : {"SUCCESS", "FAILED", "SKIPPED"}]

LEMMA EntryFacts ==
    ASSUME NEW d \in Seq(Entries), NEW i \in 1..Len(d)
    PROVE  d[i].task \in AllTasks /\ d[i].status \in {"SUCCESS", "FAILED", "SKIPPED"}
  <1>1. d[i] \in Entries
    OBVIOUS
  <1> QED
    BY <1>1 DEF Entries

\* Something that the i-th task depends on failed or was skipped before it.
Blocked(r, i) ==
    \E k \in 1..(i - 1) : /\ done[r][k].task.id \in done[r][i].task.deps
                          /\ done[r][k].status \in {"FAILED", "SKIPPED"}

\* A run that has come past its load has the sorted tasks of a saved list, cut
\* in two: those recorded and those to come.
Planned(r) == Plan(r) = <<>> \/ \E tasks \in TaskLists : Plan(r) = TopologicalSort(tasks)

PlanInv ==
    /\ todo \in [Runs -> Seq(AllTasks)] /\ done \in [Runs -> Seq(Entries)]
    /\ \A r \in Runs : stage[r] \in {"unused", "load"} => todo[r] = <<>> /\ done[r] = <<>>
    /\ \A r \in Runs : Planned(r)
    /\ \A r \in Runs : \A i \in DOMAIN done[r] : done[r][i].status = "SKIPPED" <=> Blocked(r, i)

\* Recording a task moves the cut by one.
LEMMA CutMoves ==
    ASSUME NEW S, NEW a \in Seq(S), NEW t \in Seq(S), t # <<>>
    PROVE  Append(a, Head(t)) \o Tail(t) = a \o t
  <1> DEFINE x == Append(a, Head(t))
             y == Tail(t)
             m == Len(a)
             n == Len(t)
  <1>1. /\ m \in Nat /\ n \in Nat /\ n # 0 /\ Head(t) = t[1]
        /\ x \in Seq(S) /\ Len(x) = m + 1 /\ x[m + 1] = t[1] /\ \A i \in 1..m : x[i] = a[i]
        /\ y \in Seq(S) /\ Len(y) = n - 1 /\ \A i \in 1..(n - 1) : y[i] = t[i + 1]
    BY AppendProperties, HeadTailProperties
  <1>2. /\ x \o y \in Seq(S) /\ Len(x \o y) = (m + 1) + (n - 1)
        /\ \A i \in 1..((m + 1) + (n - 1)) : (x \o y)[i] = IF i <= m + 1 THEN x[i] ELSE y[i - (m + 1)]
    <2> HIDE DEF x, y, m, n
    <2>1. x \in Seq(S) /\ y \in Seq(S) /\ Len(x) = m + 1 /\ Len(y) = n - 1
      BY <1>1
    <2>2. /\ x \o y \in Seq(S) /\ Len(x \o y) = Len(x) + Len(y)
          /\ \A i \in 1..Len(x) + Len(y) : (x \o y)[i] = IF i <= Len(x) THEN x[i] ELSE y[i - Len(x)]
      BY <2>1, ConcatProperties, Zenon
    <2> QED
      BY <2>1, <2>2
  <1>3. /\ a \o t \in Seq(S) /\ Len(a \o t) = m + n
        /\ \A i \in 1..(m + n) : (a \o t)[i] = IF i <= m THEN a[i] ELSE t[i - m]
    BY ConcatProperties
  <1> HIDE DEF x, y, m, n
  <1>4. \A i \in 1..(m + n) : (x \o y)[i] = (a \o t)[i]
    <2> SUFFICES ASSUME NEW i \in 1..(m + n)
                 PROVE  (x \o y)[i] = (a \o t)[i]
      OBVIOUS
    <2>1. i \in 1..((m + 1) + (n - 1))
      BY <1>1
    <2>2. CASE i <= m
      <3>1. i <= m + 1 /\ i \in 1..m
        BY <1>1, <2>2
      <3> QED
        BY <1>1, <1>2, <1>3, <2>1, <2>2, <3>1
    <2>3. CASE i = m + 1
      <3>1. i <= m + 1 /\ ~(i <= m) /\ i - m = 1
        BY <1>1, <2>3
      <3> QED
        BY <1>1, <1>2, <1>3, <2>1, <2>3, <3>1
    <2>4. CASE i > m + 1
      <3>1. ~(i <= m + 1) /\ ~(i <= m) /\ i - (m + 1) \in 1..(n - 1) /\ (i - (m + 1)) + 1 = i - m
        BY <1>1, <2>4
      <3> QED
        BY <1>1, <1>2, <1>3, <2>1, <3>1
    <2>5. i <= m \/ i = m + 1 \/ i > m + 1
      BY <1>1
    <2> QED
      BY <2>2, <2>3, <2>4, <2>5
  <1>5. Len(x \o y) = m + n
    BY <1>1, <1>2
  <1>6. x \o y = a \o t
    <2> DEFINE u == x \o y
               v == a \o t
    <2>1. u \in Seq(S) /\ v \in Seq(S) /\ Len(u) = m + n /\ Len(v) = m + n /\ \A i \in 1..(m + n) : u[i] = v[i]
      BY <1>2, <1>3, <1>4, <1>5
    <2> HIDE DEF u, v
    <2>2. u = v
      BY <2>1
    <2> QED
      BY <2>2 DEF u, v
  <1> QED
    BY <1>6 DEF x, y

LEMMA RecordKeepsPlan ==
    ASSUME PlanInv, NEW r \in Runs, stage[r] = "tasks", todo[r] # <<>>,
           NEW status \in {"SUCCESS", "FAILED", "SKIPPED"}, Record(r, Head(todo[r]), status),
           status = "SKIPPED" <=> Head(todo[r]).deps \cap Failed(r) # {}
    PROVE  PlanInv'
  <1> DEFINE t == todo[r]
             d == done[r]
             e == [task |-> Head(t), status |-> status]
             n == Len(d)
  <1>1. /\ t \in Seq(AllTasks) /\ t # <<>> /\ d \in Seq(Entries) /\ n \in Nat /\ DOMAIN d = 1..n
        /\ todo' = [todo EXCEPT ![r] = Tail(t)] /\ done' = [done EXCEPT ![r] = Append(d, e)]
        /\ stage' = stage /\ e.task = Head(t) /\ e.status = status
    BY DEF PlanInv, Record
  <1>2. Head(t) \in AllTasks /\ Tail(t) \in Seq(AllTasks)
    BY <1>1, TailFacts
  <1>3. e \in Entries
    BY <1>2 DEF Entries
  <1> HIDE DEF t, d, e, n
  <1>4. /\ Append(d, e) \in Seq(Entries) /\ DOMAIN Append(d, e) = 1..(n + 1)
        /\ \A i \in 1..n : Append(d, e)[i] = d[i]
        /\ Append(d, e)[n + 1] = e
    <2>1. d \in Seq(Entries) /\ n = Len(d)
      BY <1>1 DEF n
    <2>2. DOMAIN Append(d, e) = 1..(Len(d) + 1)
      BY <1>3, <2>1, AppendProperties
    <2> QED
      BY <1>3, <2>1, <2>2, AppendFacts
  <1>5. /\ DOMAIN todo = Runs /\ DOMAIN done = Runs
        /\ todo'[r] = Tail(t) /\ done'[r] = Append(d, e)
        /\ \A q \in Runs \ {r} : todo'[q] = todo[q] /\ done'[q] = done[q]
    BY <1>1 DEF PlanInv
  <1>6. todo' \in [Runs -> Seq(AllTasks)] /\ done' \in [Runs -> Seq(Entries)]
    BY <1>1, <1>2, <1>4 DEF PlanInv
  <1>7. \A q \in Runs : stage'[q] \in {"unused", "load"} => todo'[q] = <<>> /\ done'[q] = <<>>
    BY <1>1, <1>5 DEF PlanInv
  <1>8. Plan(r)' = Plan(r)
    <2> DEFINE a == [i \in DOMAIN d |-> d[i].task]
               b == [i \in DOMAIN Append(d, e) |-> Append(d, e)[i].task]
    <2>1. Plan(r) = a \o t /\ Plan(r)' = b \o Tail(t)
      BY <1>5 DEF Plan, t, d
    <2>2. a \in Seq(AllTasks) /\ Len(a) = n /\ \A i \in 1..n : a[i] = d[i].task
      <3>1. \A i \in 1..n : d[i].task \in AllTasks
        BY <1>1, EntryFacts DEF n
      <3>2. a = [i \in 1..n |-> d[i].task]
        BY <1>1
      <3> QED
        BY <1>1, <3>1, <3>2
    <2>3. b \in Seq(AllTasks) /\ Len(b) = n + 1 /\ (\A i \in 1..n : b[i] = d[i].task) /\ b[n + 1] = Head(t)
      <3>1. b = [i \in 1..(n + 1) |-> Append(d, e)[i].task]
        BY <1>4
      <3>2. \A i \in 1..(n + 1) : Append(d, e)[i].task \in AllTasks
        <4> DEFINE x == Append(d, e)
        <4>1. x \in Seq(Entries) /\ Len(x) = n + 1
          BY <1>1, <1>4
        <4> HIDE DEF x
        <4>2. \A i \in 1..Len(x) : x[i].task \in AllTasks
          BY <4>1, EntryFacts
        <4> QED
          BY <4>1, <4>2 DEF x
      <3>3. (\A i \in 1..n : Append(d, e)[i].task = d[i].task) /\ Append(d, e)[n + 1].task = Head(t)
        BY <1>1, <1>4
      <3>4. n + 1 \in Nat /\ n + 1 \in 1..(n + 1) /\ \A i \in 1..n : i \in 1..(n + 1)
        BY <1>1
      <3> HIDE DEF b
      <3>5. \A i \in 1..(n + 1) : b[i] = Append(d, e)[i].task
        BY <3>1
      <3>6. b \in Seq(AllTasks) /\ Len(b) = n + 1
        <4> DEFINE m == n + 1
        <4>1. m \in Nat /\ b = [i \in 1..m |-> b[i]] /\ \A i \in 1..m : b[i] \in AllTasks
          BY <3>1, <3>2, <3>4, <3>5
        <4> HIDE DEF m
        <4>2. b \in Seq(AllTasks) /\ Len(b) = m
          BY <4>1
        <4> QED
          BY <4>2 DEF m
      <3> QED
        BY <3>3, <3>4, <3>5, <3>6
    <2> HIDE DEF a, b
    <2>4. b = Append(a, Head(t))
      <3> DEFINE c == Append(a, Head(t))
      <3>1. c \in Seq(AllTasks) /\ Len(c) = n + 1 /\ (\A i \in 1..n : c[i] = a[i]) /\ c[n + 1] = Head(t)
        BY <1>2, <2>2, AppendFacts
      <3> HIDE DEF c
      <3>2. \A i \in 1..(n + 1) : i \in 1..n \/ i = n + 1
        BY <1>1
      <3>3. \A i \in 1..(n + 1) : b[i] = c[i]
        BY <2>2, <2>3, <3>1, <3>2
      <3>4. b = c
        BY <2>3, <3>1, <3>3
      <3> QED
        BY <3>4 DEF c
    <2> QED
      BY <1>1, <2>1, <2>2, <2>4, CutMoves
  <1>9. \A q \in Runs : Planned(q)'
    <2>1. \A q \in Runs \ {r} : Plan(q)' = Plan(q)
      BY <1>5 DEF Plan
    <2>2. \A q \in Runs : Plan(q)' = Plan(q)
      BY <1>8, <2>1
    <2>3. \A q \in Runs : Planned(q)
      BY DEF PlanInv
    <2> QED
      BY <2>2, <2>3 DEF Planned
  <1>10. ASSUME NEW q \in Runs, NEW i \in DOMAIN done'[q]
         PROVE  done'[q][i].status = "SKIPPED" <=> Blocked(q, i)'
    <2>1. CASE q # r
      <3>1. done'[q] = done[q]
        BY <1>5, <2>1
      <3> QED
        BY <1>10, <3>1 DEF PlanInv, Blocked
    <2>2. CASE q = r
      <3>1. i \in 1..(n + 1) /\ done'[q] = Append(d, e) /\ done'[q][i] = IF i = n + 1 THEN e ELSE d[i]
        BY <1>1, <1>4, <1>5, <1>10, <2>2
      <3>2. \A k \in 1..(i - 1) : k \in 1..n /\ done'[q][k] = d[k]
        <4>1. \A k \in 1..(i - 1) : k \in 1..n
          BY <1>1, <3>1
        <4> QED
          BY <1>4, <3>1, <4>1
      <3>3. Blocked(q, i)' <=> \E k \in 1..(i - 1) : /\ d[k].task.id \in done'[q][i].task.deps
                                                    /\ d[k].status \in {"FAILED", "SKIPPED"}
        BY <3>2 DEF Blocked
      <3>4. CASE i = n + 1
        <4>1. i - 1 = n /\ done'[q][i] = e
          BY <1>1, <3>1, <3>4
        <4>2. Failed(r) = {d[k].task.id : k \in {j \in 1..n : d[j].status \in {"FAILED", "SKIPPED"}}}
          BY <1>1 DEF Failed, Ids, d
        <4>3. Head(t).deps \cap Failed(r) # {} <=> \E k \in 1..n : /\ d[k].task.id \in Head(t).deps
                                                                 /\ d[k].status \in {"FAILED", "SKIPPED"}
          BY <4>2
        <4>4. status = "SKIPPED" <=> Head(t).deps \cap Failed(r) # {}
          BY DEF t
        <4> QED
          BY <1>1, <3>3, <4>1, <4>3, <4>4
      <3>5. CASE i # n + 1
        <4>1. i \in 1..n /\ done'[q][i] = d[i]
          BY <1>1, <3>1, <3>5
        <4>2. d[i].status = "SKIPPED" <=> Blocked(r, i)
          BY <1>1, <4>1 DEF PlanInv, d
        <4>3. Blocked(r, i) <=> \E k \in 1..(i - 1) : /\ d[k].task.id \in d[i].task.deps
                                                     /\ d[k].status \in {"FAILED", "SKIPPED"}
          BY DEF Blocked, d
        <4> QED
          BY <3>3, <4>1, <4>2, <4>3
      <3> QED
        BY <3>4, <3>5
    <2> QED
      BY <2>1, <2>2
  <1> QED
    BY <1>6, <1>7, <1>9, <1>10 DEF PlanInv

LEMMA PlanInit == Init => PlanInv
  <1> SUFFICES ASSUME Init PROVE PlanInv
    OBVIOUS
  <1>1. todo = [r \in Runs |-> <<>>] /\ done = [r \in Runs |-> <<>>]
    BY DEF Init
  <1>2. <<>> \in Seq(AllTasks) /\ <<>> \in Seq(Entries)
    OBVIOUS
  <1>3. todo \in [Runs -> Seq(AllTasks)] /\ done \in [Runs -> Seq(Entries)]
    BY <1>1, <1>2
  <1>4. \A r \in Runs : todo[r] = <<>> /\ done[r] = <<>>
    BY <1>1
  <1>5. ASSUME NEW r \in Runs PROVE Planned(r)
    <2> DEFINE a == [i \in DOMAIN done[r] |-> done[r][i].task]
    <2>1. a \in Seq({}) /\ Len(a) = 0 /\ todo[r] \in Seq({}) /\ Len(todo[r]) = 0
      BY <1>4
    <2> HIDE DEF a
    <2>2. a \o todo[r] \in Seq({}) /\ Len(a \o todo[r]) = 0
      BY <2>1, ConcatProperties
    <2> QED
      BY <2>2 DEF Planned, Plan, a
  <1> QED
    BY <1>3, <1>4, <1>5 DEF PlanInv

LEMMA PlanUntouched ==
    ASSUME PlanInv, UNCHANGED <<todo, done>>,
           \A r \in Runs : stage'[r] \in {"unused", "load"} => stage[r] \in {"unused", "load"}
    PROVE  PlanInv'
  <1>1. \A r \in Runs : Plan(r)' = Plan(r)
    BY DEF Plan
  <1>2. \A r \in Runs : Planned(r)'
    BY <1>1 DEF PlanInv, Planned
  <1>3. \A r \in Runs : \A i \in DOMAIN done'[r] : done'[r][i].status = "SKIPPED" <=> Blocked(r, i)'
    BY DEF PlanInv, Blocked
  <1> QED
    BY <1>2, <1>3 DEF PlanInv

LEMMA LoadKeepsPlan ==
    ASSUME TypeOK, PlanInv, NEW r \in Runs, Load(r), LoadJobs[r[1]] # NoJob
    PROVE  PlanInv'
  <1> DEFINE tasks == LoadJobs[r[1]].tasks
             out == TopologicalSort(tasks)
  <1>1. tasks \in TaskLists
    <2>1. LoadJobs \in Book /\ r[1] \in Jobs
      BY LoadJobsType DEF Runs
    <2> QED
      BY <2>1 DEF Load, Book, JobRec
  <1>2. todo' = [todo EXCEPT ![r] = out] /\ done' = done /\ GoTo(r, "insert") /\ stage[r] = "load"
    BY <1>1 DEF Load, Sorted
  <1> HIDE DEF tasks
  <1>3. out \in Seq(AllTasks)
    <2>1. out \in Seq(ToSet(tasks)) /\ ToSet(tasks) \subseteq AllTasks
      BY <1>1, SortTypes, WorkflowAssumption DEF AllTasks
    <2> HIDE DEF out
    <2> QED
      BY <2>1
  <1>4. /\ todo'[r] = out /\ done[r] = <<>>
        /\ \A q \in Runs \ {r} : todo'[q] = todo[q]
        /\ \A q \in Runs : stage'[q] = IF q = r THEN "insert" ELSE stage[q]
    BY <1>2 DEF PlanInv, TypeOK, GoTo
  <1> HIDE DEF out
  <1>5. todo' \in [Runs -> Seq(AllTasks)] /\ done' \in [Runs -> Seq(Entries)]
    BY <1>2, <1>3 DEF PlanInv
  <1>6. \A q \in Runs : stage'[q] \in {"unused", "load"} => todo'[q] = <<>> /\ done'[q] = <<>>
    BY <1>2, <1>4 DEF PlanInv
  <1>7. Plan(r)' = out
    <2> DEFINE a == [i \in DOMAIN done'[r] |-> done'[r][i].task]
    <2>1. a = <<>>
      BY <1>2, <1>4
    <2> HIDE DEF a
    <2>2. <<>> \o out = out
      BY <1>3, ConcatEmptySeq
    <2>3. Plan(r)' = a \o out
      BY <1>4 DEF Plan, a
    <2> QED
      BY <2>1, <2>2, <2>3
  <1>8. \A q \in Runs \ {r} : Plan(q)' = Plan(q)
    BY <1>2, <1>4 DEF Plan
  <1>9. \A q \in Runs : Planned(q)'
    <2>1. Planned(r)'
      BY <1>1, <1>7 DEF Planned, out
    <2>2. \A q \in Runs \ {r} : Planned(q)'
      BY <1>8 DEF PlanInv, Planned
    <2> QED
      BY <2>1, <2>2
  <1>10. \A q \in Runs : \A i \in DOMAIN done'[q] : done'[q][i].status = "SKIPPED" <=> Blocked(q, i)'
    BY <1>2 DEF PlanInv, Blocked
  <1> QED
    BY <1>5, <1>6, <1>9, <1>10 DEF PlanInv

LEMMA PlanStep == TypeOK /\ PlanInv /\ [Next]_vars => PlanInv'
  <1> SUFFICES ASSUME TypeOK, PlanInv, [Next]_vars PROVE PlanInv'
    OBVIOUS
  <1>0. ASSUME NEW r \in Runs, NEW s \in Stages \ {"unused", "load"}, GoTo(r, s), UNCHANGED <<todo, done>>
        PROVE  PlanInv'
    <2>1. \A q \in Runs : stage'[q] = IF q = r THEN s ELSE stage[q]
      BY <1>0 DEF GoTo, TypeOK
    <2> QED
      BY <1>0, <2>1, PlanUntouched
  <1>1. ASSUME NEW j \in Jobs, CreateOrUpdateJob(j) \/ DeleteJob(j) \/ Tick(j) PROVE PlanInv'
    <2>1. UNCHANGED <<todo, done, stage>>
      BY <1>1 DEF CreateOrUpdateJob, DeleteJob, Tick
    <2> QED
      BY <2>1, PlanUntouched
  <1>2. CASE SaveDone \/ UNCHANGED vars
    <2>1. UNCHANGED <<todo, done, stage>>
      BY <1>2 DEF SaveDone, vars
    <2> QED
      BY <2>1, PlanUntouched
  <1>3. CASE CronTurn
    <2>1. ASSUME NEW r \in Runs, stage'[r] \in {"unused", "load"}
          PROVE  stage[r] \in {"unused", "load"}
      <3>1. stage'[r] = stage[r] \/ \E j \in Due : r = NextRun(j)
        BY <1>3 DEF CronTurn
      <3>2. \A j \in Due : stage[NextRun(j)] = "unused"
        BY NextRunIsFree DEF Due
      <3> QED
        BY <2>1, <3>1, <3>2
    <2>2. UNCHANGED <<todo, done>>
      BY <1>3 DEF CronTurn
    <2> QED
      BY <2>1, <2>2, PlanUntouched
  <1>4. ASSUME NEW j \in Jobs, RunNow(j) PROVE PlanInv'
    <2>1. NextRun(j) \in Runs /\ stage[NextRun(j)] = "unused"
      BY <1>4, NextRunIsFree DEF RunNow
    <2>2. UNCHANGED <<todo, done>> /\ \A r \in Runs : stage'[r] = IF r = NextRun(j) THEN "load" ELSE stage[r]
      BY <1>4, <2>1 DEF RunNow, GoTo, TypeOK
    <2> QED
      BY <2>1, <2>2, PlanUntouched
  <1>5. ASSUME NEW r \in Runs, Discard(r) PROVE PlanInv'
    BY <1>0, <1>5 DEF Discard, Stages
  <1>6. ASSUME NEW r \in Runs, Load(r) PROVE PlanInv'
    <2>1. CASE LoadJobs[r[1]] = NoJob
      BY <1>0, <1>6, <2>1 DEF Load, Return, Stages
    <2>2. CASE LoadJobs[r[1]] # NoJob
      BY <1>6, <2>2, LoadKeepsPlan
    <2> QED
      BY <2>1, <2>2
  <1>7. ASSUME NEW r \in Runs, InsertRow(r) PROVE PlanInv'
    BY <1>0, <1>7 DEF InsertRow, Stages
  <1>8. ASSUME NEW r \in Runs, SkipTask(r) PROVE PlanInv'
    BY <1>8, RecordKeepsPlan DEF SkipTask
  <1>9. ASSUME NEW r \in Runs, ExecuteTask(r) PROVE PlanInv'
    <2>1. PICK status \in {"SUCCESS", "FAILED"} : Record(r, Head(todo[r]), status)
      BY <1>9 DEF ExecuteTask, Outcomes
    <2> QED
      BY <1>9, <2>1, RecordKeepsPlan DEF ExecuteTask
  <1>10. ASSUME NEW r \in Runs, UpdateRow(r) \/ RowFails(r) PROVE PlanInv'
    BY <1>0, <1>10 DEF UpdateRow, RowFails, Return, Stages
  <1>11. CASE Crash
    <2>1. UNCHANGED <<todo, done>> /\ \A r \in Runs : stage'[r] = stage[r] \/ stage'[r] = "dead"
      BY <1>11 DEF Crash
    <2> QED
      BY <2>1, PlanUntouched
  <1> QED
    BY <1>1, <1>2, <1>3, <1>4, <1>5, <1>6, <1>7, <1>8, <1>9, <1>10, <1>11 DEF Next, RunStep

LEMMA PlanRespectsDag ==
    ASSUME PlanInv
    PROVE  TasksRespectDag
  <1> SUFFICES ASSUME NEW r \in Runs, WellFormed(Plan(r)), NEW i \in DOMAIN done[r]
               PROVE  LET before == {done[r][k] : k \in 1..(i - 1)}
                          deps   == {x \in before : x.task.id \in done[r][i].task.deps}
                      IN  IF done[r][i].status = "SKIPPED"
                          THEN \E x \in deps : x.status # "SUCCESS"
                          ELSE /\ \A x \in deps : x.status = "SUCCESS"
                               /\ Cardinality(deps) = Cardinality(done[r][i].task.deps)
    BY DEF TasksRespectDag
  <1> DEFINE d == done[r]
             n == Len(d)
             out == Plan(r)
             before == {d[k] : k \in 1..(i - 1)}
             deps == {x \in before : x.task.id \in d[i].task.deps}
  <1>1. /\ d \in Seq(Entries) /\ n \in Nat /\ DOMAIN d = 1..n /\ i \in 1..n
        /\ todo[r] \in Seq(AllTasks)
        /\ d[i].status = "SKIPPED" <=> Blocked(r, i)
    BY DEF PlanInv
  <1>2. /\ out \in Seq(AllTasks) /\ Len(out) = n + Len(todo[r]) /\ \A k \in 1..n : out[k] = d[k].task
    <2> DEFINE a == [k \in DOMAIN d |-> d[k].task]
    <2>1. a = [k \in 1..n |-> d[k].task] /\ \A k \in 1..n : d[k].task \in AllTasks
      BY <1>1, EntryFacts
    <2>2. out = a \o todo[r]
      BY DEF Plan
    <2> HIDE DEF a, out, d, n
    <2>3. a \in Seq(AllTasks) /\ Len(a) = n /\ \A k \in 1..n : a[k] = d[k].task
      BY <1>1, <2>1
    <2>4. /\ a \o todo[r] \in Seq(AllTasks) /\ Len(a \o todo[r]) = Len(a) + Len(todo[r])
          /\ \A k \in 1..Len(a) + Len(todo[r]) : (a \o todo[r])[k] = IF k <= Len(a) THEN a[k] ELSE todo[r][k - Len(a)]
      BY <1>1, <2>3, ConcatProperties, Zenon
    <2>5. Len(todo[r]) \in Nat
      BY <1>1
    <2>6. \A k \in 1..n : k \in 1..Len(a) + Len(todo[r]) /\ k <= Len(a)
      BY <1>1, <2>3, <2>5
    <2> QED
      BY <2>2, <2>3, <2>4, <2>6
  <1>3. Len(out) \in Nat /\ DOMAIN out = 1..Len(out) /\ \A k \in 1..n : k \in 1..Len(out)
    <2>1. Len(todo[r]) \in Nat
      BY <1>1
    <2>2. DOMAIN out = 1..Len(out)
      <3> HIDE DEF out
      <3> QED
        BY <1>2
    <2> HIDE DEF out, d, n
    <2> QED
      BY <1>1, <1>2, <2>1, <2>2
  <1>4. PICK tasks \in TaskLists : out = TopologicalSort(tasks)
    <2>1. out # <<>>
      <3>1. Len(out) # 0
        BY <1>1, <1>3
      <3> HIDE DEF out
      <3> QED
        BY <3>1
    <2> QED
      BY <2>1 DEF PlanInv, Planned
  <1>5. IsTaskList(tasks)
    BY WorkflowAssumption
  <1>6. SortsWell(tasks)
    BY <1>5, SortIsCorrect
  \* What the sort could not order, it left alone, and it is not well formed.
  <1>7. WellFormed(tasks)
    BY <1>4, <1>6 DEF SortsWell
  <1>8. \A k \in DOMAIN out : out[k].deps \subseteq {out[m].id : m \in 1..(k - 1)}
    BY <1>4, <1>6, <1>7 DEF SortsWell
  <1>9. \A k, m \in DOMAIN out : out[k].id = out[m].id => k = m
    BY DEF WellFormed
  <1>10. IsFiniteSet(out[i].deps)
    <2>1. out[i] \in ToSet(tasks)
      <3>1. ToSet(out) = ToSet(tasks)
        BY <1>4, <1>6, <1>7 DEF SortsWell
      <3> QED
        BY <1>1, <1>3, <3>1 DEF ToSet
    <2> QED
      BY <1>5, <2>1 DEF IsTaskList, ToSet
  <1> HIDE DEF out, d, n
  <1>11. \A k \in 1..(i - 1) : k \in 1..n /\ k \in DOMAIN out /\ out[k] = d[k].task
    <2>1. \A k \in 1..(i - 1) : k \in 1..n
      BY <1>1
    <2> QED
      BY <1>2, <1>3, <2>1
  <1>12. out[i] = d[i].task /\ i \in DOMAIN out
    BY <1>1, <1>2, <1>3
  <1>13. \A k \in 1..n : d[k].status \in {"SUCCESS", "FAILED", "SKIPPED"}
    BY <1>1, EntryFacts DEF n
  <1>14. Blocked(r, i) <=> \E k \in 1..(i - 1) : /\ d[k].task.id \in d[i].task.deps
                                                /\ d[k].status \in {"FAILED", "SKIPPED"}
    BY DEF Blocked, d
  <1>15. Blocked(r, i) <=> \E x \in deps : x.status # "SUCCESS"
    BY <1>11, <1>13, <1>14
  <1>16. Cardinality(deps) = Cardinality(d[i].task.deps)
    <2> DEFINE T == d[i].task.deps
               f == [x \in deps |-> x.task.id]
    <2>1. f \in [deps -> T]
      OBVIOUS
    <2>2. \A x, y \in deps : f[x] = f[y] => x = y
      <3> SUFFICES ASSUME NEW x \in deps, NEW y \in deps, x.task.id = y.task.id
                   PROVE  x = y
        OBVIOUS
      <3>1. PICK k \in 1..(i - 1), m \in 1..(i - 1) : x = d[k] /\ y = d[m]
        OBVIOUS
      <3> QED
        BY <1>9, <1>11, <3>1
    <2>3. \A y \in T : \E x \in deps : f[x] = y
      <3> SUFFICES ASSUME NEW y \in T
                   PROVE  \E x \in deps : x.task.id = y
        OBVIOUS
      <3>1. PICK m \in 1..(i - 1) : y = out[m].id
        BY <1>8, <1>12
      <3>2. d[m].task.id = y
        BY <1>11, <3>1
      <3> QED
        BY <3>2
    <2>4. IsFiniteSet(T)
      BY <1>10, <1>12
    <2> HIDE DEF deps, T, f
    <2>5. f \in Bijection(deps, T)
      BY <2>1, <2>2, <2>3 DEF Bijection, Injection, Surjection, IsInjective
    <2>6. IsFiniteSet(deps)
      BY <2>4, <2>5, FS_Injection DEF Bijection
    <2>7. ExistsBijection(deps, T)
      BY <2>5 DEF ExistsBijection
    <2> QED
      BY <2>6, <2>7, FS_Bijection DEF T
  <1>17. d[i].status # "SKIPPED" => \A x \in deps : x.status = "SUCCESS"
    BY <1>1, <1>15
  <1>18. d[i].status = "SKIPPED" => \E x \in deps : x.status # "SUCCESS"
    BY <1>1, <1>15
  <1> QED
    BY <1>16, <1>17, <1>18 DEF d

-----------------------------------------------------------------------------
(* The invariant, and what follows from it. *)

Inv == TypeOK /\ ListsOK /\ CronInv /\ RowInv /\ RowsKept /\ PlanInv

LEMMA InvInit == Init => Inv
  <1> SUFFICES ASSUME Init PROVE Inv
    OBVIOUS
  <1>1. CronInv /\ RowInv /\ RowTellsOutcome
    BY DEF Init, CronInv, CronRun, RowInv, RowTellsOutcome
  <1>2. StaleRowsExplained
    <2>1. {r \in Runs : row[r] = "RUNNING" /\ stage[r] \in {"ended", "over"}} = {}
      BY DEF Init
    <2>2. Budget["dbfail"] \in Nat /\ left = Budget
      BY WorkflowAssumption DEF Init, Events
    <2>3. Spent("dbfail") = 0
      BY <2>2 DEF Spent
    <2> QED
      BY <2>1, <2>3, FS_EmptySet DEF StaleRowsExplained
  <1> QED
    BY <1>1, <1>2, InitType, PlanInit DEF Inv, RowsKept

LEMMA InvStep == Inv /\ [Next]_vars => Inv'
  BY TypeStep, CronStep, RowStep, PlanStep DEF Inv

LEMMA InvHolds == Spec => []Inv
  BY InvInit, InvStep, PTL DEF Spec

\* The state of the job book, the cron loop and the runs keeps its type.
THEOREM TypeCorrect == Spec => []TypeOK
  <1>1. Inv => TypeOK
    BY DEF Inv
  <1> QED
    BY <1>1, InvHolds, PTL

\* cron_scheduler_loop never has two runs of a job under way, however many jobs
\* there are and whatever is saved, deleted, run by hand or crashes meanwhile.
THEOREM CronNeverOverlaps == Spec => []CronRunsDontOverlap
  <1>1. Inv => CronRunsDontOverlap
    BY DEF Inv, CronInv, CronRun, CronRunsDontOverlap
  <1> QED
    BY <1>1, InvHolds, PTL

\* The row of a finished run sums up its tasks, and a run that is gone has a row
\* in RUNNING only where the database refused its update.
THEOREM RowsAreKept == Spec => []RowsKept
  <1>1. Inv => RowsKept
    BY DEF Inv
  <1> QED
    BY <1>1, InvHolds, PTL

\* run_pipeline executes a task only after all its dependencies succeeded, and
\* skips one only because something upstream failed, whatever lists are saved.
THEOREM TasksRespectTheDag == Spec => []TasksRespectDag
  <1>1. Inv => TasksRespectDag
    BY PlanRespectsDag DEF Inv
  <1> QED
    BY <1>1, InvHolds, PTL
=============================================================================
