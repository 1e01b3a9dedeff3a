-------------------------------- MODULE Exports --------------------------------
(***************************************************************************)
(* Scheduled exports (web/scheduled_exports.py): the dictionary            *)
(* SCHEDULED_EXPORTS, its file and the jobs of the scheduler.              *)
(*                                                                         *)
(* Every call loads the file, which replaces the dictionary, changes it    *)
(* and writes it back.  Calls from the studio run on the event loop, one   *)
(* at a time; exports run in threads, load the file when they begin and    *)
(* save the dictionary, whatever it is by then, when they are done.  A      *)
(* write that fails leaves the file cut, and whoever called is not told.   *)
(* What an export notes in its schedule is left out; Dashboards has the    *)
(* queries it runs.                                                        *)
(***************************************************************************)
EXTENDS Integers, Functions

CONSTANTS
    Schedules,    \* ids of schedules
    Threads,      \* threads that run exports
    Studio,       \* the event loop
    MaxStudioCalls,     \* bound: calls from the studio
    MaxExports,   \* bound: exports
    MaxExportFaults   \* bound: restarts and failing writes

ASSUME ExportAssumption ==
    Studio \notin Threads /\ MaxStudioCalls \in Nat /\ MaxExports \in Nat /\ MaxExportFaults \in Nat

Actors  == Threads \cup {Studio}
Nothing == [s \in {} |-> {}]
\* A schedule: whether it is enabled, and whether a trigger can be made of its frequency.
Records == [on : BOOLEAN, ok : BOOLEAN]
NoCall  == [call |-> "list", id |-> "", rec |-> [on |-> FALSE, ok |-> FALSE]]

VARIABLES
    exText,    \* the file: "none", "cut" (truncated or garbled) or "whole"
    exFile,    \* the schedules in it
    exMem,     \* SCHEDULED_EXPORTS
    exJobs,    \* schedules with a job in the scheduler
    exStep,    \* actor -> where it is in its call
    exSeen,    \* actor -> what it has read from the file
    exCall,    \* the studio's call or its start, with the schedule and the record asked for
    exMore,    \* whether the studio's call saves once more
    exRun,     \* thread -> its schedule, and whether it was triggered by hand
    exCalls, exExports, exFaults,
    \* History.
    exAsked,   \* what the answered calls add up to
    exUsed,    \* ids drawn so far
    exClash,   \* a load, a save or a call of the studio overlapped another's, or was cut off
    exLost     \* somebody loaded a file that a failing write had cut

exportVars == <<exText, exFile, exMem, exJobs, exStep, exSeen, exCall, exMore, exRun, exCalls, exExports,
                exFaults, exAsked, exUsed, exClash, exLost>>
store      == <<exText, exFile>>
bounds     == <<exCalls, exExports, exFaults>>

ExportInit ==
    /\ exText = "none" /\ exFile = Nothing /\ exMem = Nothing /\ exJobs = {}
    /\ exStep = [a \in Actors |-> "idle"] /\ exSeen = [a \in Actors |-> Nothing]
    /\ exCall = NoCall /\ exMore = FALSE /\ exRun = [t \in Threads |-> [id |-> "", byHand |-> FALSE]]
    /\ exCalls = 0 /\ exExports = 0 /\ exFaults = 0
    /\ exAsked = Nothing /\ exUsed = {} /\ exClash = FALSE /\ exLost = FALSE

With(book, s, r)  == [x \in DOMAIN book \cup {s} |-> IF x = s THEN r ELSE book[x]]
Without(book, s)  == Restrict(book, DOMAIN book \ {s})
Schedulable(book) == {s \in DOMAIN book : book[s].on /\ book[s].ok}
Goes(a, step)     == exStep' = [exStep EXCEPT ![a] = step]
\* The studio's call is one piece; the load and the save of an export are pieces of their own.
Busy(a)           == IF a = Studio THEN exStep[a] # "idle" ELSE exStep[a] \in {"assign", "write"}
Clash(a)          == exClash' = (exClash \/ \E b \in Actors \ {a} : Busy(b))

StudioCalls(call, s, rec) ==
    /\ exStep[Studio] = "idle" /\ exCalls < MaxStudioCalls /\ exCalls' = exCalls + 1
    /\ (call = "create") = (s \notin exUsed)
    /\ exUsed' = exUsed \cup {s}
    /\ exCall' = [call |-> call, id |-> s, rec |-> rec]
    /\ Goes(Studio, "read") /\ Clash(Studio)
    /\ UNCHANGED <<store, exMem, exJobs, exSeen, exMore, exRun, exExports, exFaults, exAsked, exLost>>

\* The scheduler runs no second instance of a job.
Fire(t, s) ==
    /\ exStep[t] = "idle" /\ s \in exJobs /\ exExports < MaxExports /\ exExports' = exExports + 1
    /\ \A u \in Threads : exStep[u] # "idle" => exRun[u].byHand \/ exRun[u].id # s
    /\ exRun' = [exRun EXCEPT ![t] = [id |-> s, byHand |-> FALSE]]
    /\ Goes(t, "read")
    /\ UNCHANGED <<store, exMem, exJobs, exSeen, exCall, exMore, exCalls, exFaults, exAsked, exUsed, exClash, exLost>>

\* load_schedules: without a file the dictionary stays, an unreadable one leaves it empty.
ReadSchedules(a) ==
    /\ exStep[a] = "read"
    /\ exSeen' = [exSeen EXCEPT ![a] = IF exText = "whole" THEN exFile ELSE Nothing]
    /\ Goes(a, IF exText = "none" THEN "act" ELSE "assign")
    /\ Clash(a) /\ exLost' = (exLost \/ exText = "cut")
    /\ UNCHANGED <<store, exMem, exJobs, exCall, exMore, exRun, bounds, exAsked, exUsed>>

ReplaceSchedules(a) ==
    /\ exStep[a] = "assign"
    /\ exMem' = exSeen[a]
    /\ Goes(a, "act")
    /\ UNCHANGED <<store, exJobs, exSeen, exCall, exMore, exRun, bounds, exAsked, exUsed, exClash, exLost>>

JobsKept(s, rec) == IF rec.ok THEN exJobs \cup {s} ELSE exJobs                    \* a mutant

\* _add_job_to_scheduler removes the job there is; a frequency no trigger can be made of adds none.
JobsWith(s, rec) == IF rec.ok THEN exJobs \cup {s} ELSE exJobs \ {s}

CreateSchedule ==
    /\ exCall.call = "create"
    /\ exMem' = With(exMem, exCall.id, exCall.rec)
    /\ Goes(Studio, "open")
    /\ UNCHANGED <<exJobs, exMore, exRun, exExports>>

\* An update that does not mention "enabled" leaves a disabled schedule's job alone.
UpdateSchedule ==
    /\ exCall.call = "update" /\ exCall.id \in DOMAIN exMem
    /\ exMem' = With(exMem, exCall.id, exCall.rec)
    /\ IF exCall.rec.on THEN exJobs' = JobsWith(exCall.id, exCall.rec)
       ELSE exJobs' \in {exJobs \ {exCall.id}} \cup (IF exMem[exCall.id].on THEN {} ELSE {exJobs})
    /\ exMore' = (exCall.rec.on /\ exCall.rec.ok)
    /\ Goes(Studio, "open")
    /\ UNCHANGED <<exRun, exExports>>

DeleteSchedule ==
    /\ exCall.call = "delete" /\ exCall.id \in DOMAIN exMem
    /\ exMem' = Without(exMem, exCall.id)
    /\ exJobs' = exJobs \ {exCall.id}
    /\ Goes(Studio, "open")
    /\ UNCHANGED <<exMore, exRun, exExports>>

\* trigger_schedule_now: a thread of its own.
TriggerNow ==
    /\ exCall.call = "trigger" /\ exCall.id \in DOMAIN exMem /\ exExports < MaxExports
    /\ \E t \in Threads :
           /\ exStep[t] = "idle"
           /\ exStep' = [exStep EXCEPT ![t] = "read", ![Studio] = "idle"]
           /\ exRun' = [exRun EXCEPT ![t] = [id |-> exCall.id, byHand |-> TRUE]]
    /\ exExports' = exExports + 1
    /\ UNCHANGED <<exMem, exJobs, exMore>>

Answer ==
    /\ exCall.call \in {"list", "trigger"} \/ (exCall.call # "create" /\ exCall.id \notin DOMAIN exMem)
    /\ Goes(Studio, "idle")
    /\ UNCHANGED <<exMem, exJobs, exMore, exRun, exExports>>

StudioActs ==
    /\ exStep[Studio] = "act"
    /\ CreateSchedule \/ UpdateSchedule \/ DeleteSchedule \/ TriggerNow \/ Answer
    /\ UNCHANGED <<store, exSeen, exCall, exCalls, exFaults, exAsked, exUsed, exClash, exLost>>

\* execute_scheduled_export: a schedule that is gone or disabled by now is not exported.
Begin(t) ==
    /\ exStep[t] = "act"
    /\ Goes(t, IF exRun[t].id \in DOMAIN exMem /\ exMem[exRun[t].id].on THEN "export" ELSE "idle")
    /\ UNCHANGED <<store, exMem, exJobs, exSeen, exCall, exMore, exRun, bounds, exAsked, exUsed, exClash, exLost>>

\* Done or failed, it saves; without a dashboard it does not.
Exported(t) ==
    /\ exStep[t] = "export"
    /\ \E step \in {"open", "idle"} : Goes(t, step)
    /\ UNCHANGED <<store, exMem, exJobs, exSeen, exCall, exMore, exRun, bounds, exAsked, exUsed, exClash, exLost>>

OpenSchedules(a) ==
    /\ exStep[a] = "open"
    /\ exText' = "cut" /\ exFile' = Nothing
    /\ Goes(a, "write") /\ Clash(a)
    /\ UNCHANGED <<exMem, exJobs, exSeen, exCall, exMore, exRun, bounds, exAsked, exUsed, exLost>>

\* json.dump(SCHEDULED_EXPORTS): the dictionary of now, not the one an export has loaded.
Saved(a) == exMem

\* create_schedule saves before it adds the job and after it; update_schedule twice when it adds one.
AfterSave(a) ==
    IF a # Studio THEN "idle"
    ELSE IF exCall.call = "init" THEN "restore"
    ELSE IF exMore THEN "open"
    ELSE IF exCall.call = "create" /\ exCall.rec.on /\ exCall.id \notin exJobs THEN "schedule" ELSE "idle"

Asked ==
    CASE exCall.call = "init"   -> exAsked
      [] exCall.call = "delete" -> Without(exAsked, exCall.id)
      [] OTHER                  -> With(exAsked, exCall.id, exCall.rec)

\* An error of the write is swallowed; a dictionary or a file that others change meanwhile may leave anything behind.
SaveSchedules(a) ==
    /\ exStep[a] = "write"
    /\ \/ exText' = "whole" /\ exFile' = Saved(a) /\ UNCHANGED exFaults
       \/ exClash /\ exText' = "cut" /\ exFile' = Nothing /\ UNCHANGED exFaults
       \/ exFaults < MaxExportFaults /\ exFaults' = exFaults + 1 /\ exText' = "cut" /\ exFile' = Nothing
    /\ Goes(a, AfterSave(a))
    /\ exMore' = (a # Studio /\ exMore)
    /\ exAsked' = IF a = Studio THEN Asked ELSE exAsked
    /\ UNCHANGED <<exMem, exJobs, exSeen, exCall, exRun, exCalls, exExports, exUsed, exClash, exLost>>

Schedule ==
    /\ exStep[Studio] = "schedule"
    /\ exJobs' = JobsWith(exCall.id, exCall.rec)
    /\ Goes(Studio, IF exCall.rec.ok THEN "open" ELSE "idle")
    /\ UNCHANGED <<store, exMem, exSeen, exCall, exMore, exRun, bounds, exAsked, exUsed, exClash, exLost>>

\* The studio starts: init_scheduler loads the file, before anything else runs.
InitScheduler ==
    /\ exFaults < MaxExportFaults /\ exFaults' = exFaults + 1
    /\ exMem' = exFile /\ exSeen' = [exSeen EXCEPT ![Studio] = exFile] /\ exJobs' = {}
    /\ exStep' = [a \in Actors |-> IF a = Studio THEN "restore" ELSE "idle"]
    /\ exCall' = [NoCall EXCEPT !.call = "init"] /\ exMore' = FALSE
    /\ exClash' = (exClash \/ \E a \in Actors : Busy(a))
    /\ exLost' = (exLost \/ exText = "cut")
    /\ UNCHANGED <<store, exRun, exCalls, exExports, exAsked, exUsed>>

\* Then it adds the jobs of what it has loaded one by one, with a save after each.
Missing == Schedulable(exSeen[Studio]) \ exJobs
RestoreJob ==
    /\ exStep[Studio] = "restore"
    /\ \/ \E s \in Missing : exJobs' = exJobs \cup {s} /\ Goes(Studio, "open")
       \/ Missing = {} /\ Goes(Studio, "idle") /\ UNCHANGED exJobs
    /\ UNCHANGED <<store, exMem, exSeen, exCall, exMore, exRun, bounds, exAsked, exUsed, exClash, exLost>>

ExportNext ==
    \/ \E call \in {"create", "update"}, s \in Schedules, rec \in Records : StudioCalls(call, s, rec)
    \/ \E call \in {"delete", "trigger", "list"}, s \in Schedules : StudioCalls(call, s, NoCall.rec)
    \/ \E t \in Threads : Begin(t) \/ Exported(t) \/ \E s \in Schedules : Fire(t, s)
    \/ \E a \in Actors : ReadSchedules(a) \/ ReplaceSchedules(a) \/ OpenSchedules(a) \/ SaveSchedules(a)
    \/ StudioActs \/ Schedule \/ InitScheduler \/ RestoreJob

ExportSpec == ExportInit /\ [][ExportNext]_exportVars
-------------------------------------------------------------------------------
\* However long exports run beside the calls of the studio, and across restarts: as long as no two of them
\* have been in the file at the same moment and nobody has loaded what a failing write left of it, the enabled
\* schedules with a usable frequency, and no others, have a job, and the file, if it is whole, holds what the
\* answered calls asked for.
SchedulesAsAsked ==
    ~exClash /\ ~exLost /\ ~(\E a \in Actors : Busy(a)) =>
        exJobs = Schedulable(exAsked) /\ (exText = "cut" \/ exFile = exAsked)
===============================================================================
