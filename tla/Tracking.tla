------------------------------- MODULE Tracking -------------------------------
(***************************************************************************)
(* Experiment tracking: the mlflow module a notebook imports               *)
(* (web/mlflow_shim.py) and the tables it fills (web/experiments.py).      *)
(*                                                                         *)
(* A process keeps one stack of active runs, one current experiment and    *)
(* one depth of autologged fits, which all its threads use; processes      *)
(* share only experiments.db, where the studio's users delete, restore and *)
(* rename what the threads work with.  _call_api calls the functions of    *)
(* experiments.py in its own process; what raises there is asked of the    *)
(* studio by HTTP, and what fails there, too, is an empty answer.  A       *)
(* process may die, as a notebook's kernel does when it is restarted.      *)
(***************************************************************************)
EXTENDS Integers, Sequences, SequencesExt

CONSTANTS
    Threads,
    Processes,
    ExpNames,      \* experiment names besides "Default"
    CallsFail,  \* whether an API call may reach neither the database nor the studio
    MaxExps,    \* bound: experiments besides the default one
    MaxRuns,    \* bound: runs
    MaxNest,    \* bound: open with blocks and fits of a thread
    MaxEvents   \* bound: calls of the threads, edits in the studio and failing API calls, together

ASSUME TrackingAssumption ==
    /\ CallsFail \in BOOLEAN /\ Threads # {} /\ Processes # {} /\ "" \notin ExpNames /\ "Default" \notin ExpNames
    /\ \A b \in {MaxExps, MaxRuns, MaxNest, MaxEvents} : b \in Nat

Exps    == 0..MaxExps            \* 0 is Default
RunIds    == 1..MaxRuns
Handles == 0..MaxRuns            \* 0: the made-up id of a run that was never created
Ended   == {"FINISHED", "FAILED"}
Kinds   == {"with", "fit", "borrowed"}
Phases  == {"idle", "byname", "create", "assign", "check", "insert", "read", "recheck", "reinsert", "reread",
            "push", "top", "write", "update"}
Ops     == {"", "with", "bare", "fit", "log", "exit", "end"}

VARIABLES
    \* experiments.db
    expName,   \* experiment -> name, "" if there is no row (names are UNIQUE, deleted ones included)
    expLive,   \* experiments whose lifecycle_stage is active
    runExp,    \* run -> experiment, -1 if there is no row
    runLive,   \* runs whose lifecycle_stage is active
    status,    \* run -> status
    logged,    \* runs with a param, metric, tag or artifact
    \* The module's globals, per process.
    stack,     \* _active_run_stack
    current,   \* _current_experiment_id
    depth,     \* _fit_depth
    \* Threads.
    proc,      \* thread -> its process
    phase, op,
    name,      \* set_experiment's argument
    exp,       \* the experiment a call works with
    callRun,   \* the run a call works with
    blocks,    \* open with blocks and autologged fits, outermost first
    \* Bounds and trackHistory.
    events,
    mixed,     \* threads whose open blocks someone else's start_run or end_run, or a bare one, came between
    lost       \* runs whose final update failed, whose creation was answered without them, or whose process died

db      == <<expName, expLive, runExp, runLive, status, logged>>
shim    == <<stack, current, depth>>
thread  == <<phase, op, name, exp, callRun>>
trackHistory == <<mixed, lost>>
trackingVars    == <<db, shim, proc, thread, blocks, events, trackHistory>>

Stack(t)     == stack[proc[t]]
ActiveRun(t) == Last(Stack(t))
RunRows         == {r \in RunIds : runExp[r] # -1}

TrackingTypeOK ==
    /\ expName \in [Exps -> ExpNames \cup {"Default", ""}] /\ expLive \subseteq Exps
    /\ runExp \in [RunIds -> Exps \cup {-1}] /\ runLive \subseteq RunIds
    /\ status \in [RunIds -> Ended \cup {"", "RUNNING"}] /\ logged \subseteq RunRows
    /\ stack \in [Processes -> Seq(Handles)] /\ current \in [Processes -> Exps]
    /\ depth \in [Processes -> Nat] /\ proc \in [Threads -> Processes]
    /\ phase \in [Threads -> Phases] /\ op \in [Threads -> Ops]
    /\ name \in [Threads -> ExpNames \cup {"Default", ""}] /\ exp \in [Threads -> Exps]
    /\ callRun \in [Threads -> Handles]
    /\ blocks \in [Threads -> Seq([run : Handles, kind : Kinds])]
    /\ events \in 0..MaxEvents
    /\ mixed \subseteq Threads /\ lost \subseteq RunIds

TrackingInit ==
    /\ expName = [e \in Exps |-> IF e = 0 THEN "Default" ELSE ""] /\ expLive = {0}
    /\ runExp = [r \in RunIds |-> -1] /\ runLive = {} /\ status = [r \in RunIds |-> ""] /\ logged = {}
    /\ stack = [p \in Processes |-> <<>>] /\ current = [p \in Processes |-> 0]
    /\ depth = [p \in Processes |-> 0]
    /\ proc \in [Threads -> Processes]
    /\ phase = [t \in Threads |-> "idle"] /\ op = [t \in Threads |-> ""]
    /\ name = [t \in Threads |-> ""] /\ exp = [t \in Threads |-> 0] /\ callRun = [t \in Threads |-> 0]
    /\ blocks = [t \in Threads |-> <<>>]
    /\ events = 0 /\ mixed = {} /\ lost = {}

-----------------------------------------------------------------------------
(* Calls of a thread and the end of them. *)

Event == events < MaxEvents /\ events' = events + 1

Call(t)     == phase[t] = "idle" /\ Event /\ UNCHANGED proc
At(t, step) == phase[t] = step /\ UNCHANGED proc

Proceed(t, step) == phase' = [phase EXCEPT ![t] = step]
Enter(t, o, step) == Proceed(t, step) /\ op' = [op EXCEPT ![t] = o]
Done(t) ==
    /\ Proceed(t, "idle") /\ op' = [op EXCEPT ![t] = ""] /\ name' = [name EXCEPT ![t] = ""]
    /\ exp' = [exp EXCEPT ![t] = 0] /\ callRun' = [callRun EXCEPT ![t] = 0]

\* _call_api tries the database, then the studio, and answers {} when both fail.  What failed without a
\* trace may as well have been tried later: only a creation needs to be told which way it goes.
Unreachable == CallsFail /\ Event
Reached     == UNCHANGED events

\* History: thread t changes its process's stack.
Neighbours(t) == {u \in Threads \ {t} : proc[u] = proc[t] /\ blocks[u] # <<>>}
Mixes(t, own) == mixed' = mixed \cup Neighbours(t) \cup (IF own /\ blocks[t] # <<>> THEN {t} ELSE {})

-----------------------------------------------------------------------------
(* set_experiment *)

SetExperiment(t) ==
    /\ Call(t) /\ Enter(t, "", "byname")
    /\ \E n \in ExpNames : name' = [name EXCEPT ![t] = n]
    /\ UNCHANGED <<db, shim, exp, callRun, blocks, trackHistory>>

Named(n) == {e \in expLive : expName[e] = n}

GetExperimentByName(t) ==
    /\ At(t, "byname")
    /\ \/ Reached /\ \E e \in Named(name[t]) : exp' = [exp EXCEPT ![t] = e] /\ Proceed(t, "assign")
       \/ (Unreachable \/ (Reached /\ Named(name[t]) = {})) /\ Proceed(t, "create") /\ UNCHANGED exp
    /\ UNCHANGED <<db, shim, op, name, callRun, blocks, trackHistory>>

NewExps == {e \in Exps : expName[e] = ""}
Taken(n) == \E e \in Exps : expName[e] = n

CreateExperiment(t) ==
    /\ At(t, "create")
    /\ \/ /\ Reached /\ ~Taken(name[t])
          /\ \E e \in NewExps :
                /\ \A f \in NewExps : e <= f
                /\ expName' = [expName EXCEPT ![e] = name[t]] /\ expLive' = expLive \cup {e}
                /\ exp' = [exp EXCEPT ![t] = e]
       \/ /\ Unreachable \/ (Reached /\ Taken(name[t]))
          /\ exp' = [exp EXCEPT ![t] = 0] /\ UNCHANGED <<expName, expLive>>
    /\ Proceed(t, "assign")
    /\ UNCHANGED <<runExp, runLive, status, logged, shim, op, name, callRun, blocks, trackHistory>>

AssignExperiment(t) ==
    /\ At(t, "assign") /\ current' = [current EXCEPT ![proc[t]] = exp[t]]
    /\ Done(t) /\ Reached /\ UNCHANGED <<db, stack, depth, blocks, trackHistory>>

-----------------------------------------------------------------------------
(* start_run: mlflow_create_run looks at the experiment, inserts the run and reads it again. *)

InProcess == [check |-> "check", insert |-> "insert", read |-> "read"]
ByHttp    == [check |-> "recheck", insert |-> "reinsert", read |-> "reread"]

StartsRun(t, o) ==
    /\ Enter(t, o, "check") /\ exp' = [exp EXCEPT ![t] = current[proc[t]]]
    /\ UNCHANGED <<db, stack, current, name, callRun, blocks, trackHistory>>

\* with start_run(): ..., or start_run() by itself.
StartRun(t) ==
    /\ Call(t) /\ UNCHANGED depth
    /\ \/ Len(blocks[t]) < MaxNest /\ StartsRun(t, "with")
       \/ StartsRun(t, "bare")

CheckExperiment(t, way) ==
    /\ At(t, way.check)
    /\ \/ Reached /\ exp[t] \in expLive /\ Proceed(t, way.insert)
       \/ (Unreachable \/ (Reached /\ exp[t] \notin expLive)) /\ Proceed(t, "push")
    /\ UNCHANGED <<db, shim, op, name, exp, callRun, blocks, trackHistory>>

InsertRun(t, way) ==
    /\ At(t, way.insert) /\ Reached
    /\ \E r \in RunIds \ RunRows :
          /\ \A q \in RunIds \ RunRows : r <= q
          /\ runExp' = [runExp EXCEPT ![r] = exp[t]] /\ runLive' = runLive \cup {r}
          /\ status' = [status EXCEPT ![r] = "RUNNING"]
          /\ callRun' = [callRun EXCEPT ![t] = r]
    /\ Proceed(t, way.read)
    /\ UNCHANGED <<expName, expLive, logged, shim, op, name, exp, blocks, trackHistory>>

\* A run that was deleted by now is not found: the answer is None, start_run raises, and a fit that started it
\* is over.  When the reading itself raises, the whole creation is tried the other way or given up.
ReadRun(t, way) ==
    /\ At(t, way.read)
    /\ \/ /\ Reached /\ callRun[t] \in runLive /\ Proceed(t, "push")
          /\ UNCHANGED <<depth, op, name, exp, callRun, lost>>
       \/ /\ Reached /\ callRun[t] \notin runLive /\ lost' = lost \cup {callRun[t]}
          /\ depth' = IF op[t] = "fit" THEN [depth EXCEPT ![proc[t]] = @ - 1] ELSE depth
          /\ Done(t)
       \/ /\ Unreachable /\ lost' = lost \cup {callRun[t]}
          /\ Proceed(t, IF way = InProcess THEN ByHttp.check ELSE "push")
          /\ callRun' = [callRun EXCEPT ![t] = 0] /\ UNCHANGED <<depth, op, name, exp>>
    /\ UNCHANGED <<db, stack, current, blocks, mixed>>

\* Mutant: _active_run_stack = [run_obj].
PushAlone(p, r) == stack' = [stack EXCEPT ![p] = <<r>>]

Push(p, r) == stack' = [stack EXCEPT ![p] = Append(@, r)]

PushRun(t) ==
    /\ At(t, "push") /\ Reached /\ Push(proc[t], callRun[t])
    /\ IF op[t] \in {"with", "fit"}
       THEN blocks' = [blocks EXCEPT ![t] = Append(@, [run |-> callRun[t], kind |-> op[t]])]
       ELSE UNCHANGED blocks
    /\ IF op[t] = "log" THEN Proceed(t, "top") /\ UNCHANGED <<op, name, exp, callRun>> ELSE Done(t)
    /\ Mixes(t, op[t] \in {"bare", "log"})
    /\ UNCHANGED <<db, current, depth, lost>>

-----------------------------------------------------------------------------
(* log_param, log_metric, set_tag, log_artifact: into the active run, or into a new one. *)

Log(t) ==
    /\ Call(t) /\ UNCHANGED depth
    /\ \/ /\ Stack(t) # <<>>
          /\ Enter(t, "log", "write") /\ callRun' = [callRun EXCEPT ![t] = ActiveRun(t)]
          /\ UNCHANGED <<db, stack, current, name, exp, blocks, trackHistory>>
       \/ Stack(t) = <<>> /\ StartsRun(t, "log")

\* active_run() once more: another thread may have ended the run meanwhile, and None has no run_id.
ActiveRunAgain(t) ==
    /\ At(t, "top") /\ Reached
    /\ IF Stack(t) = <<>> THEN Done(t)
       ELSE Proceed(t, "write") /\ callRun' = [callRun EXCEPT ![t] = ActiveRun(t)] /\ UNCHANGED <<op, name, exp>>
    /\ UNCHANGED <<db, shim, blocks, trackHistory>>

WriteLog(t) ==
    /\ At(t, "write")
    /\ \/ Reached /\ logged' = logged \cup ({callRun[t]} \cap RunRows)    \* the foreign key
       \/ Unreachable /\ UNCHANGED logged
    /\ Done(t)
    /\ UNCHANGED <<expName, expLive, runExp, runLive, status, shim, blocks, trackHistory>>

-----------------------------------------------------------------------------
(* _autolog_fit_wrapper.  A fit below another one is not logged. *)

\* Mutant: auto_started_run is set for a run found active, too.
OwnedAnyway(t) == [run |-> ActiveRun(t), kind |-> "fit"]

Borrowed(t) == [run |-> ActiveRun(t), kind |-> "borrowed"]

Fit(t) ==
    /\ Call(t) /\ depth[proc[t]] = 0 /\ Len(blocks[t]) < MaxNest
    /\ depth' = [depth EXCEPT ![proc[t]] = @ + 1]
    /\ \/ Stack(t) = <<>> /\ StartsRun(t, "fit")
       \/ /\ Stack(t) # <<>>
          /\ blocks' = [blocks EXCEPT ![t] = Append(@, Borrowed(t))]
          /\ UNCHANGED <<db, stack, current, thread, trackHistory>>

-----------------------------------------------------------------------------
(* end_run: by __exit__, by the wrapper of fit, or called by itself. *)

PopRun(t) ==
    /\ callRun' = [callRun EXCEPT ![t] = ActiveRun(t)]
    /\ stack' = [stack EXCEPT ![proc[t]] = Front(@)]

\* Mutant: _fit_depth is counted down only for runs autologging started.
LeaveForgetting(t) ==
    /\ blocks' = [blocks EXCEPT ![t] = Front(@)]
    /\ depth' = IF Last(blocks[t]).kind = "fit" THEN [depth EXCEPT ![proc[t]] = @ - 1] ELSE depth

\* The innermost block is left; autologging may begin again when it was a fit.
Leave(t) ==
    /\ blocks' = [blocks EXCEPT ![t] = Front(@)]
    /\ depth' = IF Last(blocks[t]).kind = "with" THEN depth ELSE [depth EXCEPT ![proc[t]] = @ - 1]

StillMixed(t) == IF Len(blocks[t]) = 1 THEN mixed \ {t} ELSE mixed

ExitBlock(t) ==
    /\ Call(t) /\ blocks[t] # <<>>
    /\ IF Last(blocks[t]).kind = "borrowed" \/ Stack(t) = <<>>
       THEN /\ Leave(t) /\ mixed' = StillMixed(t)
            /\ UNCHANGED <<stack, thread>>
       ELSE /\ Enter(t, "exit", "update") /\ PopRun(t) /\ Mixes(t, FALSE)
            /\ UNCHANGED <<depth, blocks, name, exp>>
    /\ UNCHANGED <<db, current, lost>>

EndRun(t) ==
    /\ Call(t) /\ Stack(t) # <<>>
    /\ Enter(t, "end", "update") /\ PopRun(t) /\ Mixes(t, TRUE)
    /\ UNCHANGED <<db, current, depth, blocks, name, exp, lost>>

UpdateRun(t) ==
    /\ At(t, "update")
    /\ \/ /\ Reached /\ callRun[t] \in RunRows /\ UNCHANGED lost
          /\ \E s \in Ended : status' = [status EXCEPT ![callRun[t]] = s]
       \/ /\ Unreachable \/ (Reached /\ callRun[t] \notin RunRows)
          /\ lost' = lost \cup ({callRun[t]} \cap RunRows) /\ UNCHANGED status
    /\ Done(t)
    /\ IF op[t] = "exit" THEN Leave(t) /\ mixed' = StillMixed(t)
       ELSE UNCHANGED <<blocks, depth, mixed>>
    /\ UNCHANGED <<expName, expLive, runExp, runLive, logged, stack, current>>

-----------------------------------------------------------------------------
(* A process dies, and a new one takes its place. *)

Hands     == {"read", "reread", "push", "update"}
InHandsOf(p) == {callRun[t] : t \in {u \in Threads : proc[u] = p /\ phase[u] \in Hands}}

ProcessDies(p) ==
    /\ Event
    /\ LET others(f, default) == [t \in Threads |-> IF proc[t] = p THEN default ELSE f[t]]
       IN  /\ phase' = others(phase, "idle") /\ op' = others(op, "") /\ name' = others(name, "")
           /\ exp' = others(exp, 0) /\ callRun' = others(callRun, 0) /\ blocks' = others(blocks, <<>>)
    /\ stack' = [stack EXCEPT ![p] = <<>>] /\ current' = [current EXCEPT ![p] = 0]
    /\ depth' = [depth EXCEPT ![p] = 0]
    /\ mixed' = {t \in mixed : proc[t] # p}
    /\ lost' = lost \cup ((ToSet(stack[p]) \cup InHandsOf(p)) \cap RunRows)
    /\ UNCHANGED <<db, proc>>

-----------------------------------------------------------------------------
(* Edits in the studio, each one transaction. *)

Edit == Event /\ UNCHANGED <<status, logged, runExp, shim, proc, thread, blocks, trackHistory>>

RunsOf(e) == {r \in RunIds : runExp[r] = e}

DeleteExperiment(e) ==
    /\ Edit /\ e \in expLive
    /\ expLive' = expLive \ {e} /\ runLive' = runLive \ RunsOf(e) /\ UNCHANGED expName

\* All the runs come back, those deleted one by one too.
RestoreExperiment(e) ==
    /\ Edit /\ expName[e] # "" /\ e \notin expLive
    /\ expLive' = expLive \cup {e} /\ runLive' = runLive \cup RunsOf(e) /\ UNCHANGED expName

UpdateExperiment(e, n) ==
    /\ Edit /\ expName[e] # "" /\ ~Taken(n)
    /\ expName' = [expName EXCEPT ![e] = n] /\ UNCHANGED <<expLive, runLive>>

DeleteRun(r) ==
    /\ Edit /\ r \in runLive /\ runLive' = runLive \ {r} /\ UNCHANGED <<expName, expLive>>

RestoreRun(r) ==
    /\ Edit /\ r \in RunRows \ runLive /\ runLive' = runLive \cup {r} /\ UNCHANGED <<expName, expLive>>

-----------------------------------------------------------------------------
ThreadStep(t) ==
    \/ SetExperiment(t) \/ GetExperimentByName(t) \/ CreateExperiment(t) \/ AssignExperiment(t)
    \/ StartRun(t) \/ PushRun(t)
    \/ \E way \in {InProcess, ByHttp} : CheckExperiment(t, way) \/ InsertRun(t, way) \/ ReadRun(t, way)
    \/ Log(t) \/ ActiveRunAgain(t) \/ WriteLog(t)
    \/ Fit(t) \/ ExitBlock(t) \/ EndRun(t) \/ UpdateRun(t)

Studio ==
    \/ \E e \in Exps : DeleteExperiment(e) \/ RestoreExperiment(e)
    \/ \E e \in Exps, n \in ExpNames : UpdateExperiment(e, n)
    \/ \E r \in RunIds : DeleteRun(r) \/ RestoreRun(r)

TrackingNext == (\E t \in Threads : ThreadStep(t)) \/ (\E p \in Processes : ProcessDies(p)) \/ Studio
TrackingSpec == TrackingInit /\ [][TrackingNext]_trackingVars

-----------------------------------------------------------------------------
(* Properties. *)

\* A run left RUNNING is on the stack of a process, or in the hands of the one thread that starts or ends it,
\* and otherwise one of three things happened to it: its final update failed, its process died, or it was created
\* without start_run knowing: it was deleted before it was read again, or the reading failed.
OnStack  == {r \in RunIds : \E p \in Processes : r \in ToSet(stack[p])}
AtStart  == {callRun[t] : t \in {u \in Threads : phase[u] \in Hands}}
RunsAreAccountedFor == {r \in RunIds : status[r] = "RUNNING"} \subseteq OnStack \cup AtStart \cup lost

\* As long as only its own blocks come between, a thread's innermost block has the active run: what is logged
\* goes there, its end ends that run, and a fit inside a block leaves the block's run alone.
InnermostRun(t) == Last(blocks[t]).run
BlocksKeepTheirRun == \A t \in Threads \ mixed : blocks[t] # <<>> =>
    IF phase[t] \in {"write", "update"} THEN callRun[t] = InnermostRun(t)
    ELSE Stack(t) # <<>> /\ ActiveRun(t) = InnermostRun(t)

\* Autologging is off only while a fit is under way, so that no fit turns it off for good.
FitsOf(p) == {m \in Threads \X (1..MaxNest) :
    proc[m[1]] = p /\ m[2] <= Len(blocks[m[1]]) /\ blocks[m[1]][m[2]].kind # "with"}
Fitting(p) == FitsOf(p) # {} \/ \E t \in Threads : proc[t] = p /\ op[t] = "fit"
AutologComesBack == \A p \in Processes : depth[p] > 0 <=> Fitting(p)

\* The two things fits inside blocks, blocks inside fits and failing calls may not upset.
BlocksKept == BlocksKeepTheirRun /\ AutologComesBack
=============================================================================
