-------------------------------- MODULE Alerts --------------------------------
(***************************************************************************)
(* SQL alerts (web/alerts.py): the alerts in history.db, the scheduler     *)
(* loop on the event loop, the checks it and the creation of an alert hand *)
(* to the thread pool, and the checks by hand, which block the event loop. *)
(*                                                                         *)
(* A check is a worker: a thread of the pool, or the event loop itself.    *)
(* Of time only one thing is kept: whether an alert's interval has passed  *)
(* since last_evaluated_at.                                                *)
(***************************************************************************)
EXTENDS Naturals, FiniteSets

CONSTANTS
    Alerts,      \* alert ids
    Defaults,    \* alert -> the definition it is seeded with, or Unborn
    Definitions, \* the definitions alerts are saved with
    Values,      \* what the queries may find in the warehouse
    NoQuery,     \* a definition without a query, or whose saved query is gone
    Unborn, Gone, \* an alert not created yet, or deleted
    Null,        \* the value of no row, and of NULL
    Broken,      \* a warehouse the queries fail on
    Threads,     \* threads of the pool (bound: checks at a time)
    Loop,        \* the event loop as a worker
    Keep,        \* evaluations kept per alert (bound: 100 in the code)
    Budget       \* bound: how often each of Events may happen

Events  == {"crash", "dbfail"}
Workers == Threads \cup {Loop}
States  == {"UNKNOWN", "OK", "TRIGGERED", "ERROR"}
Saved   == Definitions \cup {NoQuery}
NoAlert == {Unborn, Gone}

ASSUME AlertsAssumption == /\ Alerts # {} /\ Unborn # Gone
                           /\ Saved \cap NoAlert = {} /\ NoQuery \notin Definitions
                           /\ Defaults \in [Alerts -> Saved \cup {Unborn}]
                           /\ Loop \notin Threads
                           /\ Keep \in Nat /\ Budget \in [Events -> Nat]

VARIABLES
    \* sql_alerts and alert_evaluations.
    def,      \* query, target column, operator and threshold, or in NoAlert
    on,       \* is_enabled
    state,    \* state
    seen,     \* last_evaluated_at: "never", "fresh", or "due" once the interval passed
    kept,     \* how many rows of alert_evaluations name the alert
    \* The process.
    running,  \* _running_alert_checks
    created,  \* the alerts whose first check, by create_alert, has come back
    \* Worker -> its check.
    stage,    \* "idle", or where the check is
    of,       \* alert_id
    by,       \* who asked for it
    mine,     \* the definition it read
    found,    \* new_state
    \* The rest.
    data,     \* what the queries find
    left      \* what remains of Budget

rows   == <<def, on, state, seen, kept>>
checks == <<stage, of, by, mine, found>>
vars   == <<rows, running, created, checks, data, left>>

TypeOK ==
    /\ def \in [Alerts -> Saved \cup NoAlert] /\ on \in [Alerts -> BOOLEAN]
    /\ state \in [Alerts -> States]
    /\ seen \in [Alerts -> {"never", "fresh", "due"}]
    /\ kept \in [Alerts -> 0..Keep]
    /\ running \subseteq Alerts /\ created \subseteq Alerts
    /\ stage \in [Workers -> {"idle", "read", "query", "write", "return"}]
    /\ of \in [Workers -> Alerts]
    /\ by \in [Workers -> {"scheduler", "create", "manual"}]
    /\ mine \in [Workers -> Saved] /\ found \in [Workers -> States]
    /\ data \in Values \cup {Broken}
    /\ left \in [Events -> Nat]

Init ==
    /\ def = Defaults
    /\ on = [a \in Alerts |-> def[a] # Unborn]
    /\ state = [a \in Alerts |-> "UNKNOWN"] /\ seen = [a \in Alerts |-> "never"]
    /\ kept = [a \in Alerts |-> 0]
    /\ running = {} /\ created = {}
    /\ stage = [w \in Workers |-> "idle"]
    /\ of = [w \in Workers |-> CHOOSE a \in Alerts : TRUE]
    /\ by = [w \in Workers |-> "scheduler"]
    /\ mine = [w \in Workers |-> NoQuery] /\ found = [w \in Workers |-> "UNKNOWN"]
    /\ data \in Values
    /\ left = Budget

Spend(e) == left[e] > 0 /\ left' = [left EXCEPT ![e] = @ - 1]

LoopFree == stage[Loop] = "idle"

\* A row as INSERT leaves it.
Insert(a, d, enabled) ==
    /\ def' = [def EXCEPT ![a] = d] /\ on' = [on EXCEPT ![a] = enabled]
    /\ state' = [state EXCEPT ![a] = "UNKNOWN"] /\ seen' = [seen EXCEPT ![a] = "never"]

\* A worker is given a check.
Hand(w, a, who) ==
    /\ stage[w] = "idle"
    /\ stage' = [stage EXCEPT ![w] = "read"]
    /\ of' = [of EXCEPT ![w] = a] /\ by' = [by EXCEPT ![w] = who]
    /\ UNCHANGED <<mine, found>>

\* The thread pool's next free thread: which one it is makes no difference.
FreeThreads  == {t \in Threads : stage[t] = "idle"}
Submit(a, who) == FreeThreads # {} /\ Hand(CHOOSE t \in FreeThreads : TRUE, a, who)

-----------------------------------------------------------------------------
(* The alert API, handled on the event loop. *)

\* The first check is started at once, without an entry in _running_alert_checks.
CreateAlert(a) ==
    /\ LoopFree /\ def[a] = Unborn
    /\ \E d \in Saved, enabled \in BOOLEAN : Insert(a, d, enabled)
    /\ Submit(a, "create")
    /\ UNCHANGED <<kept, running, created, data, left>>

\* The state stays that of the old definition until the next check.
UpdateAlert(a) ==
    /\ LoopFree /\ def[a] \notin NoAlert
    /\ \E d \in Saved : def' = [def EXCEPT ![a] = d]
    /\ \E enabled \in BOOLEAN : on' = [on EXCEPT ![a] = enabled]
    /\ UNCHANGED <<state, seen, kept, running, created, checks, data, left>>

ToggleEnableAlert(a) ==
    /\ LoopFree /\ def[a] \notin NoAlert
    /\ on' = [on EXCEPT ![a] = ~@]
    /\ UNCHANGED <<def, state, seen, kept, running, created, checks, data, left>>

DeleteAlert(a) ==
    /\ LoopFree /\ def[a] \notin NoAlert
    /\ Insert(a, Gone, FALSE)
    /\ kept' = [kept EXCEPT ![a] = 0]
    /\ UNCHANGED <<running, created, checks, data, left>>

RunAlertCheck(a) ==
    /\ def[a] # Unborn
    /\ Hand(Loop, a, "manual")
    /\ UNCHANGED <<rows, running, created, data, left>>

-----------------------------------------------------------------------------
(* The scheduler loop. *)

\* The alert's interval passes.
Tick(a) ==
    /\ seen[a] = "fresh"
    /\ seen' = [seen EXCEPT ![a] = "due"]
    /\ UNCHANGED <<def, on, state, kept, running, created, checks, data, left>>

\* Mutant: an alert that was never evaluated has no interval that could pass.
DueAfterInterval(a) == seen[a] = "due"

\* is_alert_due.
IsAlertDue(a) == seen[a] # "fresh"

\* Mutant: an alert that is being checked is checked again.
SchedulerTurnAgain(a) ==
    /\ LoopFree
    /\ def[a] \notin NoAlert /\ on[a]
    /\ IsAlertDue(a)
    /\ running' = running \cup {a}
    /\ Submit(a, "scheduler")
    /\ UNCHANGED <<rows, created, data, left>>

\* What alerts_scheduler_loop does for one alert of its list.
SchedulerTurn(a) ==
    /\ LoopFree
    /\ def[a] \notin NoAlert /\ on[a]
    /\ a \notin running
    /\ IsAlertDue(a)
    /\ running' = running \cup {a}
    /\ Submit(a, "scheduler")
    /\ UNCHANGED <<rows, created, data, left>>

-----------------------------------------------------------------------------
(* A check. *)

\* evaluate_condition.  A value, like a threshold, has its number if it reads as
\* one, and its places among the texts with and without regard to case.
Holds(op, x, y) == CASE op = ">"  -> x > y
                     [] op = ">=" -> x >= y
                     [] op = "<"  -> x < y
                     [] op = "<=" -> x <= y
                     [] op = "="  -> x = y
                     [] op = "!=" -> x # y
                     [] OTHER     -> FALSE

Compare(op, x, y) ==
    IF x.numeric /\ y.numeric THEN Holds(op, x.number, y.number)
    ELSE IF op \in {"=", "!="} THEN Holds(op, x.folded, y.folded)
    ELSE Holds(op, x.text, y.text)

Breached(x, d) == CASE d.op = "is_null"     -> x = Null
                    [] d.op = "is_not_null" -> x # Null
                    [] OTHER -> x # Null /\ Compare(d.op, x, d.threshold)

Verdict(d, x) == IF x = Broken THEN "ERROR"
                 ELSE IF Breached(x, d) THEN "TRIGGERED" ELSE "OK"

At(w, s)   == stage[w] = s
GoTo(w, s) == stage' = [stage EXCEPT ![w] = s]
Rest(w)    == GoTo(w, "idle") /\ by' = [by EXCEPT ![w] = "scheduler"] /\ UNCHANGED of
Over(w)    == GoTo(w, "return") /\ found' = [found EXCEPT ![w] = "UNKNOWN"]

\* Without an alert or a query the check ends here, and the alert stays due.
ReadAlert(w) ==
    /\ At(w, "read")
    /\ LET d == def[of[w]]
       IN  \/ /\ d \in Definitions
              /\ mine' = [mine EXCEPT ![w] = d] /\ GoTo(w, "query")
           \/ /\ d \notin Definitions
              /\ GoTo(w, "return") /\ UNCHANGED mine
    /\ UNCHANGED <<rows, running, created, of, by, found, data, left>>

RunQuery(w) ==
    /\ At(w, "query")
    /\ found' = [found EXCEPT ![w] = Verdict(mine[w], data)]
    /\ mine' = [mine EXCEPT ![w] = NoQuery]
    /\ GoTo(w, "write")
    /\ UNCHANGED <<rows, running, created, of, by, data, left>>

\* Mutant: the alert's row is put back if it is gone.
Upsert(w) ==
    LET a == of[w]
    IN  /\ At(w, "write")
        /\ def' = [def EXCEPT ![a] = IF @ \in NoAlert THEN NoQuery ELSE @]
        /\ state' = [state EXCEPT ![a] = found[w]]
        /\ seen' = [seen EXCEPT ![a] = "fresh"]
        /\ kept' = [kept EXCEPT ![a] = IF @ < Keep THEN @ + 1 ELSE Keep]
        /\ Over(w)
        /\ UNCHANGED <<on, running, created, of, by, mine, data, left>>

\* One transaction: the alert's row, unless it was deleted meanwhile, a row of
\* alert_evaluations in any case (foreign keys are not enforced), and the pruning.
WriteBack(w) ==
    LET a == of[w]
    IN  /\ At(w, "write")
        /\ IF def[a] \in NoAlert
           THEN UNCHANGED <<state, seen>>
           ELSE /\ state' = [state EXCEPT ![a] = found[w]]
                /\ seen' = [seen EXCEPT ![a] = "fresh"]
        /\ kept' = [kept EXCEPT ![a] = IF @ < Keep THEN @ + 1 ELSE Keep]
        /\ Over(w)
        /\ UNCHANGED <<def, on, running, created, of, by, mine, data, left>>

WriteFails(w) ==
    /\ At(w, "write") /\ Spend("dbfail")
    /\ Over(w)
    /\ UNCHANGED <<rows, running, created, of, by, mine, data>>

\* The end of a check in the pool is handled on the event loop: it drops the
\* alert's entry, its own or not.
Discard(t) ==
    /\ At(t, "return") /\ LoopFree
    /\ Rest(t)
    /\ running' = running \ {of[t]}
    /\ created' = IF by[t] = "create" THEN created \cup {of[t]} ELSE created
    /\ UNCHANGED <<rows, mine, found, data, left>>

Respond ==
    /\ At(Loop, "return")
    /\ Rest(Loop)
    /\ UNCHANGED <<rows, running, created, mine, found, data, left>>

-----------------------------------------------------------------------------
\* Somebody writes to the warehouse.
DataChanges ==
    /\ data' \in (Values \cup {Broken}) \ {data}
    /\ UNCHANGED <<rows, running, created, checks, left>>

\* The studio dies and starts again.  An empty table is seeded anew.
Crash ==
    /\ Spend("crash")
    /\ stage' = [w \in Workers |-> "idle"]
    /\ running' = {} /\ created' = {}
    /\ IF \A a \in Alerts : def[a] \in NoAlert
       THEN LET back == {a \in Alerts : Defaults[a] # Unborn}
            IN  /\ def' = [a \in Alerts |-> IF a \in back THEN Defaults[a] ELSE def[a]]
                /\ on' = [a \in Alerts |-> a \in back]
       ELSE UNCHANGED <<def, on>>
    /\ mine' = [w \in Workers |-> NoQuery] /\ found' = [w \in Workers |-> "UNKNOWN"]
    /\ by' = [w \in Workers |-> "scheduler"]
    /\ UNCHANGED <<state, seen, kept, of, data>>

CheckStep(w) == ReadAlert(w) \/ RunQuery(w) \/ WriteBack(w) \/ WriteFails(w)

Next == \/ \E a \in Alerts : \/ CreateAlert(a) \/ UpdateAlert(a) \/ ToggleEnableAlert(a)
                             \/ DeleteAlert(a) \/ RunAlertCheck(a)
                             \/ Tick(a) \/ SchedulerTurn(a)
        \/ \E w \in Workers : CheckStep(w)
        \/ \E t \in Threads : Discard(t)
        \/ Respond \/ DataChanges \/ Crash

Spec == Init /\ [][Next]_vars

\* Time passes and threads run.  A callback that is ready waits for the event loop
\* but is not overtaken for ever by requests that block it.
Fairness == /\ \A a \in Alerts : WF_vars(Tick(a)) /\ SF_vars(SchedulerTurn(a))
            /\ \A w \in Workers : WF_vars(CheckStep(w))
            /\ \A t \in Threads : SF_vars(Discard(t))
            /\ WF_vars(Respond)

LiveSpec == Spec /\ Fairness

-----------------------------------------------------------------------------
(* Properties. *)

\* The checks of an alert that somebody asked for and that have not come back.
Active(a, who) == {w \in Workers : of[w] = a /\ by[w] = who /\ stage[w] # "idle"}
Scheduled(a)   == Active(a, "scheduler")

\* The scheduler has one check of an alert at a time.  The check that create_alert
\* starts is not in _running_alert_checks and yet takes the alert out of it when it
\* comes back: from then on there may be two, and never three.
ScheduledOverlap ==
    \A a \in Alerts :
        /\ a \notin created => \A v, w \in Scheduled(a) : v = w
        /\ \A u, v, w \in Scheduled(a) : u = v \/ v = w \/ u = w

\* A deleted alert stays deleted, whatever checks of it were under way.  Only a
\* restart that finds no alert at all brings the seeded ones back.
DeletedStaysDeleted ==
    [][\A a \in Alerts : def[a] = Gone =>
         \/ def'[a] = Gone
         \/ Defaults[a] # Unborn /\ \A b \in Alerts : def[b] \in NoAlert]_vars

\* When an enabled alert is no longer edited and its data no longer changes, its
\* state comes to tell what its definition makes of the data and stays that way,
\* although checks that saw an older definition, or older data, may end late.
StateCatchesUp ==
    \A a \in Alerts, d \in Definitions, x \in Values \cup {Broken} :
        <>[](def[a] = d /\ on[a] /\ data = x) => <>[](state[a] = Verdict(d, x))
=============================================================================
