-------------------------------- MODULE Queries --------------------------------
(***************************************************************************)
(* Queries of the SQL editor (web/app.py, execute_sql and cancel_query;    *)
(* web/compute_worker.py): where a statement is tried, what a cancellation *)
(* reaches, and the row the query leaves in the history.                   *)
(*                                                                         *)
(* The handlers run on the event loop, a statement in a thread: on the     *)
(* worker of its warehouse under each of its addresses, in the Ray pool,   *)
(* and at last on the studio's own engine.  Every place but the last is    *)
(* given up silently.  A statement that changes Delta tables runs on the   *)
(* one connection all such statements of a process share, any other on a   *)
(* cursor of its own.  A statement that fails changes nothing.             *)
(***************************************************************************)
EXTENDS Integers, FiniteSets, Functions

CONSTANTS
    Clicks,      \* runs of the editor; each has an execution id of its own
    Kinds,       \* statements: [changes |-> BOOLEAN, shared |-> BOOLEAN]
    Addresses,   \* how many addresses of the worker are tried
    RayWorkers,  \* TRUE if the warehouse has a pool of Ray actors
    MaxLost      \* bound: dispatches to the worker that are given up

ASSUME QueryAssumption ==
    /\ Kinds # {} /\ Kinds \subseteq [changes : BOOLEAN, shared : BOOLEAN]
    /\ Addresses \in Nat /\ RayWorkers \in BOOLEAN /\ MaxLost \in Nat
    /\ Clicks \cap (Clicks \X (1..Addresses)) = {}   \* a statement runs at a run or at a request, not at both

Jobs == Clicks \X (1..Addresses)   \* requests to the worker

VARIABLES
    quAt,        \* where each run is; "waiting" for the shared connection and "running" are on the studio's engine
    quKind,      \* its statement
    quAddress,   \* active_entry["endpoint"], as a number; 0 before the first
    quCursor,    \* active_entry["cursor"]: "none", "own" or "shared"
    quAsked,     \* active_entry["cancelled"]
    quActive,    \* ACTIVE_QUERIES
    quResult,    \* what its thread returned or raised
    quStatus,    \* its row in query_history; "none" if there is none
    quForward,   \* the run whose cancellation the event loop is passing on
    wkAt,        \* where each request is, in the worker
    wkEntry,     \* ACTIVE_WORKER_QUERIES: for each execution id, the requests whose entry it is
    wkAsked,     \* requests whose entry says cancelled
    wkAnswer,    \* what each request is answered with
    quHit,       \* runs and requests whose running statement has been interrupted
    quEffects, quLost   \* history: changes made, and dispatches given up, for each run

queryVars == <<quAt, quKind, quAddress, quCursor, quAsked, quActive, quResult, quStatus, quForward,
               wkAt, wkEntry, wkAsked, wkAnswer, quHit, quEffects, quLost>>

QueryInit ==
    /\ quAt = [c \in Clicks |-> "new"] /\ quKind \in [Clicks -> Kinds]
    /\ quAddress = [c \in Clicks |-> 0] /\ quCursor = [c \in Clicks |-> "none"]
    /\ quAsked = [c \in Clicks |-> FALSE] /\ quActive = {} /\ quForward = {}
    /\ quResult = [c \in Clicks |-> "none"] /\ quStatus = [c \in Clicks |-> "none"]
    /\ wkAt = [j \in Jobs |-> "none"] /\ wkEntry = [c \in Clicks |-> {}]
    /\ wkAsked = {} /\ wkAnswer = [j \in Jobs |-> "none"]
    /\ quHit = {} /\ quEffects = [c \in Clicks |-> 0] /\ quLost = [c \in Clicks |-> 0]

\* A handler's step on the event loop, which a cancellation blocks while it is passed on.
OnLoop == quForward = {}

-----------------------------------------------------------------------------
(* Statements: at a run of the studio or at a request of the worker.       *)

SharedInStudio == {c \in Clicks : quAt[c] = "running" /\ quCursor[c] = "shared"}
SharedInWorker == {j \in Jobs : wkAt[j] = "running" /\ quKind[j[1]].shared}

\* How a running statement ends: an interruption may come too late.
Outcomes(site) == {"ok", "error"} \cup (IF site \in quHit THEN {"interrupted"} ELSE {})

Effect(c, outcome) ==
    quEffects' = [quEffects EXCEPT ![c] = IF outcome = "ok" /\ quKind[c].changes THEN @ + 1 ELSE @]

-----------------------------------------------------------------------------
(* execute_sql. *)

\* Permissions and the warehouse, until the query is given to the governance layer.
Submit(c) ==
    /\ OnLoop /\ quAt[c] = "new" /\ quAt' = [quAt EXCEPT ![c] = "governing"]
    /\ UNCHANGED <<quKind, quAddress, quCursor, quAsked, quActive, quResult, quStatus, quForward,
                   wkAt, wkEntry, wkAsked, wkAnswer, quHit, quEffects, quLost>>

Register(c) ==
    /\ OnLoop /\ quAt[c] = "governing"
    /\ \/ quAt' = [quAt EXCEPT ![c] = "over"] /\ quStatus' = [quStatus EXCEPT ![c] = "FAILED"]
          /\ UNCHANGED quActive
       \/ quAt' = [quAt EXCEPT ![c] = "trying"] /\ quActive' = quActive \cup {c} /\ UNCHANGED quStatus
    /\ UNCHANGED <<quKind, quAddress, quCursor, quAsked, quResult, quForward,
                   wkAt, wkEntry, wkAsked, wkAnswer, quHit, quEffects, quLost>>

\* The thread takes the next address; the worker may not be there.
Dispatch(c) ==
    /\ quAt[c] = "trying" /\ quAddress[c] < Addresses
    /\ LET k == quAddress[c] + 1
       IN  /\ quAddress' = [quAddress EXCEPT ![c] = k]
           /\ \/ UNCHANGED <<quAt, wkAt>>
              \/ quAt' = [quAt EXCEPT ![c] = "remote"] /\ wkAt' = [wkAt EXCEPT ![<<c, k>>] = "received"]
    /\ UNCHANGED <<quKind, quCursor, quAsked, quActive, quResult, quStatus, quForward,
                   wkEntry, wkAsked, wkAnswer, quHit, quEffects, quLost>>

\* Whatever a worker answers is final, a failure too.
TakeAnswer(c) ==
    /\ quAt[c] = "remote" /\ wkAnswer[<<c, quAddress[c]>>] # "none"
    /\ quResult' = [quResult EXCEPT ![c] = wkAnswer[<<c, quAddress[c]>>]]
    /\ quAt' = [quAt EXCEPT ![c] = "ran"]
    /\ UNCHANGED <<quKind, quAddress, quCursor, quAsked, quActive, quStatus, quForward,
                   wkAt, wkEntry, wkAsked, wkAnswer, quHit, quEffects, quLost>>

\* After 45 seconds, or when the connection breaks; the worker goes on.
GiveUp(c) ==
    /\ quAt[c] = "remote" /\ FoldFunction(+, 0, quLost) < MaxLost
    /\ quLost' = [quLost EXCEPT ![c] = @ + 1]
    /\ quAt' = [quAt EXCEPT ![c] = "trying"]
    /\ UNCHANGED <<quKind, quAddress, quCursor, quAsked, quActive, quResult, quStatus, quForward,
                   wkAt, wkEntry, wkAsked, wkAnswer, quHit, quEffects>>

\* The pool reads only, and what it cannot do is left to the studio's engine.
TryRay(c) ==
    /\ quAt[c] = "trying" /\ quAddress[c] = Addresses
    /\ \/ RayWorkers /\ ~quKind[c].changes
          /\ quAt' = [quAt EXCEPT ![c] = "ran"] /\ quResult' = [quResult EXCEPT ![c] = "ok"]
       \/ quAt' = [quAt EXCEPT ![c] = "local"] /\ UNCHANGED quResult
    /\ UNCHANGED <<quKind, quAddress, quCursor, quAsked, quActive, quStatus, quForward,
                   wkAt, wkEntry, wkAsked, wkAnswer, quHit, quEffects, quLost>>

\* Mutant: no cursor of its own.
OneCursor(c) == "shared"

CursorFor(c) == IF quKind[c].shared THEN "shared" ELSE "own"

StartLocal(c) ==
    /\ quAt[c] = "local"
    /\ quCursor' = [quCursor EXCEPT ![c] = CursorFor(c)]
    /\ quAt' = [quAt EXCEPT ![c] = IF CursorFor(c) = "shared" THEN "waiting" ELSE "running"]
    /\ UNCHANGED <<quKind, quAddress, quAsked, quActive, quResult, quStatus, quForward,
                   wkAt, wkEntry, wkAsked, wkAnswer, quHit, quEffects, quLost>>

TakeConnection(c) ==
    /\ quAt[c] = "waiting" /\ SharedInStudio = {}
    /\ quAt' = [quAt EXCEPT ![c] = "running"]
    /\ UNCHANGED <<quKind, quAddress, quCursor, quAsked, quActive, quResult, quStatus, quForward,
                   wkAt, wkEntry, wkAsked, wkAnswer, quHit, quEffects, quLost>>

FinishLocal(c) ==
    /\ quAt[c] = "running"
    /\ \E outcome \in Outcomes(c) :
           /\ Effect(c, outcome)
           /\ quResult' = [quResult EXCEPT ![c] =
                 CASE outcome = "error" -> "raised" [] outcome = "interrupted" -> "cancelled" [] OTHER -> outcome]
    /\ quAt' = [quAt EXCEPT ![c] = "ran"]
    /\ quHit' = quHit \ {c}
    /\ UNCHANGED <<quKind, quAddress, quCursor, quAsked, quActive, quStatus, quForward,
                   wkAt, wkEntry, wkAsked, wkAnswer, quLost>>

\* Mutant: the flag decides before the result does.
StatusByFlag(c) ==
    IF quAsked[c] THEN "CANCELLED" ELSE IF quResult[c] = "ok" THEN "SUCCESS" ELSE "FAILED"

\* Only where the studio's own engine raised does the flag of the entry decide.
Status(c) ==
    CASE quResult[c] = "ok"                                              -> "SUCCESS"
      [] quResult[c] = "cancelled" \/ (quResult[c] = "raised" /\ quAsked[c]) -> "CANCELLED"
      [] OTHER                                                           -> "FAILED"

\* Lineage, the row of the history and the answer; then the entry goes.
Report(c) ==
    /\ OnLoop /\ quAt[c] = "ran"
    /\ quStatus' = [quStatus EXCEPT ![c] = Status(c)]
    /\ quAt' = [quAt EXCEPT ![c] = "over"] /\ quActive' = quActive \ {c}
    /\ UNCHANGED <<quKind, quAddress, quCursor, quAsked, quResult, quForward,
                   wkAt, wkEntry, wkAsked, wkAnswer, quHit, quEffects, quLost>>

-----------------------------------------------------------------------------
(* cancel_query. *)

\* cursor.interrupt() stops what is running on the cursor, whosever it is.
Interrupted(c) ==
    CASE quCursor[c] = "shared" -> SharedInStudio
      [] quCursor[c] = "own" /\ quAt[c] = "running" -> {c}
      [] OTHER -> {}

Cancel(c) ==
    /\ OnLoop /\ c \in quActive
    /\ quAsked' = [quAsked EXCEPT ![c] = TRUE]
    /\ quHit' = quHit \cup Interrupted(c)
    /\ quForward' = IF quAddress[c] > 0 THEN {c} ELSE {}
    /\ UNCHANGED <<quAt, quKind, quAddress, quCursor, quActive, quResult, quStatus,
                   wkAt, wkEntry, wkAsked, wkAnswer, quEffects, quLost>>

\* The worker's cancel_worker_query, or five seconds without it.
Forward(c) ==
    /\ c \in quForward /\ quForward' = {}
    /\ \/ /\ wkAsked' = wkAsked \cup wkEntry[c]
          /\ quHit' = quHit \cup (IF wkEntry[c] # {} /\ quKind[c].shared THEN SharedInWorker
                                  ELSE {j \in wkEntry[c] : wkAt[j] = "running"})
       \/ UNCHANGED <<wkAsked, quHit>>
    /\ UNCHANGED <<quAt, quKind, quAddress, quCursor, quAsked, quActive, quResult, quStatus,
                   wkAt, wkEntry, wkAnswer, quEffects, quLost>>

-----------------------------------------------------------------------------
(* The worker's execute_query.  The entry belongs to the execution id: a   *)
(* second request for it takes the entry over, and either one removes it.  *)

Enter(j) ==
    /\ wkAt[j] = "received" /\ wkAt' = [wkAt EXCEPT ![j] = "entered"]
    /\ wkEntry' = [wkEntry EXCEPT ![j[1]] = {j}]
    /\ UNCHANGED <<quAt, quKind, quAddress, quCursor, quAsked, quActive, quResult, quStatus, quForward,
                   wkAsked, wkAnswer, quHit, quEffects, quLost>>

SaysCancelled(j) == wkEntry[j[1]] \cap wkAsked # {}

Leave(j, answer) ==
    /\ wkAt' = [wkAt EXCEPT ![j] = "over"]
    /\ wkEntry' = [wkEntry EXCEPT ![j[1]] = {}]
    /\ wkAnswer' = [wkAnswer EXCEPT ![j] = answer]

StartOnWorker(j) ==
    /\ wkAt[j] = "entered"
    /\ \/ SaysCancelled(j) /\ Leave(j, "cancelled")
       \/ ~SaysCancelled(j)
          /\ wkAt' = [wkAt EXCEPT ![j] = IF quKind[j[1]].shared THEN "waiting" ELSE "running"]
          /\ UNCHANGED <<wkEntry, wkAnswer>>
    /\ UNCHANGED <<quAt, quKind, quAddress, quCursor, quAsked, quActive, quResult, quStatus, quForward,
                   wkAsked, quHit, quEffects, quLost>>

TakeWorkersConnection(j) ==
    /\ wkAt[j] = "waiting" /\ SharedInWorker = {}
    /\ wkAt' = [wkAt EXCEPT ![j] = "running"]
    /\ UNCHANGED <<quAt, quKind, quAddress, quCursor, quAsked, quActive, quResult, quStatus, quForward,
                   wkEntry, wkAsked, wkAnswer, quHit, quEffects, quLost>>

FinishOnWorker(j) ==
    /\ wkAt[j] = "running"
    /\ \E outcome \in Outcomes(j) :
           /\ Effect(j[1], outcome)
           /\ Leave(j, IF outcome = "ok" THEN "ok"
                       ELSE IF outcome = "interrupted" \/ SaysCancelled(j) THEN "cancelled" ELSE "failed")
    /\ quHit' = quHit \ {j}
    /\ UNCHANGED <<quAt, quKind, quAddress, quCursor, quAsked, quActive, quResult, quStatus, quForward,
                   wkAsked, quLost>>

QueryNext ==
    \/ \E c \in Clicks :
           \/ Submit(c) \/ Register(c) \/ Dispatch(c) \/ TakeAnswer(c) \/ GiveUp(c) \/ TryRay(c)
           \/ StartLocal(c) \/ TakeConnection(c) \/ FinishLocal(c) \/ Report(c)
           \/ Cancel(c) \/ Forward(c)
    \/ \E j \in Jobs : Enter(j) \/ StartOnWorker(j) \/ TakeWorkersConnection(j) \/ FinishOnWorker(j)

QuerySpec == QueryInit /\ [][QueryNext]_queryVars

-----------------------------------------------------------------------------
\* What the history says of a statement is what became of it: one that is reported to have failed or to be
\* cancelled has changed nothing, and one that succeeded has made its change once, except that each request
\* the studio gave up may have made, or make later, the change too.
EffectsExplained ==
    \A c \in Clicks : quStatus[c] # "none" =>
        /\ quEffects[c] - quLost[c] <= (IF quStatus[c] = "SUCCESS" THEN 1 ELSE 0)
        /\ quStatus[c] = "SUCCESS" /\ quKind[c].changes => quEffects[c] >= 1

\* Cancelling one query cancels no other, except among those that share a connection.
CancelsExplained ==
    \A c \in Clicks : quStatus[c] = "CANCELLED" =>
        quAsked[c] \/ (quKind[c].shared /\ \E d \in Clicks \ {c} : quKind[d].shared /\ quAsked[d])

\* What the history of queries says of a statement and of its cancellation.
StatementsExplained == EffectsExplained /\ CancelsExplained
================================================================================
