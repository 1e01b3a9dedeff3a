-------------------------------- MODULE Tracing --------------------------------
(***************************************************************************)
(* Traces of MLflow: the spans user code opens (web/mlflow_shim.py,        *)
(* start_span and what is built on it), and the tables in which a trace is *)
(* kept together with its feedback (web/experiments.py).                   *)
(*                                                                         *)
(* Spans are blocks.  The tasks of a thread (coroutines and generators)    *)
(* take turns inside their blocks, and share the thread's one context:     *)
(* blocks of a task are nested, those of a thread need not be.  When the   *)
(* block that began a trace ends, the thread stores the trace: in its own  *)
(* process, or else by a request to the studio, whose answer it ignores.   *)
(* A trace is named by the span that began it.  Times, statuses and what   *)
(* a span carries are left out.                                            *)
(***************************************************************************)
EXTENDS Integers, FiniteSets, SequencesExt

CONSTANTS
    Tasks, Home,   \* tasks, and the thread of each
    Server,        \* the event loop of the studio
    MaxSpans,      \* bound: spans
    Demo,          \* the demonstration traces
    MaxAsked,      \* bound: requests to read, rate or delete a trace
    MaxBusy        \* bound: statements that fail (the database is locked)

ASSUME TracingAssumption ==
    /\ Server \notin Tasks /\ DOMAIN Home = Tasks
    /\ Demo # {} /\ Demo \cap Nat = {}
    /\ MaxSpans \in Nat /\ MaxAsked \in Nat /\ MaxBusy \in Nat

\* Ids are drawn at random; here they are numbers, in the order they are drawn in.
Spans == 1..MaxSpans
NoSpan == 0

Contexts == {Home[k] : k \in Tasks}
Traces == Spans \cup Demo
TraceCallers == Tasks \cup {Server}
NoRequest == [op |-> "none", trace |-> NoSpan, spans |-> {}, stored |-> FALSE]

VARIABLES
    scTrace, scStack, scRecorded,  \* each thread's active_trace, span_stack and recorded_spans
    spOpen,                        \* the blocks each task is in
    spTrace, spParent,             \* of each span: request_id and parent_id
    spGiven, spEnded,              \* spans whose parent was an argument; spans that have ended
    trAt, trCall,                  \* for each caller: where it is in its call, and the call
    tbTraces, tbSpans, tbRated,    \* the tables; tbRated: traces with an assessment
    trAsked, trBusy,
    spLate, spUneven,              \* history: spans begun under an ended parent; spans that ended below others
    trRated, trDeleted,            \* history: traces that were rated since they were last deleted; deleted ones
    trRepeated, trReseeded         \* history: traces stored by a repeated call; a seeding of a filled table

contextVars == <<scTrace, scStack, scRecorded, spOpen, spTrace, spParent, spGiven, spEnded, spLate, spUneven>>
tableVars == <<tbTraces, tbSpans, tbRated, trRated, trDeleted, trRepeated, trReseeded>>
tracingVars == <<contextVars, tableVars, trAt, trCall, trAsked, trBusy>>

TracingInit ==
    /\ scTrace = [h \in Contexts |-> NoSpan] /\ scStack = [h \in Contexts |-> <<>>]
    /\ scRecorded = [h \in Contexts |-> {}] /\ spOpen = [k \in Tasks |-> <<>>]
    /\ spTrace = [s \in Spans |-> NoSpan] /\ spParent = [s \in Spans |-> NoSpan]
    /\ spGiven = {} /\ spEnded = {} /\ spLate = {} /\ spUneven = {}
    /\ trAt = [c \in TraceCallers |-> "idle"] /\ trCall = [c \in TraceCallers |-> NoRequest]
    /\ tbTraces = {} /\ tbSpans = [t \in Spans |-> {}] /\ tbRated = {}
    /\ trAsked = 0 /\ trBusy = 0
    /\ trRated = {} /\ trDeleted = {} /\ trRepeated = {} /\ trReseeded = FALSE

Begun == {s \in Spans : spTrace[s] # NoSpan}
Idle(c) == trAt[c] = "idle"
\* A call blocks the thread it is made on.
Free(k) == \A other \in Tasks : Home[other] = Home[k] => Idle(other)

-----------------------------------------------------------------------------
(* Blocks. *)

\* Mutant: what is left on the stack stays there.
StackKept(h) == scStack[h]

\* The stack before a trace begins, and after it has ended.
NewStack(h) == <<>>

\* start_span, up to its yield; given is parent_span.
BeginSpan(k, given) ==
    LET h      == Home[k]
        root   == scTrace[h] = NoSpan
        stack  == IF root THEN NewStack(h) ELSE scStack[h]
        parent == IF given # NoSpan THEN given ELSE IF stack = <<>> THEN NoSpan ELSE Last(stack)
    IN  /\ Free(k) /\ given \in Begun \cup {NoSpan}
        /\ LET s == Cardinality(Begun) + 1
           IN  /\ s \in Spans
               /\ scTrace' = IF root THEN [scTrace EXCEPT ![h] = s] ELSE scTrace
               /\ scStack' = [scStack EXCEPT ![h] = Append(stack, s)]
               /\ scRecorded' = [scRecorded EXCEPT ![h] = (IF root THEN {} ELSE @) \cup {s}]
               /\ spTrace' = [spTrace EXCEPT ![s] = scTrace'[h]]
               /\ spParent' = [spParent EXCEPT ![s] = parent]
               /\ spOpen' = [spOpen EXCEPT ![k] = Append(@, s)]
               /\ spGiven' = IF given = NoSpan THEN spGiven ELSE spGiven \cup {s}
               /\ spLate' = IF given = NoSpan /\ parent \in spEnded THEN spLate \cup {s} ELSE spLate
        /\ UNCHANGED <<spEnded, spUneven, tableVars, trAt, trCall, trAsked, trBusy>>

\* Its finally clause, however the block is left.  The one that began the trace goes on to store it, and
\* leaves the thread's context as new; nothing looks at the context before it has.
EndSpan(k) ==
    /\ Free(k) /\ spOpen[k] # <<>>
    /\ LET h == Home[k]
           s == Last(spOpen[k])
           top == scStack[h] # <<>> /\ Last(scStack[h]) = s
           stack == IF top THEN Front(scStack[h]) ELSE scStack[h]
       IN  /\ spOpen' = [spOpen EXCEPT ![k] = Front(@)] /\ spEnded' = spEnded \cup {s}
           /\ spUneven' = IF top THEN spUneven ELSE spUneven \cup {s}
           /\ IF spTrace[s] = s
              THEN /\ scTrace' = [scTrace EXCEPT ![h] = NoSpan]
                   /\ scStack' = [scStack EXCEPT ![h] = NewStack(h)] /\ scRecorded' = [scRecorded EXCEPT ![h] = {}]
                   /\ trAt' = [trAt EXCEPT ![k] = "called"]
                   /\ trCall' = [trCall EXCEPT ![k] =
                                    [op |-> "log", trace |-> scTrace[h], spans |-> scRecorded[h], stored |-> FALSE]]
              ELSE scStack' = [scStack EXCEPT ![h] = stack] /\ UNCHANGED <<scTrace, scRecorded, trAt, trCall>>
    /\ UNCHANGED <<spTrace, spParent, spGiven, spLate, tableVars, trAsked, trBusy>>

-----------------------------------------------------------------------------
(* Calls.  Each begins with init_experiments_db, and storing a trace ends  *)
(* with a read, which does so too.                                         *)

\* Someone who knows a trace's name reads, rates or deletes it, or lists the traces.
Ask(c, op, t) ==
    /\ Idle(c) /\ (c \in Tasks => Free(c))
    /\ t \in Demo \cup Begun /\ trAsked < MaxAsked /\ trAsked' = trAsked + 1
    /\ trAt' = [trAt EXCEPT ![c] = "called"]
    /\ trCall' = [trCall EXCEPT ![c] = [op |-> op, trace |-> t, spans |-> {}, stored |-> FALSE]]
    /\ UNCHANGED <<contextVars, tableVars, trBusy>>

NeedsSeeds == tbTraces = {}

CountTraces(c) ==
    /\ trAt[c] = "called"
    /\ trAt' = [trAt EXCEPT ![c] = IF NeedsSeeds THEN "seeding" ELSE "ready"]
    /\ UNCHANGED <<contextVars, tableVars, trCall, trAsked, trBusy>>

\* The rows are replaced, and a replaced trace loses what refers to it.
SeedTraces(c) ==
    /\ trAt[c] = "seeding" /\ trAt' = [trAt EXCEPT ![c] = "ready"]
    /\ tbTraces' = tbTraces \cup Demo /\ tbRated' = tbRated \ Demo
    /\ trReseeded' = (trReseeded \/ tbTraces # {})
    /\ UNCHANGED <<contextVars, tbSpans, trRated, trDeleted, trRepeated, trCall, trAsked, trBusy>>

\* INSERT OR REPLACE of the trace and of its spans, in one transaction.
LogTrace(c) ==
    /\ trAt[c] = "ready" /\ trCall[c].op = "log" /\ ~trCall[c].stored
    /\ LET t == trCall[c].trace
       IN  tbTraces' = tbTraces \cup {t} /\ tbRated' = tbRated \ {t}
           /\ tbSpans' = [tbSpans EXCEPT ![t] = trCall[c].spans]
    /\ trCall' = [trCall EXCEPT ![c].stored = TRUE] /\ trAt' = [trAt EXCEPT ![c] = "called"]
    /\ UNCHANGED <<contextVars, trRated, trDeleted, trRepeated, trReseeded, trAsked, trBusy>>

GetTrace(c) ==
    /\ trAt[c] = "ready" /\ (trCall[c].op = "read" \/ trCall[c].stored)
    /\ trAt' = [trAt EXCEPT ![c] = "idle"] /\ trCall' = [trCall EXCEPT ![c] = NoRequest]
    /\ UNCHANGED <<contextVars, tableVars, trAsked, trBusy>>

DeleteTrace(c) ==
    /\ trAt[c] = "ready" /\ trCall[c].op = "delete"
    /\ LET t == trCall[c].trace
       IN  /\ tbTraces' = tbTraces \ {t} /\ tbRated' = tbRated \ {t}
           /\ tbSpans' = IF t \in Spans THEN [tbSpans EXCEPT ![t] = {}] ELSE tbSpans
           /\ trDeleted' = IF tbTraces \subseteq {t} THEN (trDeleted \cup tbTraces) \ Demo
                           ELSE trDeleted \cup (tbTraces \cap {t})
           /\ trRated' = trRated \ {t}
    /\ trAt' = [trAt EXCEPT ![c] = "idle"] /\ trCall' = [trCall EXCEPT ![c] = NoRequest]
    /\ UNCHANGED <<contextVars, trRepeated, trReseeded, trAsked, trBusy>>

\* The foreign key wants the trace to be there.
LogAssessment(c) ==
    /\ trAt[c] = "ready" /\ trCall[c].op = "rate" /\ trCall[c].trace \in tbTraces
    /\ tbRated' = tbRated \cup {trCall[c].trace} /\ trRated' = trRated \cup {trCall[c].trace}
    /\ trAt' = [trAt EXCEPT ![c] = "idle"] /\ trCall' = [trCall EXCEPT ![c] = NoRequest]
    /\ UNCHANGED <<contextVars, tbTraces, tbSpans, trDeleted, trRepeated, trReseeded, trAsked, trBusy>>

\* What init_experiments_db cannot do is only written to the log.
SeedingFails(c) ==
    /\ trAt[c] = "seeding" /\ trBusy < MaxBusy /\ trBusy' = trBusy + 1
    /\ trAt' = [trAt EXCEPT ![c] = "ready"]
    /\ UNCHANGED <<contextVars, tableVars, trCall, trAsked>>

\* _call_api asks the studio to do what raised an error in its own process.
CallFails(c) ==
    /\ trAt[c] = "ready"
    /\ \/ trBusy < MaxBusy /\ trBusy' = trBusy + 1
       \/ trCall[c].op = "rate" /\ trCall[c].trace \notin tbTraces /\ UNCHANGED trBusy
    /\ IF c = Server THEN trAt' = [trAt EXCEPT ![c] = "idle"] /\ trCall' = [trCall EXCEPT ![c] = NoRequest]
                     ELSE trAt' = [trAt EXCEPT ![c] = "asking"] /\ UNCHANGED trCall
    /\ UNCHANGED <<contextVars, tableVars, trAsked>>

\* The request reaches the studio, or it does not.
AskStudio(k) ==
    /\ trAt[k] = "asking"
    /\ \/ /\ Idle(Server)
          /\ trCall' = [trCall EXCEPT ![Server] = [trCall[k] EXCEPT !.stored = FALSE]]
          /\ trAt' = [trAt EXCEPT ![Server] = "called", ![k] = "asked"]
          /\ trRepeated' = IF trCall[k].stored THEN trRepeated \cup {trCall[k].trace} ELSE trRepeated
       \/ trAt' = [trAt EXCEPT ![k] = "idle"] /\ trCall' = [trCall EXCEPT ![k] = NoRequest] /\ UNCHANGED trRepeated
    /\ UNCHANGED <<contextVars, tbTraces, tbSpans, tbRated, trRated, trDeleted, trReseeded, trAsked, trBusy>>

\* Mutant: ten seconds without an answer, and the studio is asked again.
AskedAgain(k) ==
    /\ trAt[k] = "asked" /\ trAt' = [trAt EXCEPT ![k] = "asking"]
    /\ UNCHANGED <<contextVars, tableVars, trCall, trAsked, trBusy>>

\* An answer, or ten seconds without one.
Answered(k) ==
    /\ trAt[k] = "asked"
    /\ trAt' = [trAt EXCEPT ![k] = "idle"] /\ trCall' = [trCall EXCEPT ![k] = NoRequest]
    /\ UNCHANGED <<contextVars, tableVars, trAsked, trBusy>>

TracingNext ==
    \/ \E k \in Tasks :
           \/ \E given \in Spans \cup {NoSpan} : BeginSpan(k, given)
           \/ EndSpan(k) \/ AskStudio(k) \/ Answered(k)
    \/ \E c \in TraceCallers :
           \/ \E op \in {"read", "rate", "delete"}, t \in Traces : Ask(c, op, t)
           \/ CountTraces(c) \/ SeedTraces(c) \/ LogTrace(c) \/ GetTrace(c) \/ DeleteTrace(c)
           \/ LogAssessment(c) \/ SeedingFails(c) \/ CallFails(c)

TracingSpec == TracingInit /\ [][TracingNext]_tracingVars

-----------------------------------------------------------------------------
\* A trace is a tree of its own, however the tasks of a thread take turns: it is stored with all of its
\* spans, a span whose parent was not an argument has it from the same trace, only the span that began the
\* trace has none, and the parent was still open unless it had ended below the spans of another task.
TracesAreTrees ==
    /\ \A t \in tbTraces \cap Spans : tbSpans[t] = {s \in Spans : spTrace[s] = t}
    /\ \A s \in Begun \ spGiven :
           /\ IF spParent[s] = NoSpan THEN spTrace[s] = s ELSE spTrace[spParent[s]] = spTrace[s]
           /\ s \in spLate => spParent[s] \in spUneven

\* A deleted trace is stored again, and the feedback on a trace that is still there is lost, only where a
\* trace was stored and its storing failed afterwards and was repeated; besides that, the demonstration
\* traces come back when the table is empty, and a process that was about to fill it fills it once more.
RowsExplained ==
    \A t \in Traces : t \in trRepeated \/ (t \in Demo /\ trReseeded) \/
        /\ t \in trDeleted => t \notin tbTraces
        /\ t \in trRated \cap tbTraces => t \in tbRated

\* Traces as they were recorded and as they are stored.
TracesKept == TracesAreTrees /\ RowsExplained
================================================================================
