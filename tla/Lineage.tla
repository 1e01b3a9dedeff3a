------------------------------- MODULE Lineage -------------------------------
(***************************************************************************)
(* The lineage graph (web/lineage.py and delta_lineage.py, with the        *)
(* autoloader's part of it): nodes and edges in lineage.db.                *)
(*                                                                         *)
(* Every upsert is a transaction of its own, and a job - a query's         *)
(* lineage, the sync of a pipeline, a scan of everything - is a sequence   *)
(* of them, so the jobs of the event loop, the autoloader's threads, the   *)
(* scan at startup and the kernels' processes interleave.  A job's         *)
(* sections each swallow their first error.                                *)
(***************************************************************************)
EXTENDS Integers, SequencesExt, FiniteSetsExt, Lists

CONSTANTS
    Loop, Starter, Loaders, Kernels,   \* who writes: the event loop, the startup scan, pipeline threads, kernels
    Pipes, Volumes, Tables,
    Saved,          \* the rows of the pipelines when the studio starts
    NoPlace,        \* what a pipeline without a row has for a place
    Statements,     \* what parse_sql_lineage may meet: [target, reads, ctes, files]
    TasksSeen,      \* tasks of the saved jobs: [job, statement] or [job, optimizes]
    Readers,        \* dashboards' widgets and saved queries: [id, statement]
    DbtModels,      \* [id, sources, refs]; a ref may name a model that is not in the list
    TrainedRuns,    \* [run, table]
    MaxJobs, MaxFailures

VARIABLES
    lnNodes, lnEdges,
    lnPipe,    \* the place of each pipeline's row, or NoPlace
    lnHeld,    \* the place a pipeline's thread took from the row it read
    lnTodo,    \* what each writer has still to write: a sequence of sections
    lnPut,     \* history: the nodes a writer has put in its present job
    lnLoose,   \* history: edges put when a node put before them had been removed
    lnKept,    \* history: pipelines' edges that nothing has removed on purpose
    lnJobs, lnFailures

lineageVars == <<lnNodes, lnEdges, lnPipe, lnHeld, lnTodo, lnPut, lnLoose, lnKept, lnJobs, lnFailures>>

Writers == {Loop, Starter} \cup Loaders \cup Kernels
NoTarget == "none"
Places  == [volume : Volumes, table : Tables]

\* Every statement some part of the studio reads for its tables.
ReadStatements ==
    Statements \cup {k.statement : k \in {t \in TasksSeen : "optimizes" \notin DOMAIN t}} \cup {r.statement : r \in Readers}

\* A volume's id begins with "volume:", a table's does not; what is read is read from lists and files.
ASSUME LineageAssumption ==
    /\ IsFiniteSet(Pipes) /\ MaxJobs \in Nat /\ MaxFailures \in Nat
    /\ Saved \in [Pipes -> Places \cup {NoPlace}]
    /\ \A s \in Statements : s.target \in Tables \cup {NoTarget}
    /\ Volumes \cap Tables = {}
    /\ IsFiniteSet(Tables) /\ IsFiniteSet(TasksSeen) /\ IsFiniteSet(Readers)
    /\ IsFiniteSet(DbtModels) /\ IsFiniteSet(TrainedRuns)
    /\ \A s \in ReadStatements : IsFiniteSet(s.reads) /\ IsFiniteSet(s.files)
    /\ \A m \in DbtModels : IsFiniteSet(m.sources) /\ IsFiniteSet(m.refs)

Edge(s, t, type) == [source |-> s, target |-> t, type |-> type]
Ends(e)     == {e.source, e.target}
PipeEdge(x) == Edge(x.volume, x.table, "AUTOLOADED_TO")

(* ----------------------------- the statements ----------------------------- *)

\* parse_sql_lineage: the tables read, without the statement's own CTEs and its target.
Sources(s) == s.reads \ (s.ctes \cup {s.target})

PutNode(n)        == [op |-> "node", node |-> n]
PutEdge(s, t, ty) == [op |-> "edge", edge |-> Edge(s, t, ty)]

Flat(S, F(_)) == FlattenSeq([i \in 1 .. Cardinality(S) |-> F(SetToSeq(S)[i])])

\* The files and the tables that feed a target, each node before its edge.
Feeds(s, type) ==
    LET file(f)   == <<PutNode(f), PutEdge(f, s.target, "INGESTS_TO")>>
        source(t) == <<PutNode(t), PutEdge(t, s.target, type)>>
    IN  Flat(s.files, file) \o Flat(Sources(s), source)

\* record_query_lineage
QueryWrites(s) == IF s.target = NoTarget THEN <<>> ELSE <<PutNode(s.target)>> \o Feeds(s, "TRANSFORMS_TO")

(* ------------------------------- the scan --------------------------------- *)

TaskWrites(k) ==
    IF "optimizes" \in DOMAIN k
    THEN <<PutNode(k.job), PutNode(k.optimizes), PutEdge(k.job, k.optimizes, "MAINTAINS")>>
    ELSE IF k.statement.target = NoTarget THEN <<PutNode(k.job)>>
    ELSE <<PutNode(k.job), PutNode(k.statement.target), PutEdge(k.job, k.statement.target, "ORCHESTRATES")>>
             \o Feeds(k.statement, "TRANSFORMS_TO")

ReaderWrites(r) ==
    LET source(t) == <<PutNode(t), PutEdge(t, r.id, "READ_BY")>>
    IN  <<PutNode(r.id)>> \o Flat(Sources(r.statement), source)

\* A model's ref gets an edge and no node.
DbtWrites(m) ==
    LET source(t) == <<PutNode(t), PutEdge(t, m.id, "TRANSFORMS_TO")>>
        ref(x)    == <<PutEdge(x, m.id, "TRANSFORMS_TO")>>
    IN  <<PutNode(m.id)>> \o Flat(m.sources, source) \o Flat(m.refs, ref)

Refs == UNION {{Edge(x, m.id, "TRANSFORMS_TO") : x \in m.refs} : m \in DbtModels}

\* sync_ml_models_to_lineage_graph
RunWrites(r) == <<PutNode(r.table), PutNode(r.run), PutEdge(r.table, r.run, "TRAINED_ON")>>
TrainedWrites == Flat(TrainedRuns, RunWrites)

\* The target of no statement is a catalog table yet, so the first section has the tables that are read.
CatalogTables == Tables \ {s.target : s \in Statements}

ScanWrites ==
    LET table(t) == <<PutNode(t)>>
    IN  <<  <<[op |-> "clear"]>>, Flat(CatalogTables, table), Flat(TasksSeen, TaskWrites),
            Flat(Readers, ReaderWrites), Flat(DbtModels, DbtWrites), TrainedWrites >>

\* sync_pipeline_lineage
SyncWithoutTable(x) == <<PutNode(x.volume), PutEdge(x.volume, x.table, "AUTOLOADED_TO")>>   \* a mutant
SyncWrites(x) == <<PutNode(x.volume), PutNode(x.table), PutEdge(x.volume, x.table, "AUTOLOADED_TO")>>

(* ------------------------------ starting jobs ----------------------------- *)

NonEmpty(sections) == Sublist(sections, {i \in DOMAIN sections : sections[i] # <<>>})

LineageInit ==
    \* the graph as the last process left it, with the pipelines' part only
    /\ lnPipe = Saved /\ lnEdges = {PipeEdge(Saved[p]) : p \in {q \in Pipes : Saved[q] # NoPlace}}
    /\ lnNodes = UNION {Ends(e) : e \in lnEdges}
    /\ lnHeld = [l \in Loaders |-> NoPlace]
    \* startup starts the scan in a thread
    /\ lnTodo = [w \in Writers |-> IF w = Starter THEN NonEmpty(ScanWrites) ELSE <<>>]
    /\ lnPut = [w \in Writers |-> {}] /\ lnLoose = {} /\ lnKept = lnEdges
    /\ lnJobs = 0 /\ lnFailures = 0

\* A handler of the loop runs to its end before another starts, and so does a thread's job.
StartJob(w, sections) ==
    /\ lnTodo[w] = <<>> /\ lnJobs < MaxJobs
    /\ lnJobs' = lnJobs + 1
    /\ lnTodo' = [lnTodo EXCEPT ![w] = NonEmpty(sections)]
    /\ lnPut' = [lnPut EXCEPT ![w] = {}]
    /\ UNCHANGED <<lnNodes, lnEdges, lnLoose, lnKept, lnFailures>>

RecordQuery(s) == StartJob(Loop, <<QueryWrites(s)>>) /\ UNCHANGED <<lnPipe, lnHeld>>

\* refresh_lineage_endpoint: the scan, then get_global_lineage's sync of the models.
Refresh == StartJob(Loop, ScanWrites \o <<TrainedWrites>>) /\ UNCHANGED <<lnPipe, lnHeld>>

\* get_global_lineage, and in a kernel end_run, log_input and log_model
SyncModels(w) == w \in {Loop} \cup Kernels /\ StartJob(w, <<TrainedWrites>>) /\ UNCHANGED <<lnPipe, lnHeld>>

\* get_table_lineage puts a node for whatever table it is asked about.
AskTable(t) == t \notin lnNodes /\ StartJob(Loop, << <<PutNode(t)>> >>) /\ UNCHANGED <<lnPipe, lnHeld>>

\* create_pipeline and update_pipeline; an update leaves the edge of the place it had.
SavePipeline(p, x) ==
    /\ StartJob(Loop, <<SyncWrites(x)>>)
    /\ lnPipe' = [lnPipe EXCEPT ![p] = x]
    /\ UNCHANGED lnHeld

\* delete_pipeline: the graph first, the row after it.
DeletePipeline(p) ==
    /\ lnPipe[p] # NoPlace
    /\ StartJob(Loop, << <<[op |-> "untie", place |-> lnPipe[p]]>>, <<[op |-> "row", pipe |-> p]>> >>)
    /\ UNCHANGED <<lnPipe, lnHeld>>

\* A run of a pipeline works with the row it read when it began.
ReadRow(l, p) ==
    /\ lnHeld[l] = NoPlace /\ lnPipe[p] # NoPlace
    /\ lnHeld' = [lnHeld EXCEPT ![l] = lnPipe[p]]
    /\ UNCHANGED <<lnNodes, lnEdges, lnPipe, lnTodo, lnPut, lnLoose, lnKept, lnJobs, lnFailures>>

LoadFile(l) ==
    /\ lnHeld[l] # NoPlace
    /\ StartJob(l, <<SyncWrites(lnHeld[l])>>)
    /\ UNCHANGED <<lnPipe, lnHeld>>

EndOfRun(l) ==
    /\ lnHeld[l] # NoPlace /\ lnTodo[l] = <<>>
    /\ lnHeld' = [lnHeld EXCEPT ![l] = NoPlace]
    /\ UNCHANGED <<lnNodes, lnEdges, lnPipe, lnTodo, lnPut, lnLoose, lnKept, lnJobs, lnFailures>>

(* ----------------------------- transactions ------------------------------- *)

Coming(w, op) == lnTodo[w] # <<>> /\ Head(Head(lnTodo[w])).op = op
First(w)      == Head(Head(lnTodo[w]))

\* What is left after the first write, with more to write at once in front of it.
Left(w, more) ==
    LET section == more \o Tail(Head(lnTodo[w]))
    IN  IF section = <<>> THEN Tail(lnTodo[w]) ELSE <<section>> \o Tail(lnTodo[w])
StepDone(w, more) == lnTodo' = [lnTodo EXCEPT ![w] = Left(w, more)]

UpsertNode(w) ==
    /\ Coming(w, "node") /\ StepDone(w, <<>>)
    /\ lnNodes' = lnNodes \cup {First(w).node}
    /\ lnPut' = [lnPut EXCEPT ![w] = @ \cup {First(w).node}]
    /\ UNCHANGED <<lnEdges, lnPipe, lnHeld, lnLoose, lnKept, lnJobs, lnFailures>>

UpsertEdge(w) ==
    /\ Coming(w, "edge") /\ StepDone(w, <<>>)
    /\ LET e == First(w).edge IN
        IF e.source = e.target THEN UNCHANGED <<lnEdges, lnLoose, lnKept>> ELSE
        /\ lnEdges' = lnEdges \cup {e}
        /\ lnLoose' = IF Ends(e) \ lnNodes # {} /\ Ends(e) \subseteq lnPut[w]
                      THEN lnLoose \cup {e} ELSE lnLoose
        /\ lnKept' = IF e.type = "AUTOLOADED_TO" THEN lnKept \cup {e} ELSE lnKept
    /\ UNCHANGED <<lnNodes, lnPipe, lnHeld, lnPut, lnJobs, lnFailures>>

\* The scan empties both tables in one transaction.
ClearAll(w) ==
    /\ Coming(w, "clear") /\ StepDone(w, <<>>)
    /\ lnNodes' = {} /\ lnEdges' = {} /\ lnLoose' = {} /\ lnKept' = {}
    /\ UNCHANGED <<lnPipe, lnHeld, lnPut, lnJobs, lnFailures>>

RemainingOthers(v, e) == {}                                               \* a mutant
Remaining(v, e) == {f \in lnEdges \ {e} : f.source = v}

\* _remove_pipeline_lineage: the edge goes and what the volume feeds is counted in one transaction.
RemoveEdge(w) ==
    /\ Coming(w, "untie")
    /\ LET x == First(w).place  e == PipeEdge(x) IN
        /\ lnEdges' = lnEdges \ {e} /\ lnKept' = lnKept \ {e} /\ lnLoose' = lnLoose \ {e}
        /\ StepDone(w, IF Remaining(x.volume, e) = {}
                      THEN <<[op |-> "drop", node |-> x.volume, seen |-> {f \in lnEdges \ {e} : f.source = x.volume}]>>
                      ELSE <<>>)
    /\ UNCHANGED <<lnNodes, lnPipe, lnHeld, lnPut, lnJobs, lnFailures>>

TouchingOut(v) == {e \in lnEdges : e.target = v}                          \* a mutant
Touching(v) == {e \in lnEdges : v \in Ends(e)}

\* delete_node in the next transaction: what was tied to the volume in between goes too.
DropVolume(w) ==
    /\ Coming(w, "drop") /\ StepDone(w, <<>>)
    /\ LET v == First(w).node IN
        /\ lnNodes' = lnNodes \ {v}
        /\ lnEdges' = lnEdges \ Touching(v) /\ lnLoose' = lnLoose \ Touching(v)
        /\ lnKept' = {e \in lnKept : e.source = v => e \in First(w).seen}
    /\ UNCHANGED <<lnPipe, lnHeld, lnPut, lnJobs, lnFailures>>

DeleteRow(w) ==
    /\ Coming(w, "row") /\ StepDone(w, <<>>)
    /\ lnPipe' = [lnPipe EXCEPT ![First(w).pipe] = NoPlace]
    /\ UNCHANGED <<lnNodes, lnEdges, lnHeld, lnPut, lnLoose, lnKept, lnJobs, lnFailures>>

\* A transaction that fails ends its section; the scan's first ends the scan.
Fail(w) ==
    /\ lnTodo[w] # <<>> /\ lnFailures < MaxFailures /\ ~Coming(w, "row")
    /\ lnFailures' = lnFailures + 1
    /\ lnTodo' = [lnTodo EXCEPT ![w] = IF Coming(w, "clear") THEN <<>> ELSE Tail(@)]
    /\ UNCHANGED <<lnNodes, lnEdges, lnPipe, lnHeld, lnPut, lnLoose, lnKept, lnJobs>>

LineageNext ==
    \/ \E s \in Statements : RecordQuery(s)
    \/ Refresh
    \/ \E t \in Tables : AskTable(t)
    \/ \E p \in Pipes : \/ DeletePipeline(p)
                        \/ \E x \in Places : SavePipeline(p, x)
                        \/ \E l \in Loaders : ReadRow(l, p)
    \/ \E l \in Loaders : LoadFile(l) \/ EndOfRun(l)
    \/ \E w \in Writers :
        \/ SyncModels(w) \/ UpsertNode(w) \/ UpsertEdge(w) \/ ClearAll(w) \/ RemoveEdge(w)
        \/ DropVolume(w) \/ DeleteRow(w) \/ Fail(w)

LineageSpec == LineageInit /\ [][LineageNext]_lineageVars

(* --------------------------------- reading -------------------------------- *)

\* get_node_impact_analysis: level by level, what has been found is not visited again.
Impact(edges, n) ==
    LET steps == Cardinality(edges) + 1
        walk[k \in 0 .. steps] ==
            IF k = 0 THEN [found |-> {}, level |-> {n}]
            ELSE LET before == walk[k - 1]
                     new == {e.target : e \in {f \in edges : f.source \in before.level}} \ before.found
                 IN  [found |-> before.found \cup new, level |-> new]
    IN  walk[steps].found

\* get_table_lineage walks each level whole, and stops after depth levels.
Near(edges, n, depth) ==
    LET walk[k \in 0 .. depth] ==
            IF k = 0 THEN [found |-> {}, level |-> {n}]
            ELSE LET new == {e.target : e \in {f \in edges : f.source \in walk[k - 1].level}}
                 IN  [found |-> walk[k - 1].found \cup new, level |-> new]
    IN  walk[depth].found

\* get_global_lineage: the nodes the filter keeps, the edges at one of them, and those edges' other ends.
ShownEdges(edges, kept, filtered) == {e \in edges : ~filtered \/ Ends(e) \cap kept # {}}
ShownNodes(nodes, edges, kept, filtered) ==
    kept \cup (nodes \cap UNION {Ends(e) : e \in ShownEdges(edges, kept, filtered)})

(* -------------------------------- properties ------------------------------ *)

\* An edge whose end is no node is a dbt ref, or its node was removed between the two upserts of one job:
\* "Removes a node and every edge touching it" (lineage.py) holds of the rest.
EndsExplained == \A e \in lnEdges : Ends(e) \subseteq lnNodes \/ e \in lnLoose \/ e \in Refs

\* A pipeline whose edge was put keeps it, unless a scan emptied the graph, a pipeline of the same place
\* was deleted, or the edge was put after another's deletion had counted what the volume still feeds.
PipelinesTraced == \A p \in Pipes : lnPipe[p] # NoPlace /\ PipeEdge(lnPipe[p]) \in lnKept => PipeEdge(lnPipe[p]) \in lnEdges

\* What the graph may lack and may hold too much of, under every order of the writers' transactions.
GraphExplained == EndsExplained /\ PipelinesTraced
==============================================================================
