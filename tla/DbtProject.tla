------------------------------ MODULE DbtProject ------------------------------
(***************************************************************************)
(* The dbt project (web/dbt_service.py): the files of the models, a        *)
(* schema.yml beside them in each layer, sources.yml, the manifest that    *)
(* dbt writes, and the history of runs.                                    *)
(*                                                                         *)
(* The editor's requests run on the event loop, each a change of files     *)
(* that ends with a compilation; jobs run dbt in threads at any time.  A   *)
(* file is truncated before it is written, so a write that fails leaves    *)
(* it empty; for the history of runs it is swallowed.                      *)
(***************************************************************************)
EXTENDS Integers, SequencesExt, Functions

CONSTANTS
    Editor, JobThreads,   \* who runs dbt: the event loop and the threads of jobs
    Layers, Marts,        \* the directories of models; the one of a model without a file
    ModelNames, SourceNames,
    Bodies,               \* what a model may depend on: sets of models and sources
    KeepRuns,             \* runs kept in the history, 50 in the code
    MaxDbtCalls, MaxDbtFaults

ASSUME DbtAssumption ==
    /\ Marts \in Layers /\ ModelNames \cap SourceNames = {}
    /\ Bodies \subseteq SUBSET (ModelNames \cup SourceNames)
    /\ KeepRuns \in Nat \ {0} /\ MaxDbtCalls \in Nat /\ MaxDbtFaults \in Nat

VARIABLES
    btSql,        \* the models' files: [layer, name, deps]
    btEntries,    \* models in the schema files: [layer, name]
    btTests,      \* their tests: [layer, name, test]
    btSources,    \* the tables in sources.yml, in order
    btManifest,   \* what the last successful compilation found
    btAt,         \* where each runner is
    btDoing,      \* the change of a schema file the request has still to make
    btParsed,     \* what each runner's dbt has read: a manifest, or Invalid
    btRuns,       \* _RUNS_HISTORY
    btCopy,       \* runs in a runner's hands: the first of it, or what it has loaded
    btLog,        \* the file of the history; none without a file that can be read
    btCut,        \* its last write failed or met another's
    btRun,        \* the number of each runner's run
    btStarted,    \* runs of dbt so far
    btMissed,     \* history: the last request did not end with a compilation that succeeded
    btOld,        \* history: threads whose dbt had read the project before its last change
    btLate,       \* history: one of them wrote the manifest after the last request's compilation
    btAsked,      \* history: tests asked for: [name, test]
    btLost,       \* history: tests in a schema file when a write of it failed
    btLoose,      \* history: entries made for, or left by, a model without a file
    btTold,       \* history: runs that were recorded
    btExcused,    \* history: runs two recordings at once, a load, the cap or a restart may have lost
    btCalls, btFaults

dbtVars == <<btSql, btEntries, btTests, btSources, btManifest, btAt, btDoing, btParsed, btRuns, btCopy, btLog,
             btCut, btRun, btStarted, btMissed, btOld, btLate, btAsked, btLost, btLoose, btTold, btExcused, btCalls, btFaults>>
schemaVars  == <<btEntries, btTests, btAsked, btLost, btLoose>>
historyVars == <<btRuns, btCopy, btLog, btCut, btTold, btExcused>>

DbtRunners == {Editor} \cup JobThreads
Plain      == [kind |-> "plain", to |-> "none"]
DbtTests   == {Plain} \cup [kind : {"relationships"}, to : ModelNames]
NoChange    == [op |-> "none"]

(* ------------------------------ what dbt finds ---------------------------- *)

Models == {f.name : f \in btSql}

\* dbt refuses a project with two models of a name, two entries for a model, two sources of a name, and
\* dependencies or relationships it cannot find; a test of a missing model is left out.
Invalid == [models |-> {}, tests |-> {}, valid |-> FALSE]
Checked == {t \in btTests : t.name \in Models}
Project ==
    IF /\ IsInjective(btSources)
       /\ \A f, g \in btSql : f.name = g.name => f = g
       /\ \A d, e \in btEntries : d.name = e.name => d = e
       /\ \A f \in btSql : f.deps \subseteq Models \cup ToSet(btSources)
       /\ \A t \in Checked : t.test.kind = "plain" \/ t.test.to \in Models
    THEN [models |-> Models, tests |-> {<<t.name, t.test>> : t \in Checked}, valid |-> TRUE]
    ELSE Invalid

DbtInit ==
    /\ btSql = {} /\ btEntries = {} /\ btTests = {} /\ btSources = <<>>
    /\ btManifest = [models |-> {}, tests |-> {}, valid |-> TRUE]
    /\ btAt = [w \in DbtRunners |-> "idle"] /\ btDoing = NoChange
    /\ btParsed = [w \in DbtRunners |-> Invalid]
    /\ btRuns = <<>> /\ btCopy = [w \in DbtRunners |-> <<>>] /\ btLog = <<>> /\ btCut = FALSE /\ btRun = [w \in DbtRunners |-> 0]
    /\ btStarted = 0
    /\ btMissed = FALSE /\ btOld = {} /\ btLate = FALSE
    /\ btAsked = {} /\ btLost = {} /\ btLoose = {} /\ btTold = {} /\ btExcused = {}
    /\ btCalls = 0 /\ btFaults = 0

RunnerAt(w, place) == btAt' = [btAt EXCEPT ![w] = place]
InDbt == {w \in JobThreads : btAt[w] = "dbt"}

(* -------------------------------- requests -------------------------------- *)

\* A request comes: what jobs have read so far is old from now on.
Request(first, doing) ==
    /\ btAt[Editor] = "idle" /\ btCalls < MaxDbtCalls /\ btCalls' = btCalls + 1
    /\ RunnerAt(Editor, first) /\ btDoing' = doing
    /\ btMissed' = TRUE /\ btOld' = btOld \cup InDbt
    /\ UNCHANGED <<btManifest, btParsed, btRun, btStarted, btLate, btFaults>> /\ UNCHANGED historyVars

FilesOf(n)   == {f \in btSql : f.name = n}
EntriesOf(n) == {e \in btEntries : e.name = n}

\* create_dbt_model looks for a file of the name in its own layer.
CreateModel(l, n, deps) ==
    /\ ~ \E f \in btSql : f.layer = l /\ f.name = n
    /\ Request("schema", [op |-> "enter", layer |-> l, name |-> n])
    /\ btSql' = btSql \cup {[layer |-> l, name |-> n, deps |-> deps]}
    /\ btLoose' = btLoose \ {[layer |-> l, name |-> n]}
    /\ UNCHANGED <<btSources, btEntries, btTests, btAsked, btLost>>

\* update_dbt_model_code writes the first file of the name it meets, and with a description schema.yml again.
UpdateModel(f, deps, described) ==
    /\ f \in btSql
    /\ Request(IF described THEN "schema" ELSE "compile", IF described THEN [op |-> "describe", layer |-> f.layer] ELSE NoChange)
    /\ btSql' = (btSql \ {f}) \cup {[f EXCEPT !.deps = deps]}
    /\ UNCHANGED btSources /\ UNCHANGED schemaVars

DeleteModelOnly(f) ==                                                      \* a mutant
    /\ f \in btSql /\ Request("compile", NoChange)
    /\ btSql' = btSql \ {f}
    /\ UNCHANGED btSources /\ UNCHANGED schemaVars

\* delete_dbt_model removes the first file of the name, and the entry beside it.
DeleteModel(f) ==
    /\ f \in btSql /\ Request("schema", [op |-> "remove", layer |-> f.layer, name |-> f.name])
    /\ btSql' = btSql \ {f}
    /\ UNCHANGED btSources /\ UNCHANGED schemaVars

\* The schema file of a test: one with an entry for the model, or that of the model's layer.
TestLayers(n) ==
    IF EntriesOf(n) # {} THEN {e.layer : e \in EntriesOf(n)}
    ELSE IF FilesOf(n) # {} THEN {f.layer : f \in FilesOf(n)} ELSE {Marts}

AddTest(l, n, test) ==
    /\ l \in TestLayers(n)
    /\ Request("schema", [op |-> "test", layer |-> l, name |-> n, test |-> test])
    /\ UNCHANGED <<btSql, btSources>> /\ UNCHANGED schemaVars

DeleteTestSilently(l, n, kind) ==                                          \* a mutant
    /\ [layer |-> l, name |-> n] \in btEntries /\ btAt[Editor] = "idle"
    /\ btTests' = {t \in btTests : ~(t.layer = l /\ t.name = n /\ t.test.kind = kind)}
    /\ btAsked' = {t \in btAsked : ~(t.name = n /\ t.test.kind = kind)}
    /\ btMissed' = FALSE
    /\ UNCHANGED <<btSql, btEntries, btSources, btManifest, btAt, btDoing, btParsed, btRun, btStarted, btOld, btLate,
                   btLost, btLoose, btCalls, btFaults>> /\ UNCHANGED historyVars

\* delete_dbt_test; without an entry for the model it answers that there is none.
DeleteTest(l, n, kind) ==
    /\ [layer |-> l, name |-> n] \in btEntries
    /\ Request("schema", [op |-> "untest", layer |-> l, name |-> n, kind |-> kind])
    /\ UNCHANGED <<btSql, btSources>> /\ UNCHANGED schemaVars

\* add_dbt_source, update_dbt_source and delete_dbt_source; what a failing write leaves is an empty list.
WriteSources(sources) ==
    \/ btSources' = sources /\ UNCHANGED btFaults /\ Request("compile", NoChange)
    \/ /\ btFaults < MaxDbtFaults /\ btFaults' = btFaults + 1
       /\ btAt[Editor] = "idle" /\ btCalls < MaxDbtCalls /\ btCalls' = btCalls + 1
       /\ btSources' = <<>> /\ btMissed' = TRUE /\ btOld' = btOld \cup InDbt
       /\ UNCHANGED <<btManifest, btAt, btDoing, btParsed, btRun, btStarted, btLate>> /\ UNCHANGED historyVars

AddSource(s) ==
    /\ WriteSources(IF s \in ToSet(btSources) THEN btSources ELSE Append(btSources, s))
    /\ UNCHANGED btSql /\ UNCHANGED schemaVars

RenameSource(s, new) ==
    /\ s \in ToSet(btSources)
    /\ WriteSources([btSources EXCEPT ![SelectInSeq(btSources, LAMBDA x : x = s)] = new])
    /\ UNCHANGED btSql /\ UNCHANGED schemaVars

DeleteSource(s) ==
    /\ WriteSources(SelectSeq(btSources, LAMBDA x : x # s))
    /\ UNCHANGED btSql /\ UNCHANGED schemaVars

(* ------------------------------ schema files ------------------------------ *)

InLayer(S, l) == {x \in S : x.layer = l}
Entry(d) == [layer |-> d.layer, name |-> d.name]

ChangedSchema(d) ==
    \/ /\ d.op \in {"enter", "test"} /\ btEntries' = btEntries \cup {Entry(d)}
       /\ btLoose' = IF \E f \in btSql : Entry(f) = Entry(d) THEN btLoose ELSE btLoose \cup {Entry(d)}
       /\ IF d.op = "enter" THEN UNCHANGED <<btTests, btAsked>> ELSE
          \* A relationship replaces the one the column had.
          /\ btTests' = {t \in btTests : ~(Entry(t) = Entry(d) /\ d.test.kind = "relationships" /\ t.test.kind = d.test.kind)}
                            \cup {[layer |-> d.layer, name |-> d.name, test |-> d.test]}
          /\ btAsked' = {t \in btAsked : ~(t.name = d.name /\ d.test.kind = "relationships" /\ t.test.kind = d.test.kind)}
                            \cup {[name |-> d.name, test |-> d.test]}
    \/ /\ d.op = "remove" /\ btEntries' = btEntries \ {Entry(d)}
       /\ btTests' = {t \in btTests : Entry(t) # Entry(d)}
       /\ btAsked' = {t \in btAsked : t.name # d.name} /\ btLoose' = btLoose \ {Entry(d)}
    \/ /\ d.op = "untest" /\ UNCHANGED <<btEntries, btLoose>>
       /\ btTests' = {t \in btTests : ~(Entry(t) = Entry(d) /\ t.test.kind = d.kind)}
       /\ btAsked' = {t \in btAsked : ~(t.name = d.name /\ t.test.kind = d.kind)}
    \/ d.op = "describe" /\ UNCHANGED <<btEntries, btTests, btAsked, btLoose>>

SchemaReplaced(d) ==                                                       \* a mutant
    \/ /\ d.op = "enter"
       /\ btEntries' = (btEntries \ InLayer(btEntries, d.layer)) \cup {Entry(d)}
       /\ btTests' = btTests \ InLayer(btTests, d.layer) /\ UNCHANGED <<btAsked, btLoose>>
    \/ d.op # "enter" /\ ChangedSchema(d)

SchemaChange(d) == ChangedSchema(d)

WriteSchema ==
    /\ btAt[Editor] = "schema"
    /\ SchemaChange(btDoing) /\ UNCHANGED btLost
    /\ RunnerAt(Editor, "compile") /\ btDoing' = NoChange /\ btOld' = btOld \cup InDbt
    /\ UNCHANGED <<btSql, btSources, btManifest, btParsed, btRun, btStarted, btMissed, btLate, btCalls, btFaults>>
    /\ UNCHANGED historyVars

EmptySchema(l) ==
    /\ btEntries' = btEntries \ InLayer(btEntries, l) /\ btTests' = btTests \ InLayer(btTests, l)
    /\ btLost' = btLost \cup {[name |-> t.name, test |-> t.test] : t \in InLayer(btTests, l)}

\* The file is empty after a write that failed.  Two callers only log the error and compile.
WriteSchemaFails ==
    /\ btAt[Editor] = "schema" /\ btFaults < MaxDbtFaults /\ btFaults' = btFaults + 1
    /\ RunnerAt(Editor, IF btDoing.op \in {"remove", "describe"} THEN "compile" ELSE "idle") /\ btDoing' = NoChange
    /\ EmptySchema(btDoing.layer) /\ btOld' = btOld \cup InDbt
    /\ UNCHANGED <<btSql, btSources, btManifest, btParsed, btRun, btStarted, btMissed, btLate, btAsked, btLoose, btCalls>>
    /\ UNCHANGED historyVars

(* ------------------------------- running dbt ------------------------------ *)

\* run_dbt_cli: at the end of a request of the editor, from its run button, and from a job's task.
StartDbt(w) ==
    /\ \/ btAt[w] = "compile" /\ UNCHANGED btCalls
       \/ btAt[w] = "idle" /\ btCalls < MaxDbtCalls /\ btCalls' = btCalls + 1
    /\ RunnerAt(w, "dbt") /\ btParsed' = [btParsed EXCEPT ![w] = Project]
    /\ btOld' = btOld \ {w} /\ btStarted' = btStarted + 1
    /\ btRun' = [btRun EXCEPT ![w] = btStarted']
    /\ UNCHANGED <<btSql, btSources, btManifest, btDoing, btMissed, btLate, btFaults>>
    /\ UNCHANGED schemaVars /\ UNCHANGED historyVars

\* dbt writes the manifest of a project it could read, and may be stopped after its three minutes.
EndDbt(w) ==
    /\ btAt[w] = "dbt" /\ RunnerAt(w, "insert")
    /\ \/ /\ btParsed[w].valid /\ btManifest' = btParsed[w]
          /\ btMissed' = IF w = Editor THEN FALSE ELSE btMissed
          /\ btLate' = (w \in btOld) /\ UNCHANGED btFaults
       \/ ~btParsed[w].valid /\ UNCHANGED <<btManifest, btMissed, btLate, btFaults>>
       \/ btFaults < MaxDbtFaults /\ btFaults' = btFaults + 1 /\ UNCHANGED <<btManifest, btMissed, btLate>>
    /\ UNCHANGED <<btSql, btSources, btDoing, btParsed, btRun, btStarted, btOld, btCalls>>
    /\ UNCHANGED schemaVars /\ UNCHANGED historyVars

(* ----------------------------- the history -------------------------------- *)

Recording == {"slice", "assign", "save", "write"}
Writing   == \E w \in DbtRunners : btAt[w] = "write"
KeptRuns(runs) == SubSeq(runs, 1, IF Len(runs) > KeepRuns THEN KeepRuns ELSE Len(runs))
runVars == <<btSql, btEntries, btTests, btSources, btManifest, btDoing, btParsed, btRun, btStarted, btMissed, btOld, btLate,
             btAsked, btLost, btLoose, btCalls>>

\* _save_run_record does not load the file: after a restart the list is empty until somebody asks for it.
InsertRun(w) ==
    LET others == {u \in DbtRunners \ {w} : btAt[u] \in Recording}
    IN  /\ btAt[w] = "insert" /\ RunnerAt(w, "slice")
        /\ btRuns' = <<btRun[w]>> \o btRuns
        /\ btExcused' = btExcused \cup {btRun[u] : u \in others} \cup (IF others = {} THEN {} ELSE {btRun[w]})
                            \cup (IF btRuns = <<>> THEN ToSet(btLog) ELSE {})
        /\ UNCHANGED <<btCopy, btLog, btCut, btTold, btFaults>> /\ UNCHANGED runVars

SliceRuns(w) ==
    /\ btAt[w] = "slice" /\ RunnerAt(w, "assign")
    /\ btCopy' = [btCopy EXCEPT ![w] = KeptRuns(btRuns)]
    /\ btExcused' = btExcused \cup (ToSet(btRuns) \ ToSet(KeptRuns(btRuns)))
    /\ UNCHANGED <<btRuns, btLog, btCut, btTold, btFaults>> /\ UNCHANGED runVars

AssignRuns(w) ==
    /\ btAt[w] = "assign" /\ RunnerAt(w, "save")
    /\ btRuns' = btCopy[w]
    /\ UNCHANGED <<btCopy, btLog, btCut, btTold, btExcused, btFaults>> /\ UNCHANGED runVars

OpenRuns(w) ==
    /\ btAt[w] = "save" /\ RunnerAt(w, "write")
    /\ btLog' = <<>> /\ btCut' = FALSE
    /\ UNCHANGED <<btRuns, btCopy, btTold, btExcused, btFaults>> /\ UNCHANGED runVars

\* The list of now is written, over what others have written since the truncation: a shorter text over a longer
\* one is no JSON.  An error is only logged.
SaveRuns(w) ==
    /\ btAt[w] = "write" /\ RunnerAt(w, "idle")
    /\ \/ Len(btRuns) >= Len(btLog) /\ btLog' = btRuns /\ btCut' = FALSE /\ UNCHANGED btFaults
       \/ (btCut \/ Len(btRuns) < Len(btLog)) /\ btLog' = <<>> /\ btCut' = TRUE /\ UNCHANGED btFaults
       \/ btFaults < MaxDbtFaults /\ btFaults' = btFaults + 1 /\ btLog' = <<>> /\ btCut' = TRUE
    /\ btTold' = btTold \cup {btRun[w]} /\ btCopy' = [btCopy EXCEPT ![w] = <<>>]
    /\ UNCHANGED <<btRuns, btExcused>> /\ UNCHANGED runVars

\* _load_runs_history: an empty list is looked for in the file, and replaced by what is there even if a job's
\* thread has put its run into it since.
ListRuns ==
    /\ btAt[Editor] = "idle" /\ btRuns = <<>> /\ RunnerAt(Editor, "list")
    /\ UNCHANGED <<btRuns, btCopy, btLog, btCut, btTold, btExcused, btFaults>> /\ UNCHANGED runVars

LoadRuns ==
    /\ btAt[Editor] = "list" /\ RunnerAt(Editor, IF btLog = <<>> THEN "idle" ELSE "loaded")
    /\ btCopy' = [btCopy EXCEPT ![Editor] = btLog]
    /\ UNCHANGED <<btRuns, btLog, btCut, btTold, btExcused, btFaults>> /\ UNCHANGED runVars

ReplaceRuns ==
    /\ btAt[Editor] = "loaded" /\ RunnerAt(Editor, "idle")
    /\ btRuns' = btCopy[Editor] /\ btCopy' = [btCopy EXCEPT ![Editor] = <<>>]
    /\ btExcused' = btExcused \cup (ToSet(btRuns) \ ToSet(btCopy[Editor]))
    /\ UNCHANGED <<btLog, btCut, btTold, btFaults>> /\ UNCHANGED runVars

\* The studio dies, with dbt: a schema file or the history may be in the middle of a write.
RestartDbt ==
    /\ btFaults < MaxDbtFaults /\ btFaults' = btFaults + 1
    /\ btAt' = [w \in DbtRunners |-> "idle"] /\ btDoing' = NoChange /\ btOld' = {}
    /\ btParsed' = [w \in DbtRunners |-> Invalid] /\ btRuns' = <<>> /\ btCopy' = [w \in DbtRunners |-> <<>>]
    /\ \E cut \in {FALSE, Writing} : btLog' = IF cut THEN <<>> ELSE btLog
    /\ btExcused' = IF btCut \/ Writing THEN btExcused \cup btTold ELSE btExcused
    /\ \/ UNCHANGED <<btEntries, btTests, btLost>>
       \/ btAt[Editor] = "schema" /\ EmptySchema(btDoing.layer)
    \* what a delete has not taken out of its schema file stays there
    /\ btLoose' = IF btDoing.op = "remove" THEN btLoose \cup {Entry(btDoing)} ELSE btLoose
    /\ UNCHANGED <<btSql, btSources, btManifest, btRun, btStarted, btMissed, btLate, btAsked, btCut, btTold, btCalls>>

DbtNext ==
    \/ \E l \in Layers, n \in ModelNames :
        \/ \E deps \in Bodies : CreateModel(l, n, deps)
        \/ \E test \in DbtTests : AddTest(l, n, test)
        \/ \E kind \in {"plain", "relationships"} : DeleteTest(l, n, kind)
    \/ \E f \in btSql : DeleteModel(f) \/ \E deps \in Bodies, described \in BOOLEAN : UpdateModel(f, deps, described)
    \/ \E s \in SourceNames : AddSource(s) \/ DeleteSource(s) \/ \E new \in SourceNames : RenameSource(s, new)
    \/ WriteSchema \/ WriteSchemaFails \/ ListRuns \/ LoadRuns \/ ReplaceRuns \/ RestartDbt
    \/ \E w \in DbtRunners : \/ StartDbt(w) \/ EndDbt(w)
                             \/ InsertRun(w) \/ SliceRuns(w) \/ AssignRuns(w) \/ OpenRuns(w) \/ SaveRuns(w)

DbtSpec == DbtInit /\ [][DbtNext]_dbtVars

(* -------------------------------- properties ------------------------------ *)

\* The studio shows the models and tests of the manifest: they are those of the files, unless the last request
\* did not end with a compilation that succeeded, or a job that had read the files before wrote it again.
ManifestExplained == btMissed \/ btLate \/ btManifest = Project

\* Every test that was asked for is there until it or its model is deleted, unless a write of its file failed;
\* and the schema files speak of no model without a file beside them, unless a test was asked for it or its
\* deletion was broken off.
TestsKept ==
    btAt[Editor] # "schema" =>
        /\ \A a \in btAsked : a \in btLost \/ \E t \in btTests : t.name = a.name /\ t.test = a.test
        /\ \A e \in btEntries : e \in btLoose \/ \E f \in btSql : Entry(f) = e

\* Unless it is being written, or its last write failed or met another's, the file has every recorded run but
\* those recorded beside another, over the cap, in the file when the first run after a restart was recorded, put
\* into the list while somebody loaded the file in its place, or lost with a process that left the file cut.
RunsAreListed == Writing \/ btCut \/ btTold \subseteq ToSet(btLog) \cup btExcused

\* What the editor of the project shows is what its files hold, under jobs, failing writes and restarts.
DbtKept == ManifestExplained /\ TestsKept /\ RunsAreListed
===============================================================================
