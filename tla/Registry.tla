------------------------------- MODULE Registry -------------------------------
(***************************************************************************)
(* The model registry (web/serving.py): registered models, their versions, *)
(* aliases and serving endpoints in experiments.db, and the calls on them. *)
(*                                                                         *)
(* The studio's handlers run one after the other on its event loop, but    *)
(* every notebook kernel (mlflow_shim.py) and every compute worker (the AI *)
(* functions of ai_sql.py) opens the same database: the clients here are   *)
(* such processes.  A call is a row of SQLite steps: a read outside a      *)
(* transaction is one, and from its first write to the end of the with     *)
(* block a transaction is one.                                             *)
(***************************************************************************)
EXTENDS Integers, FiniteSets

CONSTANTS
    Clients,    \* processes that call the registry
    OwnModels,  \* model names besides the two seeded ones
    Runs,       \* the runs versions are registered from
    Mix,        \* the calls clients make
    MaxVersion, \* bound: version numbers
    MaxCalls    \* bound: calls altogether

Seeds    == {"turnover", "equipment"}
Names    == Seeds \cup OwnModels
Versions == 1..MaxVersion
Numbers  == 0..MaxVersion            \* 0: no version
Stages   == {"None", "Staging", "Production", "Archived"}
Aliases  == {"champion", "challenger"}

Calls ==
    [op : {"create_model", "delete_model"}, name : Names]
    \cup [op : {"create_version"}, name : Names, stage : Stages, run : Runs]
    \cup [op : {"delete_version"}, name : Names, version : Versions]
    \cup [op : {"transition"}, name : Names, version : Versions, stage : Stages, archive : BOOLEAN]
    \cup [op : {"set_alias"}, name : Names, alias : Aliases, version : Versions]
    \cup [op : {"delete_alias"}, name : Names, alias : Aliases]
    \cup [op : {"serve"}, name : Names, stage : Stages, version : Numbers]
    \* By version number, by alias (or the stage of that name), or by default.
    \cup [op : {"score"}, name : Names, version : Numbers, alias : Aliases \cup {"", "Production"}]

NoCall == [op |-> "none"]

ASSUME RegistryAssumption ==
    /\ Clients # {} /\ Mix \subseteq Calls /\ "seed" \notin Runs /\ "" \notin Runs
    /\ MaxVersion \in Nat /\ MaxVersion >= 2 /\ MaxCalls \in Nat

VARIABLES
    \* The tables.
    models,    \* registered_models
    stage,     \* model_versions: <<name, version>> -> current_stage, "" if there is no row
    run,       \* model_versions: run_id
    alias,     \* model_aliases: <<name, alias>> -> version
    epStage,   \* serving_endpoints: name -> stage, "" if there is no row
    epVersion, \* serving_endpoints: version
    requests,  \* serving_endpoints: request_count
    \* Client -> its call.
    call, pc,
    saw,       \* what the read before the write returned
    sawAlias,  \* the aliases resolve_model_and_version read
    calls,     \* calls begun
    \* History.
    loose,     \* models whose Production version was last set by other means than a promotion
    moments    \* client -> what its model's designations were in the course of a score

tables == <<models, stage, run, alias, epStage, epVersion, requests>>
locals == <<call, pc, saw, sawAlias>>
vars   == <<tables, locals, calls, loose, moments>>

Rows == Names \X Versions
Tags == Names \X Aliases

Max0(S)       == IF S = {} THEN 0 ELSE CHOOSE x \in S : \A y \in S : y <= x
InStage(m, s) == {v \in Versions : stage[<<m, v>>] = s}
VersionsOf(m) == {v \in Versions : stage[<<m, v>>] # ""}
Newest(m)     == Max0(VersionsOf(m))

\* What a request without a version number may come to.
Designation == [m \in Names |->
    [champion   |-> alias[<<m, "champion">>],
     challenger |-> alias[<<m, "challenger">>],
     production |-> Max0(InStage(m, "Production")),
     newest     |-> Newest(m)]]

TypeOK ==
    /\ models \subseteq Names
    /\ stage \in [Rows -> Stages \cup {""}] /\ run \in [Rows -> Runs \cup {"seed", ""}]
    /\ alias \in [Tags -> Numbers]
    /\ epStage \in [Names -> Stages \cup {""}] /\ epVersion \in [Names -> Numbers]
    /\ requests \in [Names -> Nat]
    /\ call \in [Clients -> Mix \cup {NoCall}]
    /\ pc \in [Clients -> {"idle", "open", "check", "write", "register", "answer", "resolve", "versions", "reopen", "row", "count"}]
    /\ saw \in [Clients -> Numbers] /\ sawAlias \in [Clients -> [Aliases -> Numbers]]
    /\ calls \in 0..MaxCalls /\ loose \subseteq Names

NoAliasesSeen == [a \in Aliases |-> 0]

Init ==
    /\ models = {} /\ stage = [p \in Rows |-> ""] /\ run = [p \in Rows |-> ""]
    /\ alias = [t \in Tags |-> 0]
    /\ epStage = [m \in Names |-> ""] /\ epVersion = [m \in Names |-> 0]
    /\ requests = [m \in Names |-> 0]
    /\ call = [c \in Clients |-> NoCall] /\ pc = [c \in Clients |-> "idle"]
    /\ saw = [c \in Clients |-> 0] /\ sawAlias = [c \in Clients |-> NoAliasesSeen]
    /\ calls = 0 /\ loose = Names /\ moments = [c \in Clients |-> {}]

-----------------------------------------------------------------------------
(* Calls. *)

Begin(c) ==
    /\ pc[c] = "idle" /\ calls < MaxCalls
    /\ \E k \in Mix : call' = [call EXCEPT ![c] = k]
    /\ pc' = [pc EXCEPT ![c] = "open"] /\ calls' = calls + 1
    /\ UNCHANGED <<tables, saw, sawAlias, loose>>

Goto(c, step) == pc' = [pc EXCEPT ![c] = step]

\* The call returns or raises; its transaction is committed or rolled back.
Return(c) ==
    /\ Goto(c, "idle") /\ call' = [call EXCEPT ![c] = NoCall]
    /\ saw' = [saw EXCEPT ![c] = 0] /\ sawAlias' = [sawAlias EXCEPT ![c] = NoAliasesSeen]
    /\ UNCHANGED calls
Raise(c) == Return(c) /\ UNCHANGED <<tables, loose>>

\* The next step of a call that stays under way.
Continue(c, step) == Goto(c, step) /\ UNCHANGED <<call, sawAlias, calls>>

\* Most calls read their result back, which opens the database once more.
ReadsBack(op) == op \in {"create_model", "set_alias", "create_version", "transition", "serve"}
Written(c)    == IF ReadsBack(call[c].op) THEN Continue(c, "answer") /\ UNCHANGED saw ELSE Return(c)

-----------------------------------------------------------------------------
(* init_serving_db, the transaction every call begins with. *)

NoAliases == \A t \in Tags : alias[t] = 0

SeedModels ==
    /\ models' = Seeds
    /\ stage' = [stage EXCEPT ![<<"turnover", 1>>] = "Staging", ![<<"turnover", 2>>] = "Production",
                              ![<<"equipment", 1>>] = "Production"]
    /\ run' = [run EXCEPT ![<<"turnover", 1>>] = "seed", ![<<"turnover", 2>>] = "seed",
                          ![<<"equipment", 1>>] = "seed"]
    /\ epStage' = [epStage EXCEPT !["turnover"] = "Production", !["equipment"] = "Production"]
    /\ epVersion' = [epVersion EXCEPT !["turnover"] = 2, !["equipment"] = 1]
    /\ loose' = loose \ Seeds
    /\ UNCHANGED <<alias, requests>>

\* The aliases of both seeded models are written, whichever models there are: the foreign key refuses them
\* when one of the two is gone.
SeedAliases ==
    /\ Seeds \subseteq models
    /\ alias' = [alias EXCEPT ![<<"turnover", "champion">>] = 2, ![<<"turnover", "challenger">>] = 1,
                              ![<<"equipment", "champion">>] = 1]
    /\ UNCHANGED <<models, stage, run, epStage, epVersion, requests, loose>>

InitTables ==
    \/ models = {} /\ SeedModels
    \/ models # {} /\ NoAliases /\ SeedAliases
    \/ models # {} /\ ~NoAliases /\ UNCHANGED <<tables, loose>>

InitFails == models # {} /\ NoAliases /\ ~(Seeds \subseteq models)

AfterOpen(c) ==
    IF pc[c] = "reopen" THEN "row"
    ELSE IF call[c].op \in {"create_model", "set_alias", "create_version", "serve"} THEN "check"
    ELSE IF call[c].op = "score" THEN "resolve"
    ELSE "write"

OpenDb(c) ==
    /\ pc[c] \in {"open", "reopen", "answer"}
    /\ \/ InitFails /\ Raise(c)
       \/ InitTables /\ pc[c] = "answer" /\ Return(c)
       \/ InitTables /\ pc[c] # "answer" /\ Continue(c, AfterOpen(c)) /\ UNCHANGED saw

-----------------------------------------------------------------------------
(* The reads some calls make before they write, outside any transaction. *)

Check(c) ==
    LET k == call[c]
        found == CASE k.op = "create_model"   -> IF k.name \in models THEN 1 ELSE 0
                   [] k.op = "set_alias"      -> IF stage[<<k.name, k.version>>] # "" THEN 1 ELSE 0
                   [] k.op = "serve"          -> IF epStage[k.name] # "" THEN 1 ELSE 0
                   [] k.op = "create_version" -> IF k.name \in models THEN 1 ELSE 0
    IN  /\ pc[c] = "check"
        /\ IF k.op = "set_alias" /\ found = 0
           THEN Return(c)                       \* ValueError
           ELSE /\ saw' = [saw EXCEPT ![c] = found]
                /\ Continue(c, IF k.op # "create_version" THEN "write"
                               ELSE IF found = 1 THEN "versions" ELSE "register")
        /\ UNCHANGED <<tables, loose>>

-----------------------------------------------------------------------------
(* The writes. *)

\* Mutant: PRAGMA foreign_keys is left OFF.
KeyUnchecked(m) == FALSE

\* A row that names a model needs the model (foreign_keys = ON).
KeyMissing(m) == m \notin models

\* Mutant: INSERT OR REPLACE INTO model_versions.
VersionReplaced(m, v) == KeyMissing(m)

\* The foreign key and the primary key of model_versions.
VersionRefused(m, v) == KeyMissing(m) \/ v \in VersionsOf(m)

CreateModel(c) ==
    LET m == call[c].name IN
    /\ pc[c] = "write" /\ call[c].op = "create_model"
    /\ IF saw[c] = 0 /\ m \in models
       THEN Raise(c)                            \* the primary key
       ELSE /\ models' = IF saw[c] = 0 THEN models \cup {m} ELSE models
            /\ UNCHANGED <<stage, run, alias, epStage, epVersion, requests, loose>>
            /\ Written(c)

\* ON DELETE CASCADE.
DeleteModel(c) ==
    LET m == call[c].name IN
    /\ pc[c] = "write" /\ call[c].op = "delete_model"
    /\ models' = models \ {m}
    /\ stage' = [p \in Rows |-> IF p[1] = m THEN "" ELSE stage[p]]
    /\ run' = [p \in Rows |-> IF p[1] = m THEN "" ELSE run[p]]
    /\ alias' = [t \in Tags |-> IF t[1] = m THEN 0 ELSE alias[t]]
    /\ epStage' = [epStage EXCEPT ![m] = ""] /\ epVersion' = [epVersion EXCEPT ![m] = 0]
    /\ requests' = [requests EXCEPT ![m] = 0]
    /\ loose' = loose \cup {m}
    /\ Written(c)

\* SELECT MAX(version) of a model that was there: still outside the transaction.
ReadMaxVersion(c) ==
    /\ pc[c] = "versions" /\ call[c].op = "create_version"
    /\ saw' = [saw EXCEPT ![c] = Newest(call[c].name)]
    /\ Continue(c, "write") /\ UNCHANGED <<tables, loose>>

InsertVersion(m, v, k) ==
    /\ v \in Versions                           \* the bound MaxVersion
    /\ stage' = [stage EXCEPT ![<<m, v>>] = k.stage] /\ run' = [run EXCEPT ![<<m, v>>] = k.run]
    /\ loose' = IF k.stage = "Production" THEN loose \cup {m} ELSE loose
    /\ UNCHANGED <<alias, epStage, epVersion, requests>>

CreateModelVersion(c) ==
    LET m == call[c].name
        v == saw[c] + 1
    IN  /\ pc[c] = "write" /\ call[c].op = "create_version"
        /\ \/ VersionRefused(m, v) /\ Raise(c)
           \/ ~VersionRefused(m, v) /\ InsertVersion(m, v, call[c]) /\ Written(c) /\ UNCHANGED models

\* The model was missing: its INSERT opens the transaction, and MAX(version) is read inside.
RegisterModelVersion(c) ==
    LET m == call[c].name IN
    /\ pc[c] = "register"
    /\ \/ m \in models /\ Raise(c)              \* the primary key
       \/ /\ m \notin models /\ models' = models \cup {m}
          /\ InsertVersion(m, Newest(m) + 1, call[c]) /\ Written(c)

DeleteModelVersion(c) ==
    LET m == call[c].name
        v == call[c].version
    IN  /\ pc[c] = "write" /\ call[c].op = "delete_version"
        /\ stage' = [stage EXCEPT ![<<m, v>>] = ""] /\ run' = [run EXCEPT ![<<m, v>>] = ""]
        /\ loose' = IF stage[<<m, v>>] = "Production" THEN loose \cup {m} ELSE loose
        /\ UNCHANGED <<models, alias, epStage, epVersion, requests>>
        /\ Written(c)

\* Mutant: the endpoint stays with the version it served.
EndpointStays(k) == FALSE

EndpointMoves(k) == k.stage = "Production" /\ epStage[k.name] = "Production"

\* Whether version v exists is not looked at: the others are archived and the endpoint moved all the same.
TransitionModelVersionStage(c) ==
    LET k == call[c]
        m == k.name
        v == k.version
        archives == k.archive /\ k.stage \in {"Production", "Staging"}
        After(p) == IF p[1] # m \/ stage[p] = "" THEN stage[p]
                    ELSE IF p[2] = v THEN k.stage
                    ELSE IF archives /\ stage[p] = k.stage THEN "Archived"
                    ELSE stage[p]
    IN  /\ pc[c] = "write" /\ k.op = "transition"
        /\ stage' = [p \in Rows |-> After(p)]
        /\ epVersion' = IF EndpointMoves(k) THEN [epVersion EXCEPT ![m] = v] ELSE epVersion
        /\ loose' = IF k.stage = "Production" /\ k.archive /\ stage[<<m, v>>] # "" THEN loose \ {m}
                    ELSE IF k.stage = "Production" \/ stage[<<m, v>>] = "Production" THEN loose \cup {m}
                    ELSE loose
        /\ UNCHANGED <<models, run, alias, epStage, requests>>
        /\ Written(c)

\* INSERT OR REPLACE of a version that was there when Check looked.
SetModelAlias(c) ==
    LET k == call[c] IN
    /\ pc[c] = "write" /\ k.op = "set_alias"
    /\ \/ KeyMissing(k.name) /\ Raise(c)
       \/ /\ ~KeyMissing(k.name) /\ alias' = [alias EXCEPT ![<<k.name, k.alias>>] = k.version]
          /\ UNCHANGED <<models, stage, run, epStage, epVersion, requests, loose>>
          /\ Written(c)

DeleteModelAlias(c) ==
    /\ pc[c] = "write" /\ call[c].op = "delete_alias"
    /\ alias' = [alias EXCEPT ![<<call[c].name, call[c].alias>>] = 0]
    /\ UNCHANGED <<models, stage, run, epStage, epVersion, requests, loose>>
    /\ Written(c)

\* An UPDATE of the endpoint that was there, by its id, or an INSERT (its name is unique, and made of the
\* model's).
CreateOrUpdateServingEndpoint(c) ==
    LET m == call[c].name IN
    /\ pc[c] = "write" /\ call[c].op = "serve"
    /\ \/ saw[c] = 0 /\ (KeyMissing(m) \/ epStage[m] # "") /\ Raise(c)
       \/ /\ saw[c] > 0 /\ epStage[m] = "" /\ UNCHANGED <<epStage, epVersion, requests, loose>>
          /\ UNCHANGED <<models, stage, run, alias>> /\ Written(c)
       \/ /\ IF saw[c] > 0 THEN epStage[m] # "" ELSE epStage[m] = "" /\ ~KeyMissing(m)
          /\ epStage' = [epStage EXCEPT ![m] = call[c].stage]
          /\ epVersion' = [epVersion EXCEPT ![m] = call[c].version]
          /\ loose' = loose \cup {m}
          /\ UNCHANGED <<models, stage, run, alias, requests>> /\ Written(c)

-----------------------------------------------------------------------------
(* score_model: three reads, each on its own, and the count at the end. *)

ReadAliases(c) ==
    LET m == call[c].name IN
    /\ pc[c] = "resolve"
    /\ IF m \notin models THEN Return(c)        \* ValueError
       ELSE /\ sawAlias' = [sawAlias EXCEPT ![c] = [a \in Aliases |-> alias[<<m, a>>]]]
            /\ Goto(c, "versions") /\ UNCHANGED <<call, saw, calls>>
    /\ UNCHANGED <<tables, loose>>

\* The version by its number, which is then looked up, or out of the list just read.
LookUp(c, v)   == saw' = [saw EXCEPT ![c] = v] /\ Continue(c, "reopen")
FromList(c, v) == IF v = 0 THEN Return(c)
                  ELSE saw' = [saw EXCEPT ![c] = v] /\ Continue(c, "count")

\* Mutant: the Production version comes before the champion.
ProductionFirst(c, champion, production, newest) ==
    IF production > 0 THEN LookUp(c, production)
    ELSE IF champion > 0 THEN LookUp(c, champion)
    ELSE FromList(c, newest)

ByDefault(c, champion, production, newest) ==
    IF champion > 0 THEN LookUp(c, champion)
    ELSE IF production > 0 THEN LookUp(c, production)
    ELSE FromList(c, newest)

SelectVersion(c) ==
    LET k == call[c]
        m == k.name
    IN  /\ pc[c] = "versions" /\ k.op = "score"
        /\ IF k.alias \in Aliases /\ sawAlias[c][k.alias] > 0 THEN LookUp(c, sawAlias[c][k.alias])
           ELSE IF k.alias # "" THEN FromList(c, Max0(InStage(m, k.alias)))
           ELSE IF k.version > 0 THEN LookUp(c, k.version)
           ELSE ByDefault(c, sawAlias[c]["champion"], Max0(InStage(m, "Production")), Newest(m))
        /\ UNCHANGED <<tables, loose>>

GetModelVersion(c) ==
    /\ pc[c] = "row"
    /\ IF stage[<<call[c].name, saw[c]>>] = "" THEN Return(c)    \* "No active version found"
       ELSE Continue(c, "count") /\ UNCHANGED saw
    /\ UNCHANGED <<tables, loose>>

CountRequest(c) ==
    LET m == call[c].name IN
    /\ pc[c] = "count"
    /\ requests' = IF epStage[m] = "" THEN requests ELSE [requests EXCEPT ![m] = @ + 1]
    /\ Return(c) /\ UNCHANGED <<models, stage, run, alias, epStage, epVersion, loose>>

-----------------------------------------------------------------------------
\* History of a score: what its model's designations have been since it began.
Observe == moments' = [c \in Clients |->
    IF pc'[c] = "idle" \/ call'[c].op # "score" THEN {}
    ELSE moments[c] \cup {Designation'[call'[c].name]}]

Step(c) ==
    \/ Begin(c) \/ OpenDb(c) \/ Check(c)
    \/ CreateModel(c) \/ DeleteModel(c)
    \/ ReadMaxVersion(c) \/ CreateModelVersion(c) \/ RegisterModelVersion(c)
    \/ DeleteModelVersion(c) \/ TransitionModelVersionStage(c)
    \/ SetModelAlias(c) \/ DeleteModelAlias(c)
    \/ CreateOrUpdateServingEndpoint(c)
    \/ ReadAliases(c) \/ SelectVersion(c) \/ GetModelVersion(c) \/ CountRequest(c)

Next == (\E c \in Clients : Step(c)) /\ Observe
Spec == Init /\ [][Next]_vars

-----------------------------------------------------------------------------
(* Properties. *)

\* No version, alias or endpoint outlives its model, whoever deletes the model between another process's
\* look at it and its write.
RowsHaveModel == \A m \in Names \ models :
    /\ VersionsOf(m) = {} /\ \A a \in Aliases : alias[<<m, a>>] = 0
    /\ epStage[m] = ""

\* After a promotion that archives, and until someone overrides it by hand, exactly one version is in
\* Production and the Production endpoint serves it.
ProductionIsServed == \A m \in Names \ loose : \E v \in Versions :
    /\ InStage(m, "Production") = {v}
    /\ epStage[m] = "Production" => epVersion[m] = v

\* A version that is there keeps the run it was registered from: of two processes that draw the same number
\* one fails, and neither overwrites the other's version.
VersionsKeepTheirRun ==
    [][\A p \in Rows : stage[p] # "" /\ stage'[p] # "" => run'[p] = run[p]]_vars

\* A score uses the version its request designated, in the order champion, Production, newest, at moments
\* that all fall within the call.
Explained(k, v, past) ==
    IF k.alias \in Aliases THEN \E d \in past : d[k.alias] = v
    ELSE IF k.alias # "" THEN \E d \in past : d.production = v
    ELSE IF k.version > 0 THEN v = k.version
    ELSE \E d, e \in past : \/ d.champion = v
                            \/ /\ d.champion = 0
                               /\ e.production = v \/ (e.production = 0 /\ e.newest = v)
ScoresAreCurrent == \A c \in Clients : pc[c] = "count" => Explained(call[c], saw[c], moments[c])

\* The tables of the registry, and what is scored with them, under any two processes' calls.
RegistryKept == RowsHaveModel /\ ProductionIsServed /\ ScoresAreCurrent
=============================================================================
