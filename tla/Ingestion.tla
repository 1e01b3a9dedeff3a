------------------------------ MODULE Ingestion ------------------------------
(***************************************************************************)
(* The upload wizard (web/app.py ingest_preview and ingest_create, and     *)
(* ingest_into_postgres_mount of web/mounts.py): a file is stored and      *)
(* previewed, and a second request writes it to a table.                   *)
(*                                                                         *)
(* The handlers run on the event loop, one after the other.  A Delta write *)
(* is one commit; in Postgres every DDL statement and the insertion are    *)
(* transactions of their own.  A request may fail, or the studio die,      *)
(* between any two of its steps; the client may then commit its upload     *)
(* again.                                                                  *)
(***************************************************************************)
EXTENDS Integers, FiniteSetsExt, Functions

CONSTANTS
    Files,        \* upload ids
    Holds,        \* the values of the partition column in each file
    Slug,         \* the name of a LIST partition, by value: different values may have one name
    TakenNames,   \* by table, the names of its partitions that other tables of the schema have
    MaxPartitions,
    Delta, S3, Postgres,   \* the tables the wizard writes to, by where they live
    MaxIngests, MaxErrors

Targets == Delta \cup S3 \cup Postgres
Values  == UNION Range(Holds)

ASSUME IngestionAssumption ==
    /\ IsFiniteSet(Targets) /\ Holds \in [Files -> SUBSET Int] /\ Values \subseteq DOMAIN Slug
    /\ MaxPartitions \in Nat \ {0} /\ MaxIngests \in Nat /\ MaxErrors \in Nat

VARIABLES
    inUploads,   \* files in UPLOADS_DIR
    inFresh,     \* ids not given to an upload yet
    inReq,       \* the request being handled: [at, file, target, mode, split, todo]
    inTable,     \* [there, split, kids, default] of each table; a partition is [name, covers]
    inCopies,    \* how often a file's rows are in a table
    inAgain,     \* history: commits of a file answered with an error, or whose upload stayed, after its rows were in
    inDone,      \* history: what was answered with success and no overwrite has touched since
    inRequests, inErrors

ingestVars == <<inUploads, inFresh, inReq, inTable, inCopies, inAgain, inDone, inRequests, inErrors>>

NoRequest == [at |-> "idle", file |-> "none", target |-> "none", mode |-> "none", split |-> "none", todo |-> {}]
NoTable   == [there |-> FALSE, split |-> "none", kids |-> {}, default |-> FALSE]
NoCopies  == [f \in Files |-> 0]

IngestInit ==
    /\ inUploads = {} /\ inFresh = Files /\ inReq = NoRequest
    /\ inTable = [t \in Targets |-> NoTable] /\ inCopies = [t \in Targets |-> NoCopies]
    /\ inAgain = NoCopies /\ inDone = {}
    /\ inRequests = 0 /\ inErrors = 0

At(place) == inReq.at = place
Goes(place) == inReq' = [inReq EXCEPT !.at = place]

\* ingest_preview: the file is stored under a new id; a file that cannot be read is removed again.
Preview(f) ==
    /\ At("idle") /\ f \in inFresh
    /\ inFresh' = inFresh \ {f}
    /\ inUploads' \in {inUploads, inUploads \cup {f}}
    /\ UNCHANGED <<inReq, inTable, inCopies, inAgain, inDone, inRequests, inErrors>>

\* ingest_create; partition columns count for an overwrite only.
Commit(f, t, mode, split) ==
    /\ At("idle") /\ f \in inUploads /\ inRequests < MaxIngests
    /\ mode = "append" => split = "none"
    /\ t \in Delta \cup S3 => split = "none"
    /\ inRequests' = inRequests + 1
    /\ inReq' = [at |-> IF t \notin Postgres THEN "write" ELSE IF mode = "append" THEN "create" ELSE "drop",
                 file |-> f, target |-> t, mode |-> mode, split |-> split, todo |-> {}]
    /\ UNCHANGED <<inUploads, inFresh, inTable, inCopies, inAgain, inDone, inErrors>>

(* ---------------------------------- Delta --------------------------------- *)

\* One commit: CREATE OR REPLACE TABLE, INSERT INTO, or write_deltalake for S3, which makes a missing table.
WriteDelta ==
    LET t == inReq.target  f == inReq.file
    IN  /\ At("write")
        /\ inReq.mode = "append" /\ t \in Delta => inTable[t].there
        /\ inTable' = [inTable EXCEPT ![t].there = TRUE]
        /\ IF inReq.mode = "append"
           THEN inCopies' = [inCopies EXCEPT ![t][f] = @ + 1] /\ UNCHANGED inDone
           ELSE /\ inCopies' = [inCopies EXCEPT ![t] = [NoCopies EXCEPT ![f] = 1]]
                /\ inDone' = {d \in inDone : d.target # t}
        /\ Goes("verify")
        /\ UNCHANGED <<inUploads, inFresh, inAgain, inRequests, inErrors>>

(* -------------------------------- Postgres -------------------------------- *)

\* DROP TABLE IF EXISTS ... CASCADE takes the partitions along.
DropTable ==
    LET t == inReq.target
    IN  /\ At("drop")
        /\ inTable' = [inTable EXCEPT ![t] = NoTable]
        /\ inCopies' = [inCopies EXCEPT ![t] = NoCopies]
        /\ inDone' = {d \in inDone : d.target # t}
        /\ Goes("create")
        /\ UNCHANGED <<inUploads, inFresh, inAgain, inRequests, inErrors>>

\* The first MaxPartitions of anything.
Capped(S) == IF Cardinality(S) <= MaxPartitions THEN {S} ELSE kSubset(MaxPartitions, S)

\* generate_monthly_slices, over <<year, month>>: a slice for each month, until the next is past the end.
NextMonth(x) == IF x[2] = 12 THEN <<x[1] + 1, 1>> ELSE <<x[1], x[2] + 1>>
MonthNumber(x) == 12 * x[1] + x[2] - 1
Slices(from, to, cap) ==
    LET walk[k \in 1 .. cap] == IF k = 1 THEN from ELSE NextMonth(walk[k - 1])
        last == CHOOSE k \in 1 .. cap :
                    /\ k = cap \/ MonthNumber(NextMonth(walk[k])) > MonthNumber(to)
                    /\ \A j \in 1 .. k - 1 : MonthNumber(NextMonth(walk[j])) <= MonthNumber(to)
    IN  {walk[k] : k \in 1 .. last}

\* The same by number: from a file's first month to its last, no more than the cap.
MonthlySlices(S, cap) == {m \in Min(S) .. Max(S) : m < Min(S) + cap}

\* The partitions to make.  DISTINCT has no order, so any values may be the ones over the cap.
Partitions(f, split) ==
    IF split = "RANGE" THEN {{[name |-> <<"month", m>>, covers |-> {m}] : m \in MonthlySlices(Holds[f], MaxPartitions)}}
    ELSE {{[name |-> <<"value", Slug[v]>>, covers |-> {v}] : v \in S} : S \in Capped(Holds[f])}

CreateTable ==
    LET t == inReq.target
    IN  /\ At("create")
        /\ inTable' = IF inTable[t].there THEN inTable
                      ELSE [inTable EXCEPT ![t] = [NoTable EXCEPT !.there = TRUE, !.split = inReq.split]]
        /\ IF inReq.split = "none" THEN Goes("insert")
           ELSE \E kids \in Partitions(inReq.file, inReq.split) :
                    inReq' = [inReq EXCEPT !.at = "kids", !.todo = kids]
        /\ UNCHANGED <<inUploads, inFresh, inCopies, inAgain, inDone, inRequests, inErrors>>

\* CREATE TABLE IF NOT EXISTS ... PARTITION OF does nothing when the name is taken, whoever has it.
CreatePartition(k) ==
    LET t == inReq.target
        names == {p.name : p \in inTable[t].kids} \cup TakenNames[t]
    IN  /\ At("kids") /\ k \in inReq.todo
        /\ inReq' = [inReq EXCEPT !.todo = @ \ {k}]
        /\ inTable' = IF k.name \in names THEN inTable ELSE [inTable EXCEPT ![t].kids = @ \cup {k}]
        /\ UNCHANGED <<inUploads, inFresh, inCopies, inAgain, inDone, inRequests, inErrors>>

DefaultName == <<"default", "">>

DefaultAtTheCap ==                                                         \* a mutant
    /\ At("kids") /\ inReq.todo = {}
    /\ inTable' = IF \/ DefaultName \in TakenNames[inReq.target]
                     \/ Cardinality(inTable[inReq.target].kids) < MaxPartitions THEN inTable
                  ELSE [inTable EXCEPT ![inReq.target].default = TRUE]
    /\ Goes("insert")
    /\ UNCHANGED <<inUploads, inFresh, inCopies, inAgain, inDone, inRequests, inErrors>>

\* The same statement for the default partition; the name may be taken as well.
CreateDefault ==
    /\ At("kids") /\ inReq.todo = {}
    /\ inTable' = IF DefaultName \in TakenNames[inReq.target] THEN inTable
                  ELSE [inTable EXCEPT ![inReq.target].default = TRUE]
    /\ Goes("insert")
    /\ UNCHANGED <<inUploads, inFresh, inCopies, inAgain, inDone, inRequests, inErrors>>

\* Postgres refuses a row that no partition takes.
Takes(t, f) ==
    \/ inTable[t].split = "none" \/ inTable[t].default
    \/ Holds[f] \subseteq UNION {k.covers : k \in inTable[t].kids}

InsertRows ==
    LET t == inReq.target  f == inReq.file
    IN  /\ At("insert") /\ Takes(t, f)
        /\ inCopies' = [inCopies EXCEPT ![t][f] = @ + 1]
        /\ Goes("verify")
        /\ UNCHANGED <<inUploads, inFresh, inTable, inAgain, inDone, inRequests, inErrors>>

(* ------------------------------- the answer ------------------------------- *)

\* Counting the rows, then the upload's removal, whose errors are swallowed.
AnswerKeeping ==                                                           \* a mutant
    /\ At("verify")
    /\ inDone' = inDone \cup {[file |-> inReq.file, target |-> inReq.target, mode |-> inReq.mode]}
    /\ inReq' = NoRequest
    /\ UNCHANGED <<inUploads, inFresh, inTable, inCopies, inAgain, inRequests, inErrors>>

Answer ==
    /\ At("verify")
    /\ \/ inUploads' = inUploads \ {inReq.file} /\ UNCHANGED <<inAgain, inErrors>>
       \/ inErrors < MaxErrors /\ inErrors' = inErrors + 1
          /\ inAgain' = [inAgain EXCEPT ![inReq.file] = @ + 1] /\ UNCHANGED inUploads
    /\ inDone' = inDone \cup {[file |-> inReq.file, target |-> inReq.target, mode |-> inReq.mode]}
    /\ inReq' = NoRequest
    /\ UNCHANGED <<inFresh, inTable, inCopies, inRequests>>

\* An error of any step, or the end of the process: what has been done stays.
Fail ==
    /\ ~At("idle") /\ inErrors < MaxErrors /\ inErrors' = inErrors + 1
    /\ inReq' = NoRequest
    /\ inAgain' = IF At("verify") THEN [inAgain EXCEPT ![inReq.file] = @ + 1] ELSE inAgain
    /\ UNCHANGED <<inUploads, inFresh, inTable, inCopies, inDone, inRequests>>

\* What cannot succeed: a missing table, a row without a partition.
Refuse ==
    /\ \/ At("write") /\ inReq.mode = "append" /\ inReq.target \in Delta /\ ~inTable[inReq.target].there
       \/ At("insert") /\ ~Takes(inReq.target, inReq.file)
    /\ inReq' = NoRequest
    /\ UNCHANGED <<inUploads, inFresh, inTable, inCopies, inAgain, inDone, inRequests, inErrors>>

IngestNext ==
    \/ \E f \in Files : \/ Preview(f)
                        \/ \E t \in Targets, mode \in {"overwrite", "append"}, split \in {"none", "LIST", "RANGE"} :
                               Commit(f, t, mode, split)
    \/ WriteDelta \/ DropTable \/ CreateTable \/ CreateDefault \/ InsertRows
    \/ \E k \in inReq.todo : CreatePartition(k)
    \/ Answer \/ Fail \/ Refuse

IngestSpec == IngestInit /\ [][IngestNext]_ingestVars

(* -------------------------------- properties ------------------------------ *)

\* The times a file's rows went to a table and are there.
Landings(f) == UNION {{t} \X (1 .. inCopies[t][f]) : t \in Targets}

\* A file's rows are in a table more than once only when a commit of it was answered with an error, or its
\* upload stayed, after they were in; what was answered with success is there until an overwrite of the table;
\* a table an overwrite was answered for takes any row, unless another table has the name of its default
\* partition ("Always attach default catch-all partition", says mounts.py: the statement is not refused then).
IngestsExplained ==
    /\ \A f \in Files : Cardinality(Landings(f)) <= 1 + inAgain[f]
    /\ \A d \in inDone :
        /\ inCopies[d.target][d.file] > 0
        /\ d.mode = "overwrite" =>
               inTable[d.target].split = "none" \/ inTable[d.target].default \/ DefaultName \in TakenNames[d.target]
==============================================================================
