------------------------------ MODULE MCServices ------------------------------
(* More parts of the studio that share no state, each explored while the others *)
(* are in their initial states.                                                 *)
EXTENDS Exports, Warehouses, Queries, Tracing, Catalogs, DbtProject, TLC

\* Any kind that changes tables here runs on the shared connection, and only such kinds.
StatementKinds == {[changes |-> FALSE, shared |-> FALSE], [changes |-> TRUE, shared |-> TRUE]}

OneThread == [k \in Tasks |-> "thread"]

AllOffers ==
    [kind : {"postgres"}, readOnly : BOOLEAN, enabled : {TRUE}]
        \cup {[kind |-> "s3", readOnly |-> TRUE, enabled |-> TRUE], [kind |-> "sqlite", readOnly |-> TRUE, enabled |-> FALSE]}

VARIABLE part   \* the part that moves in this behaviour

Init ==
    /\ part \in {"exports", "warehouses", "queries", "tracing", "catalogs", "dbt"}
    /\ ExportInit /\ WarehouseInit /\ QueryInit /\ TracingInit /\ CatalogsInit /\ DbtInit
    \* two runs that only read do not meet; one of the initial states of Queries is enough for the others
    /\ \E c \in Clicks : quKind[c].changes
    /\ part = "queries" \/ \A c, d \in Clicks : quKind[c] = quKind[d]

ExportsStep == part = "exports" /\ ExportNext /\ UNCHANGED <<part, warehouseVars, queryVars, tracingVars, catalogVars, dbtVars>>
WarehousesStep == part = "warehouses" /\ WarehouseNext /\ UNCHANGED <<part, exportVars, queryVars, tracingVars, catalogVars, dbtVars>>
QueriesStep == part = "queries" /\ QueryNext /\ UNCHANGED <<part, exportVars, warehouseVars, tracingVars, catalogVars, dbtVars>>
TracingStep == part = "tracing" /\ TracingNext /\ UNCHANGED <<part, exportVars, warehouseVars, queryVars, catalogVars, dbtVars>>
CatalogsStep == part = "catalogs" /\ CatalogsNext /\ UNCHANGED <<part, exportVars, warehouseVars, queryVars, tracingVars, dbtVars>>
DbtStep == part = "dbt" /\ DbtNext /\ UNCHANGED <<part, exportVars, warehouseVars, queryVars, tracingVars, catalogVars>>

Next == ExportsStep \/ WarehousesStep \/ QueriesStep \/ TracingStep \/ CatalogsStep \/ DbtStep

Spec == Init /\ [][Next]_<<part, exportVars, warehouseVars, queryVars, tracingVars, catalogVars, dbtVars>>

\* Any model may need the source or nothing.
ModelBodies == {{}, SourceNames}

\* All threads, tasks, clicks and dbt models are the same model values.
Symmetry == Permutations(Threads)
===============================================================================
