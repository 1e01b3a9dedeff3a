------------------------------- MODULE MCModels -------------------------------
(* The registry, the tracking of runs, the lineage graph and the webhooks,     *)
(* which share no state: each is explored while the others are in their        *)
(* initial states.                                                             *)
EXTENDS Registry, Tracking, Lineage, Webhooks, TLC

T == "turnover"

\* Clients and threads are the same model values, and so are runs and processes.
Symmetry == Permutations(Clients) \cup Permutations(Runs)

\* The calls about one of the two seeded models.
MostCalls ==
    [op : {"create_model", "delete_model"}, name : {T}]
    \cup [op : {"create_version"}, name : {T}, stage : {"None", "Production"}, run : Runs]
    \cup [op : {"delete_version"}, name : {T}, version : {2}]
    \cup [op : {"transition"}, name : {T}, version : {3}, stage : {"Production"}, archive : {TRUE}]
    \cup [op : {"transition"}, name : {T}, version : {1}, stage : {"Production"}, archive : {FALSE}]
    \cup [op : {"transition"}, name : {T}, version : {2}, stage : {"Archived"}, archive : {TRUE}]
    \cup [op : {"set_alias"}, name : {T}, alias : {"champion"}, version : {3}]
    \cup [op : {"delete_alias"}, name : {T}, alias : {"champion"}]
    \cup [op : {"serve"}, name : {T}, stage : {"Production"}, version : {1}]
    \cup [op : {"score"}, name : {T}, version : {0}, alias : {"", "Production"}]
    \cup [op : {"score"}, name : {T}, version : {2}, alias : {""}]

CONSTANTS raw, clean, cte, job, panel, dbtModel, gone, fit, pipe, old, volume, none

\* A statement that reads its own target and a common table expression, and what refers to its tables.
Statement     == [target |-> clean, reads |-> {raw, cte, clean}, ctes |-> {cte}, files |-> {}]
OneStatement  == {Statement}
OneTask       == {[job |-> job, optimizes |-> raw]}
OneReader     == {[id |-> panel, statement |-> [target |-> "none", reads |-> {raw}, ctes |-> {}, files |-> {}]]}
OneDbtModel   == {[id |-> dbtModel, sources |-> {}, refs |-> {gone}]}
OneRun        == {[run |-> fit, table |-> raw]}
OnePipeline   == (pipe :> [volume |-> volume, table |-> raw]) @@ (old :> none)

\* The walks over the graph, on every graph of three nodes: the impact of a node is what a path leads to,
\* cycles or not; what table lineage shows is what paths of at most that many edges lead to; and no edge is
\* shown without both of its ends.
Graph3 == SUBSET {e \in [source : 1 .. 3, target : 1 .. 3, type : {"x"}] : e.source # e.target}
PathOf(edges, n, m, most) ==
    \E k \in 1 .. most : \E p \in [0 .. k -> 1 .. 3] :
        p[0] = n /\ p[k] = m /\ \A i \in 1 .. k : Edge(p[i - 1], p[i], "x") \in edges
ASSUME WalksAreRight ==
    \A edges \in Graph3, n \in 1 .. 3 :
        /\ Impact(edges, n) = {m \in 1 .. 3 : PathOf(edges, n, m, 3)}
        /\ Near(edges, n, 2) = {m \in 1 .. 3 : PathOf(edges, n, m, 2)}
ASSUME ShownWithEnds ==
    \A edges \in Graph3, kept \in SUBSET (1 .. 3), filtered \in BOOLEAN :
        \A e \in ShownEdges(edges, kept, filtered) :
            Ends(e) \subseteq ShownNodes(1 .. 3, edges, IF filtered THEN kept ELSE 1 .. 3, filtered)

VARIABLE part   \* the part that moves in this behaviour

ModelsInit ==
    /\ part \in {"registry", "tracking", "lineage", "webhooks"}
    /\ Init /\ TrackingInit /\ LineageInit /\ WebhookInit
    \* one of the initial states of Tracking is enough for the others
    /\ part = "tracking" \/ \A t, u \in Threads : proc[t] = proc[u]

RegistryStep == part = "registry" /\ Next /\ UNCHANGED <<part, trackingVars, lineageVars, webhookVars>>
TrackingStep == part = "tracking" /\ TrackingNext /\ UNCHANGED <<part, vars, lineageVars, webhookVars>>
LineageStep  == part = "lineage" /\ LineageNext /\ UNCHANGED <<part, vars, trackingVars, webhookVars>>
WebhooksStep == part = "webhooks" /\ WebhookNext /\ UNCHANGED <<part, vars, trackingVars, lineageVars>>

ModelsNext == RegistryStep \/ TrackingStep \/ LineageStep \/ WebhooksStep

ModelsSpec == ModelsInit /\ [][ModelsNext]_<<part, vars, trackingVars, lineageVars, webhookVars>>
=============================================================================
