------------------------------- MODULE MCStudio -------------------------------
(* Parts of the studio that share no state, each explored while the others are  *)
(* in their initial states.                                                     *)
EXTENDS Notebooks, Dashboards, Documents, RayPools, Ingestion, Mail, TLC

TemplateCells == <<TRUE>>

CONSTANTS f1, f2, pg, pq
\* One file fills two partitions, the other a third one whose name another partition's may be.
PartsOf == (f1 :> {1, 2, 3}) @@ (f2 :> {4})
SlugOf  == (1 :> "a") @@ (2 :> "a") @@ (3 :> "b") @@ (4 :> "c")
\* Another table has the name of a partition, or of the default one.
Taken   == (pg :> {<<"value", "b">>}) @@ (pq :> {DefaultName})

\* distributed_scan_delta: the workers' slices share no file and leave none out.
ASSUME SlicesPartition ==
    \A n \in 0 .. 9, w \in 0 .. 5 :
        /\ UNION {Slice(n, w, i) : i \in 0 .. 9} = 0 .. n - 1
        /\ \A i, j \in 0 .. 9 : i # j => Slice(n, w, i) \cap Slice(n, w, j) = {}
        /\ w > 0 => \A i \in w .. 9 : Slice(n, w, i) = {}

\* The loop over months makes the slices of the months from the first value's to the last one's.
ASSUME SlicesAreMonths ==
    \A a, b \in (0 .. 2) \X (1 .. 12), cap \in 1 .. 15 :
        MonthNumber(a) <= MonthNumber(b) =>
            {MonthNumber(s) : s \in Slices(a, b, cap)} = MonthlySlices({MonthNumber(a), MonthNumber(b)}, cap)

VARIABLE part   \* the part that moves in this behaviour

Init ==
    /\ part \in {"notebooks", "dashboards", "documents", "ray", "ingestion", "mail"}
    /\ NotebookInit /\ DashboardInit /\ DocumentInit /\ RayInit /\ IngestInit /\ MailInit
    \* one of the initial states of Dashboards is enough for the others
    /\ part = "dashboards" \/ \A u \in Users : dbRules[u] = NoRule

NotebooksStep ==
    part = "notebooks" /\ NotebookNext /\ UNCHANGED <<part, dashboardVars, documentVars, rayVars, ingestVars, mailVars>>
DashboardsStep ==
    part = "dashboards" /\ DashboardNext /\ UNCHANGED <<part, notebookVars, documentVars, rayVars, ingestVars, mailVars>>
DocumentsStep ==
    part = "documents" /\ DocumentNext /\ UNCHANGED <<part, notebookVars, dashboardVars, rayVars, ingestVars, mailVars>>
RayStep ==
    part = "ray" /\ RayNext /\ UNCHANGED <<part, notebookVars, dashboardVars, documentVars, ingestVars, mailVars>>
IngestionStep ==
    part = "ingestion" /\ IngestNext /\ UNCHANGED <<part, notebookVars, dashboardVars, documentVars, rayVars, mailVars>>
MailStep ==
    part = "mail" /\ MailNext /\ UNCHANGED <<part, notebookVars, dashboardVars, documentVars, rayVars, ingestVars>>

Next == NotebooksStep \/ DashboardsStep \/ DocumentsStep \/ RayStep \/ IngestionStep \/ MailStep

Spec == Init /\ [][Next]_<<part, notebookVars, dashboardVars, documentVars, rayVars, ingestVars, mailVars>>

\* All threads, and paths and queries, are the same model values.
Symmetry == Permutations(Runners) \cup Permutations(Paths)
===============================================================================
