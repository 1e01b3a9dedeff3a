------------------------------ MODULE MCWorkflow ------------------------------
(* Instances of Workflow for TLC. *)
EXTENDS Workflow

CONSTANT seeded  \* a job of DEFAULT_JOBS

Task(id, deps, type) == [id |-> id, deps |-> deps, type |-> type]

\* Declared back to front; and a list that names a task that does not exist.
Chain     == <<Task("c", {"b"}, "sql"), Task("b", {"a"}, "sql"), Task("a", {}, "sql")>>
Dangling  == <<Task("b", {"a", "x"}, "sql"), Task("a", {}, "sql")>>

Lists         == {Chain, Dangling}

Seed(list)      == [j \in Jobs |-> [tasks |-> list, enabled |-> TRUE]]
SeededChain     == Seed(Chain)

Nothing   == [e \in Events |-> 0]
AllBudget == [Nothing EXCEPT !["save"] = 1, !["delete"] = 1, !["manual"] = 1,
                             !["dbfail"] = 1, !["crash"] = 1]

\* Every list of three tasks over three ids, with dependencies on each other, on
\* themselves and on a task that does not exist.
ThreeIds  == {"a", "b", "c"}
AllLists3 == [1..3 -> [id : ThreeIds, deps : SUBSET (ThreeIds \cup {"x"}), type : {"sql"}]]

\* topological_sort_tasks puts every task of an orderable list after its
\* dependencies and leaves every other list alone.
ASSUME SortIsTopological == \A tasks \in AllLists3 : SortsWell(tasks)
=============================================================================
