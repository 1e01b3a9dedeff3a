------------------------------- MODULE TaskOrder -------------------------------
(***************************************************************************)
(* The order in which a job's tasks run: topological_sort_tasks of         *)
(* web/workflow.py, Kahn's algorithm with a FIFO queue.  A task list may   *)
(* be anything the job editor saved: it may name tasks that do not exist,  *)
(* use an id twice or be cyclic.                                           *)
(***************************************************************************)
EXTENDS Integers, SequencesExt

\* What jobs.json can hold: finitely many tasks with finitely many dependencies.
IsTaskList(tasks) ==
    tasks \in Seq(ToSet(tasks)) /\ \A i \in DOMAIN tasks : IsFiniteSet(tasks[i].deps)

TaskIds(tasks)   == {tasks[i].id : i \in DOMAIN tasks}

\* task_map: the last task of an id wins.
TaskOf(tasks, id) ==
    tasks[CHOOSE i \in DOMAIN tasks :
             /\ tasks[i].id = id
             /\ \A k \in DOMAIN tasks : tasks[k].id = id => k <= i]

\* The keys of in_degree that start at zero, in order of first appearance: those
\* of the first n tasks.
RootsAmong(tasks) ==
    LET roots[n \in 0..Len(tasks)] ==
            IF n = 0 THEN <<>>
            ELSE LET id == tasks[n].id
                 IN  IF Contains(roots[n - 1], id) \/ TaskOf(tasks, id).deps # {}
                     THEN roots[n - 1] ELSE Append(roots[n - 1], id)
    IN  roots

\* One dependency of child has run.
Release(q, child) ==
    [q EXCEPT !.degree[child] = @ - 1,
              !.queue = IF q.degree[child] = 1 THEN Append(@, child) ELSE @]

\* graph[id] has the tasks that depend on id, in declaration order: the first n
\* tasks are released as far as they are among them.
Released(tasks, q, id) ==
    LET after[n \in 0..Len(tasks)] ==
            IF n = 0 THEN q
            ELSE IF id \in tasks[n].deps THEN Release(after[n - 1], tasks[n].id)
            ELSE after[n - 1]
    IN  after

\* A turn of the loop takes the head of the queue.
Take(q) == [q EXCEPT !.queue = Tail(@), !.sorted = Append(@, Head(q.queue))]
Turn(tasks, q) == IF q.queue = <<>> THEN q ELSE Released(tasks, Take(q), Head(q.queue))[Len(tasks)]

Start(tasks) ==
    [queue  |-> RootsAmong(tasks)[Len(tasks)],
     degree |-> [id \in TaskIds(tasks) |-> Cardinality(TaskOf(tasks, id).deps)],
     sorted |-> <<>>]

\* The state of the loop after n turns.
Turns(tasks) ==
    LET after[n \in 0..Len(tasks)] == IF n = 0 THEN Start(tasks) ELSE Turn(tasks, after[n - 1])
    IN  after

\* The sorted ids.  An id is queued at most once, so there are no more turns
\* of the loop than tasks.
Kahn(tasks) == Turns(tasks)[Len(tasks)].sorted

\* topological_sort_tasks, with its fallback to declaration order.
TopologicalSort(tasks) ==
    LET ids == Kahn(tasks)
    IN  IF Len(ids) = Len(tasks) THEN [i \in DOMAIN ids |-> TaskOf(tasks, ids[i])] ELSE tasks

-----------------------------------------------------------------------------
\* A task list that can be ordered: ids are unique, every dependency exists
\* and some ranking of the tasks puts each one after its dependencies.
WellFormed(tasks) ==
    /\ \A i, k \in DOMAIN tasks : tasks[i].id = tasks[k].id => i = k
    /\ \A i \in DOMAIN tasks : tasks[i].deps \subseteq TaskIds(tasks)
    /\ \E rank \in [TaskIds(tasks) -> DOMAIN tasks] :
          \A i \in DOMAIN tasks : \A d \in tasks[i].deps : rank[d] < rank[tasks[i].id]

\* What sorting promises: a well-formed list is reordered so that every task
\* comes after its dependencies, any other list is left as it is.
SortsWell(tasks) ==
    LET out == TopologicalSort(tasks)
    IN  IF WellFormed(tasks)
        THEN /\ Len(out) = Len(tasks) /\ ToSet(out) = ToSet(tasks)
             /\ \A i \in DOMAIN out : out[i].deps \subseteq {out[k].id : k \in 1..(i - 1)}
        ELSE out = tasks
=============================================================================
