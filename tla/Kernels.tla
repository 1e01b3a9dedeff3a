-------------------------------- MODULE Kernels --------------------------------
(***************************************************************************)
(* The notebook sandbox's kernels (sandbox/worker.py) and the session that *)
(* each of them is (KernelSession in web/notebook_runner.py).              *)
(*                                                                         *)
(* A request is a thread that executes a cell in the kernel registered     *)
(* under an id, restarts it or deletes it; the reaper is a thread that     *)
(* deletes the idle ones.  KERNELS_LOCK is held for single steps only, the *)
(* lock of a session while its kernel boots or runs a cell.  Of time only  *)
(* one thing is kept: whether a session was active within IDLE_SECONDS.    *)
(***************************************************************************)
EXTENDS Naturals, FiniteSets, Sequences

CONSTANTS
    Requests,    \* threads that serve requests
    Kids,        \* kernel ids
    Sessions,    \* SandboxKernel objects (bound: how many there are at a time)
    None,        \* no session, or nobody
    MaxKernels,  \* MAX_KERNELS
    Budget       \* bound: how often each of Events may happen

\* "race": a session is taken from KERNELS while some request has it.
\* "fault": a kernel dies, does not boot or cannot be shut down.
Events == {"timeout", "print", "fault", "race"}

ASSUME KernelsAssumption == /\ None \notin Sessions /\ None \notin Requests
                            /\ IsFiniteSet(Kids)
                            /\ MaxKernels \in Nat /\ Budget \in [Events -> Nat]

VARIABLES
    kernels,  \* KERNELS: id -> session
    \* Session ->
    lock,     \* who holds its lock
    kernel,   \* km: "none", or its process, "live" or "dead"
    status,   \* status
    fresh,    \* last_active is within IDLE_SECONDS
    cells,    \* cells its process has yet to end: TRUE for that of the execution
              \* under way, FALSE for one that timed out
    iopub,    \* messages its process sent and nobody has read
    \* Request ->
    pc,       \* where it is
    op,       \* what it is
    my,       \* the session it found
    got,      \* the messages in its outputs
    \* The rest.
    victims,  \* the sessions the reaper has yet to shut down
    raced,    \* sessions taken from KERNELS while another request had them
    orphans,  \* how many processes were left running that no session refers to
    left      \* what remains of Budget

sessions == <<lock, kernel, status, fresh, cells, iopub>>
requests == <<pc, op, my, got>>
vars     == <<kernels, sessions, requests, victims, raced, orphans, left>>

Message == [mine : BOOLEAN, last : BOOLEAN]

TypeOK ==
    /\ kernels \in [Kids -> Sessions \cup {None}]
    /\ lock \in [Sessions -> Requests \cup {None}]
    /\ kernel \in [Sessions -> {"none", "live", "dead"}]
    /\ status \in [Sessions -> {"stopped", "starting", "idle", "busy"}]
    /\ fresh \in [Sessions -> BOOLEAN]
    /\ cells \in [Sessions -> Seq(BOOLEAN)] /\ iopub \in [Sessions -> Seq(Message)]
    /\ pc \in [Requests -> {"idle", "start", "boot", "lock", "run", "stop"}]
    /\ op \in [Requests -> {"execute", "restart", "delete"}]
    /\ my \in [Requests -> Sessions \cup {None}] /\ got \in [Requests -> SUBSET Message]
    /\ victims \subseteq Sessions /\ raced \subseteq Sessions
    /\ orphans \in Nat /\ left \in [Events -> Nat]

Init ==
    /\ kernels = [k \in Kids |-> None]
    /\ lock = [s \in Sessions |-> None] /\ kernel = [s \in Sessions |-> "none"]
    /\ status = [s \in Sessions |-> "stopped"] /\ fresh = [s \in Sessions |-> TRUE]
    /\ cells = [s \in Sessions |-> <<>>] /\ iopub = [s \in Sessions |-> <<>>]
    /\ pc = [r \in Requests |-> "idle"] /\ op = [r \in Requests |-> "execute"]
    /\ my = [r \in Requests |-> None] /\ got = [r \in Requests |-> {}]
    /\ victims = {} /\ raced = {} /\ orphans = 0
    /\ left = Budget

Spend(e) == left[e] > 0 /\ left' = [left EXCEPT ![e] = @ - 1]

Registered == {kernels[k] : k \in Kids} \ {None}
Holders(s) == {r \in Requests : my[r] = s}

GoTo(r, where) == pc' = [pc EXCEPT ![r] = where]
\* The request is answered.
Answer(r) == /\ pc' = [pc EXCEPT ![r] = "idle"] /\ op' = [op EXCEPT ![r] = "execute"]
             /\ my' = [my EXCEPT ![r] = None] /\ got' = [got EXCEPT ![r] = {}]

-----------------------------------------------------------------------------
(* KERNELS. *)

\* Objects nothing refers to: any of them stands for a new one.
Unused == {s \in Sessions : /\ s \notin Registered \cup victims /\ Holders(s) = {}
                            /\ kernel[s] # "live"}

\* _kernel(create=True).  In a full sandbox the request is refused.
Enter(r, k, what) ==
    /\ pc[r] = "idle"
    /\ op' = [op EXCEPT ![r] = what]
    /\ GoTo(r, IF what = "restart" THEN "stop" ELSE "start")
    /\ \/ /\ kernels[k] # None
          /\ my' = [my EXCEPT ![r] = kernels[k]]
          /\ UNCHANGED <<kernels, sessions, raced>>
       \/ /\ kernels[k] = None /\ Cardinality(Registered) < MaxKernels /\ Unused # {}
          /\ LET new == CHOOSE s \in Unused : TRUE
             IN  /\ kernels' = [kernels EXCEPT ![k] = new]
                 /\ my' = [my EXCEPT ![r] = new]
                 /\ kernel' = [kernel EXCEPT ![new] = "none"]
                 /\ status' = [status EXCEPT ![new] = "stopped"]
                 /\ fresh' = [fresh EXCEPT ![new] = TRUE]
                 /\ cells' = [cells EXCEPT ![new] = <<>>]
                 /\ iopub' = [iopub EXCEPT ![new] = <<>>]
                 /\ raced' = raced \ {new}
                 /\ UNCHANGED lock
    /\ UNCHANGED <<got, victims, orphans, left>>

Execute(r, k) == Enter(r, k, "execute")
Restart(r, k) == Enter(r, k, "restart")

Pop(gone) ==
    LET held == {s \in gone : Holders(s) # {}}
    IN  /\ kernels' = [k \in Kids |-> IF kernels[k] \in gone THEN None ELSE kernels[k]]
        /\ raced' = raced \cup held
        /\ Cardinality(held) <= left["race"]
        /\ left' = [left EXCEPT !["race"] = @ - Cardinality(held)]

\* Mutant: the kernel is only taken out of KERNELS.
DeleteOnlyPops(r, k) ==
    /\ pc[r] = "idle" /\ kernels[k] # None
    /\ Pop({kernels[k]})
    /\ UNCHANGED <<sessions, requests, victims, orphans>>

Delete(r, k) ==
    /\ pc[r] = "idle" /\ kernels[k] # None
    /\ Pop({kernels[k]})
    /\ my' = [my EXCEPT ![r] = kernels[k]] /\ op' = [op EXCEPT ![r] = "delete"]
    /\ GoTo(r, "stop")
    /\ UNCHANGED <<sessions, got, victims, orphans>>

\* One turn of the reaper takes the idle sessions out, then shuts them down one by one.
Reap ==
    /\ victims = {}
    /\ victims' = {s \in Registered : ~fresh[s] /\ status[s] # "busy"}
    /\ victims' # {}
    /\ Pop(victims')
    /\ UNCHANGED <<sessions, requests, orphans>>

IdleTooLong(s) ==
    /\ fresh[s] /\ s \in Registered
    /\ fresh' = [fresh EXCEPT ![s] = FALSE]
    /\ UNCHANGED <<kernels, lock, kernel, status, cells, iopub, requests, victims, raced, orphans, left>>

-----------------------------------------------------------------------------
(* KernelSession. *)

\* Mutant: shutdown without the lock.
ShutdownUnlocked(s) ==
    /\ kernel' = [kernel EXCEPT ![s] = "none"] /\ status' = [status EXCEPT ![s] = "stopped"]
    /\ cells' = [cells EXCEPT ![s] = <<>>] /\ iopub' = [iopub EXCEPT ![s] = <<>>]
    /\ UNCHANGED <<kernels, lock, fresh, raced, orphans, left>>

\* shutdown, under the session's lock.  When the process cannot be killed the error is
\* swallowed and the session lets go of it.
Shutdown(s) ==
    /\ lock[s] = None
    /\ kernel' = [kernel EXCEPT ![s] = "none"] /\ status' = [status EXCEPT ![s] = "stopped"]
    /\ cells' = [cells EXCEPT ![s] = <<>>] /\ iopub' = [iopub EXCEPT ![s] = <<>>]
    /\ \/ UNCHANGED <<orphans, left>>
       \/ kernel[s] = "live" /\ Spend("fault") /\ orphans' = orphans + 1
    /\ UNCHANGED <<kernels, lock, fresh, raced>>

Stop(r) ==
    /\ pc[r] = "stop"
    /\ Shutdown(my[r])
    /\ IF op[r] = "restart" THEN GoTo(r, "start") /\ UNCHANGED <<op, my, got>> ELSE Answer(r)
    /\ UNCHANGED victims

ReapNext ==
    /\ victims # {}
    /\ LET s == CHOOSE v \in victims : TRUE
       IN  Shutdown(s) /\ victims' = victims \ {s}
    /\ UNCHANGED requests

\* What follows start.
Started(r) == IF op[r] = "execute" THEN GoTo(r, "lock") /\ UNCHANGED <<op, my, got>>
                                   ELSE Answer(r)

\* Mutant: start without the lock.
StartUnlocked(r) ==
    LET s == my[r]
    IN  /\ pc[r] = "start"
        /\ \/ kernel[s] = "live" /\ Started(r) /\ UNCHANGED <<lock, status>>
           \/ /\ kernel[s] # "live"
              /\ lock' = [lock EXCEPT ![s] = r]
              /\ status' = [status EXCEPT ![s] = "starting"]
              /\ GoTo(r, "boot") /\ UNCHANGED <<op, my, got>>
        /\ UNCHANGED <<kernels, kernel, fresh, cells, iopub, victims, raced, orphans, left>>

Start(r) ==
    LET s == my[r]
    IN  /\ pc[r] = "start" /\ lock[s] = None
        /\ \/ kernel[s] = "live" /\ Started(r) /\ UNCHANGED <<lock, status>>
           \/ /\ kernel[s] # "live"
              /\ lock' = [lock EXCEPT ![s] = r]
              /\ status' = [status EXCEPT ![s] = "starting"]
              /\ GoTo(r, "boot") /\ UNCHANGED <<op, my, got>>
        /\ UNCHANGED <<kernels, kernel, fresh, cells, iopub, victims, raced, orphans, left>>

\* The session refers to its new process only: a live one it had would be left behind.
Boot(r) ==
    LET s == my[r]
    IN  /\ pc[r] = "boot"
        /\ kernel' = [kernel EXCEPT ![s] = "live"] /\ status' = [status EXCEPT ![s] = "idle"]
        /\ fresh' = [fresh EXCEPT ![s] = TRUE]
        /\ cells' = [cells EXCEPT ![s] = <<>>] /\ iopub' = [iopub EXCEPT ![s] = <<>>]
        /\ lock' = [lock EXCEPT ![s] = None]
        /\ orphans' = IF kernel[s] = "live" THEN orphans + 1 ELSE orphans
        /\ Started(r)
        /\ UNCHANGED <<kernels, victims, raced, left>>

\* Mutant: the lock is not given back when the kernel does not boot.
BootFailsLocked(r) ==
    /\ pc[r] = "boot" /\ Spend("fault")
    /\ Answer(r)
    /\ UNCHANGED <<kernels, lock, kernel, status, fresh, cells, iopub, victims, raced, orphans>>

\* The kernel cannot be started, or is started and not ready in time, when its process
\* goes on: the request fails and the session stays as it is.
BootFails(r) ==
    /\ pc[r] = "boot" /\ Spend("fault")
    /\ lock' = [lock EXCEPT ![my[r]] = None]
    /\ orphans' \in {orphans, orphans + 1}
    /\ Answer(r)
    /\ UNCHANGED <<kernels, kernel, status, fresh, cells, iopub, victims, raced>>

\* The second half of execute_code takes the lock anew: the session may have been shut
\* down since start.
Lock(r) ==
    LET s == my[r]
    IN  /\ pc[r] = "lock" /\ lock[s] = None
        /\ lock' = [lock EXCEPT ![s] = r]
        /\ status' = [status EXCEPT ![s] = "busy"] /\ fresh' = [fresh EXCEPT ![s] = TRUE]
        /\ cells' = [cells EXCEPT ![s] = IF kernel[s] = "live" THEN Append(@, TRUE) ELSE @]
        /\ GoTo(r, "run")
        /\ UNCHANGED <<kernels, kernel, iopub, op, my, got, victims, raced, orphans, left>>

\* The cell is over for the request: what its process still does about it, or has
\* done unread, is no longer of the execution under way.
Finish(r, unread) ==
    LET s == my[r]
    IN  /\ status' = [status EXCEPT ![s] = "idle"]
        /\ lock' = [lock EXCEPT ![s] = None]
        /\ cells' = [cells EXCEPT ![s] = [i \in DOMAIN @ |-> FALSE]]
        /\ iopub' = [iopub EXCEPT ![s] = [i \in DOMAIN unread |->
                                            [mine |-> FALSE, last |-> unread[i].last]]]
        /\ Answer(r)
        /\ UNCHANGED <<kernels, kernel, fresh, victims, raced, orphans>>

\* Mutant: every message is taken for one of the cell.
ReadAnything(r) ==
    LET s == my[r]
        m == Head(iopub[s])
    IN  /\ pc[r] = "run" /\ iopub[s] # <<>>
        /\ \/ m.last /\ Finish(r, Tail(iopub[s]))
           \/ /\ ~m.last
              /\ got' = [got EXCEPT ![r] = @ \cup {m}]
              /\ iopub' = [iopub EXCEPT ![s] = Tail(@)]
              /\ UNCHANGED <<kernels, lock, kernel, status, fresh, cells, pc, op, my,
                             victims, raced, orphans>>
        /\ UNCHANGED left

\* A message about another cell is passed over.
Read(r) ==
    LET s == my[r]
        m == Head(iopub[s])
    IN  /\ pc[r] = "run" /\ iopub[s] # <<>>
        /\ \/ /\ m.mine /\ m.last
              /\ Finish(r, Tail(iopub[s]))
           \/ /\ ~(m.mine /\ m.last)
              /\ got' = [got EXCEPT ![r] = IF m.mine THEN @ \cup {m} ELSE @]
              /\ iopub' = [iopub EXCEPT ![s] = Tail(@)]
              /\ UNCHANGED <<kernels, lock, kernel, status, fresh, cells, pc, op, my,
                             victims, raced, orphans>>
        /\ UNCHANGED left

\* No message within the timeout; a dead kernel sends none.
Timeout(r) ==
    /\ pc[r] = "run" /\ iopub[my[r]] = <<>>
    /\ \/ kernel[my[r]] = "dead" /\ UNCHANGED left
       \/ kernel[my[r]] = "live" /\ Spend("timeout")
    /\ Finish(r, <<>>)

\* kc is None: the session was shut down between start and Lock.
NoKernel(r) ==
    /\ pc[r] = "run" /\ kernel[my[r]] = "none"
    /\ Finish(r, <<>>)
    /\ UNCHANGED left

-----------------------------------------------------------------------------
(* The kernel's process. *)

Send(s, last) == iopub' = [iopub EXCEPT ![s] = Append(@, [mine |-> Head(cells[s]), last |-> last])]

Prints(s) ==
    /\ kernel[s] = "live" /\ cells[s] # <<>> /\ Spend("print")
    /\ Send(s, FALSE)
    /\ UNCHANGED <<kernels, lock, kernel, status, fresh, cells, requests, victims, raced, orphans>>

EndsCell(s) ==
    /\ kernel[s] = "live" /\ cells[s] # <<>>
    /\ Send(s, TRUE)
    /\ cells' = [cells EXCEPT ![s] = Tail(@)]
    /\ UNCHANGED <<kernels, lock, kernel, status, fresh, requests, victims, raced, orphans, left>>

Dies(s) ==
    /\ kernel[s] = "live" /\ Spend("fault")
    /\ kernel' = [kernel EXCEPT ![s] = "dead"] /\ cells' = [cells EXCEPT ![s] = <<>>]
    /\ UNCHANGED <<kernels, lock, status, fresh, iopub, requests, victims, raced, orphans>>

-----------------------------------------------------------------------------
\* The thread of a request at work.
Works(r) == Stop(r) \/ Start(r) \/ Boot(r) \/ BootFails(r) \/ Lock(r)
            \/ Read(r) \/ Timeout(r) \/ NoKernel(r)

Next == \/ \E r \in Requests : \/ \E k \in Kids : \/ Execute(r, k) \/ Restart(r, k)
                                                  \/ Delete(r, k)
                               \/ Works(r)
        \/ \E s \in Sessions : IdleTooLong(s) \/ Prints(s) \/ EndsCell(s) \/ Dies(s)
        \/ Reap \/ ReapNext

Spec == Init /\ [][Next]_vars

\* Threads run, one that waits for a lock is not passed over for ever, and cells come
\* to an end.
Fairness == /\ \A r \in Requests : SF_vars(Works(r))
            /\ \A s \in Sessions : WF_vars(EndsCell(s))

LiveSpec == Spec /\ Fairness

-----------------------------------------------------------------------------
(* Properties. *)

\* One request at a time has a session's kernel run a cell, and the session then says
\* "busy": the reaper, which looks at the status without the session's lock, never
\* takes a kernel that runs a cell.
RunsAreExclusive ==
    \A r \in Requests : pc[r] = "run" =>
        /\ status[my[r]] = "busy"
        /\ \A q \in Requests : pc[q] \in {"boot", "run"} /\ my[q] = my[r] => q = r

\* A cell's outputs hold nothing of another cell, not even of one that timed out before
\* it and went on printing.
OwnOutputs == \A r \in Requests : \A m \in got[r] : m.mine

\* Somebody is about to shut it down.
Doomed(s) == \/ s \in victims
             \/ \E r \in Requests : my[r] = s /\ op[r] = "delete" /\ pc[r] = "stop"

\* The kernel of a session outside KERNELS lives on only until the session is shut down,
\* unless some request had found it before it was taken out and may have started it again.
\* A process that not even a session refers to was left behind by a boot or a shutdown that
\* failed, one by each at most, however starts, restarts and deletions interleave.
StraysExplained ==
    /\ \A s \in Sessions : kernel[s] = "live" /\ s \notin Registered => s \in raced \/ Doomed(s)
    /\ orphans + left["fault"] <= Budget["fault"]

\* Nobody shuts a session down or starts it anew while it runs a cell.
RunsUndisturbed ==
    [][\A r \in Requests : pc[r] = "run" /\ pc'[r] = "run" =>
          \/ kernel'[my[r]] = kernel[my[r]]
          \/ kernel[my[r]] = "live" /\ kernel'[my[r]] = "dead"]_vars

\* Every request is answered, however deletions, restarts and the reaper queue for the
\* session it works on.
RequestsEnd == \A r \in Requests : pc[r] # "idle" ~> pc[r] = "idle"

=============================================================================
