---------------------------- MODULE KernelsProofs ----------------------------
(***************************************************************************)
(* Proofs about the sandbox's kernels: the state keeps its type, a session *)
(* runs one cell at a time and undisturbed, and a kernel outside KERNELS   *)
(* is one that a request found before it was taken out, or was left behind *)
(* by a boot or a shutdown that failed.                                    *)
(*                                                                         *)
(* The argument: who boots a kernel or runs a cell has the session's lock  *)
(* (LockInv), and who shuts one down waits for it.  A session taken out of *)
(* KERNELS while no request has it is in the hands of whoever took it out  *)
(* alone (OutsideInv), so nobody boots it again.  Between the check of     *)
(* start and the new kernel nobody else gives the session one (BootInv),   *)
(* so that no process is replaced while it lives.                          *)
(***************************************************************************)
EXTENDS Kernels, FiniteSetTheorems, TLAPS

\* A request has a session from its first step to its answer.
MyInv == \A r \in Requests : my[r] = None <=> pc[r] = "idle"

LockInv ==
    \A r \in Requests : /\ pc[r] \in {"boot", "run"} => lock[my[r]] = r
                        /\ pc[r] = "run" => status[my[r]] = "busy"

OutsideInv ==
    \A s \in Sessions \ (Registered \cup raced) :
        \A r \in Requests : my[r] = s => op[r] = "delete" /\ pc[r] = "stop"

BootInv == \A r \in Requests : pc[r] = "boot" => kernel[my[r]] # "live"

\* The two halves of StraysExplained.
SessionStrays ==
    \A s \in Sessions : kernel[s] = "live" /\ s \notin Registered => s \in raced \/ Doomed(s)
LeftBehind == orphans + left["fault"] <= Budget["fault"]

Inv == TypeOK /\ MyInv /\ LockInv /\ BootInv /\ OutsideInv /\ SessionStrays /\ LeftBehind

-----------------------------------------------------------------------------
(* Types. *)

LEMMA InitType == Init => TypeOK
  BY KernelsAssumption DEF Init, TypeOK, Events

LEMMA SpendType ==
    ASSUME left \in [Events -> Nat], NEW e \in Events, Spend(e)
    PROVE  left' \in [Events -> Nat]
  BY DEF Spend

\* Taking finitely many sessions out of KERNELS.
LEMMA PopType ==
    ASSUME TypeOK, NEW gone \in SUBSET Sessions, IsFiniteSet(gone), Pop(gone)
    PROVE  /\ kernels' \in [Kids -> Sessions \cup {None}] /\ raced' \subseteq Sessions
           /\ left' \in [Events -> Nat]
  <1> DEFINE held == {s \in gone : Holders(s) # {}}
  <1>1. Cardinality(held) \in Nat
    BY FS_Subset, FS_CardinalityType
  <1>2. kernels' \in [Kids -> Sessions \cup {None}] /\ raced' \subseteq Sessions
    BY DEF TypeOK, Pop
  <1>3. /\ left \in [Events -> Nat] /\ Cardinality(held) <= left["race"]
        /\ left' = [left EXCEPT !["race"] = @ - Cardinality(held)]
    BY DEF TypeOK, Pop
  <1> HIDE DEF held
  <1> QED
    BY <1>1, <1>2, <1>3 DEF Events

LEMMA RegisteredType == TypeOK => Registered \subseteq Sessions /\ IsFiniteSet(Registered)
  <1> SUFFICES ASSUME TypeOK PROVE Registered \subseteq Sessions /\ IsFiniteSet(Registered)
    OBVIOUS
  <1> DEFINE R == {kernels[k] : k \in Kids}
  <1>1. IsFiniteSet(R)
    <2>1. kernels \in Surjection(Kids, R)
      BY DEF TypeOK, Surjection
    <2> HIDE DEF R
    <2> QED
      BY <2>1, KernelsAssumption, FS_Surjection
  <1> QED
    BY <1>1, FS_Subset DEF Registered, TypeOK

\* What follows an execution is typed: unread messages are marked, cells let go.
LEMMA MarkedType ==
    ASSUME NEW q \in Seq(Message)
    PROVE  [i \in DOMAIN q |-> [mine |-> FALSE, last |-> q[i].last]] \in Seq(Message)
  <1> DEFINE f == [i \in DOMAIN q |-> [mine |-> FALSE, last |-> q[i].last]]
  <1>1. Len(q) \in Nat /\ DOMAIN q = 1..Len(q) /\ \A i \in 1..Len(q) : q[i] \in Message
    OBVIOUS
  <1>2. f \in [1..Len(q) -> Message]
    BY <1>1 DEF Message
  <1> HIDE DEF f
  <1>3. f \in Seq(Message)
    BY <1>1, <1>2
  <1> QED
    BY <1>3 DEF f

LEMMA LetGoType ==
    ASSUME NEW q \in Seq(BOOLEAN)
    PROVE  [i \in DOMAIN q |-> FALSE] \in Seq(BOOLEAN)
  <1> DEFINE f == [i \in DOMAIN q |-> FALSE]
  <1>1. Len(q) \in Nat /\ DOMAIN q = 1..Len(q)
    OBVIOUS
  <1>2. f \in [1..Len(q) -> BOOLEAN]
    BY <1>1
  <1> HIDE DEF f
  <1>3. f \in Seq(BOOLEAN)
    BY <1>1, <1>2
  <1> QED
    BY <1>3 DEF f

LEMMA HeadTailType ==
    ASSUME NEW S, NEW q \in Seq(S), q # <<>>
    PROVE  Head(q) \in S /\ Tail(q) \in Seq(S)
  OBVIOUS

\* An answered request is where it was before its first step.
LEMMA AnswerType ==
    ASSUME TypeOK, NEW r \in Requests, Answer(r)
    PROVE  /\ pc' \in [Requests -> {"idle", "start", "boot", "lock", "run", "stop"}]
           /\ op' \in [Requests -> {"execute", "restart", "delete"}]
           /\ my' \in [Requests -> Sessions \cup {None}]
           /\ got' \in [Requests -> SUBSET Message]
  BY DEF TypeOK, Answer

LEMMA StartedType ==
    ASSUME TypeOK, NEW r \in Requests, Started(r)
    PROVE  /\ pc' \in [Requests -> {"idle", "start", "boot", "lock", "run", "stop"}]
           /\ op' \in [Requests -> {"execute", "restart", "delete"}]
           /\ my' \in [Requests -> Sessions \cup {None}]
           /\ got' \in [Requests -> SUBSET Message]
  <1>1. CASE op[r] = "execute"
    BY <1>1 DEF TypeOK, Started, GoTo
  <1>2. CASE op[r] # "execute"
    BY <1>2, AnswerType DEF Started
  <1> QED
    BY <1>1, <1>2

LEMMA ShutdownType ==
    ASSUME TypeOK, NEW s \in Sessions, Shutdown(s)
    PROVE  /\ kernels' \in [Kids -> Sessions \cup {None}]
           /\ lock' \in [Sessions -> Requests \cup {None}]
           /\ kernel' \in [Sessions -> {"none", "live", "dead"}]
           /\ status' \in [Sessions -> {"stopped", "starting", "idle", "busy"}]
           /\ fresh' \in [Sessions -> BOOLEAN]
           /\ cells' \in [Sessions -> Seq(BOOLEAN)]
           /\ iopub' \in [Sessions -> Seq(Message)]
           /\ raced' \subseteq Sessions
           /\ orphans' \in Nat /\ left' \in [Events -> Nat]
  <1>1. orphans' \in Nat /\ left' \in [Events -> Nat]
    BY SpendType DEF TypeOK, Shutdown, Events
  <1> QED
    BY <1>1 DEF TypeOK, Shutdown

LEMMA FinishType ==
    ASSUME TypeOK, NEW r \in Requests, my[r] \in Sessions,
           NEW unread \in Seq(Message), Finish(r, unread), left' \in [Events -> Nat]
    PROVE  TypeOK'
  <1>1. cells' \in [Sessions -> Seq(BOOLEAN)]
    BY LetGoType DEF TypeOK, Finish
  <1>2. iopub' \in [Sessions -> Seq(Message)]
    BY MarkedType DEF TypeOK, Finish
  <1>3. /\ pc' \in [Requests -> {"idle", "start", "boot", "lock", "run", "stop"}]
        /\ op' \in [Requests -> {"execute", "restart", "delete"}]
        /\ my' \in [Requests -> Sessions \cup {None}]
        /\ got' \in [Requests -> SUBSET Message]
    BY AnswerType DEF Finish
  <1>4. /\ lock' \in [Sessions -> Requests \cup {None}]
        /\ status' \in [Sessions -> {"stopped", "starting", "idle", "busy"}]
        /\ UNCHANGED <<kernels, kernel, fresh, victims, raced, orphans>>
    BY DEF TypeOK, Finish
  <1> QED
    BY <1>1, <1>2, <1>3, <1>4 DEF TypeOK

\* A request at work has a session.
LEMMA WorksOnSession ==
    ASSUME TypeOK, MyInv, NEW r \in Requests, Works(r)
    PROVE  my[r] \in Sessions
  BY DEF TypeOK, MyInv, Works, Stop, Start, Boot, BootFails, Lock, Read, Timeout, NoKernel

LEMMA TypeStep == TypeOK /\ MyInv /\ [Next]_vars => TypeOK'
  <1> SUFFICES ASSUME TypeOK, MyInv, [Next]_vars PROVE TypeOK'
    OBVIOUS
  <1> USE KernelsAssumption
  <1>1. ASSUME NEW r \in Requests, NEW k \in Kids, NEW what \in {"execute", "restart"},
               Enter(r, k, what)
        PROVE  TypeOK'
    <2>1. pc' \in [Requests -> {"idle", "start", "boot", "lock", "run", "stop"}]
          /\ op' \in [Requests -> {"execute", "restart", "delete"}]
          /\ UNCHANGED <<got, victims, orphans, left>>
      BY <1>1 DEF TypeOK, Enter, GoTo
    <2>2. CASE my' = [my EXCEPT ![r] = kernels[k]] /\ UNCHANGED <<kernels, sessions, raced>>
      BY <2>1, <2>2 DEF TypeOK, sessions
    <2>3. ASSUME NEW s \in Sessions,
                 kernels' = [kernels EXCEPT ![k] = s], my' = [my EXCEPT ![r] = s],
                 kernel' = [kernel EXCEPT ![s] = "none"],
                 status' = [status EXCEPT ![s] = "stopped"],
                 fresh' = [fresh EXCEPT ![s] = TRUE],
                 cells' = [cells EXCEPT ![s] = <<>>], iopub' = [iopub EXCEPT ![s] = <<>>],
                 raced' = raced \ {s}, UNCHANGED lock
          PROVE  TypeOK'
      BY <2>1, <2>3 DEF TypeOK
    <2> QED
      BY <1>1, <2>2, <2>3 DEF Enter, Unused
  <1>2. ASSUME NEW r \in Requests, NEW k \in Kids, Delete(r, k) PROVE TypeOK'
    <2>1. kernels[k] \in Sessions /\ IsFiniteSet({kernels[k]})
      BY <1>2, FS_Singleton DEF TypeOK, Delete
    <2>2. /\ kernels' \in [Kids -> Sessions \cup {None}] /\ raced' \subseteq Sessions
          /\ left' \in [Events -> Nat]
      BY <1>2, <2>1, PopType DEF Delete
    <2> QED
      BY <1>2, <2>1, <2>2 DEF TypeOK, Delete, GoTo, sessions
  <1>3. CASE Reap
    <2>1. victims' \subseteq Sessions /\ IsFiniteSet(victims')
      BY <1>3, RegisteredType, FS_Subset DEF Reap
    <2>2. /\ kernels' \in [Kids -> Sessions \cup {None}] /\ raced' \subseteq Sessions
          /\ left' \in [Events -> Nat]
      BY <1>3, <2>1, PopType DEF Reap
    <2> QED
      BY <1>3, <2>1, <2>2 DEF TypeOK, Reap, sessions, requests
  <1>4. CASE ReapNext
    <2>1. PICK s \in Sessions : Shutdown(s) /\ victims' = victims \ {s} /\ UNCHANGED requests
      BY <1>4 DEF ReapNext, TypeOK
    <2> QED
      BY <2>1, ShutdownType DEF TypeOK, requests
  <1>5. ASSUME NEW s \in Sessions, IdleTooLong(s) PROVE TypeOK'
    BY <1>5 DEF TypeOK, IdleTooLong, requests
  <1>6. ASSUME NEW s \in Sessions, Prints(s) \/ EndsCell(s) PROVE TypeOK'
    <2>1. Head(cells[s]) \in BOOLEAN /\ Tail(cells[s]) \in Seq(BOOLEAN)
      <3>1. cells[s] \in Seq(BOOLEAN) /\ cells[s] # <<>>
        BY <1>6 DEF TypeOK, Prints, EndsCell
      <3> QED
        BY <3>1, HeadTailType
    <2>2. \A last \in BOOLEAN :
             Append(iopub[s], [mine |-> Head(cells[s]), last |-> last]) \in Seq(Message)
      BY <2>1 DEF TypeOK, Message
    <2>3. iopub' \in [Sessions -> Seq(Message)]
      BY <1>6, <2>2 DEF TypeOK, Prints, EndsCell, Send
    <2>4. cells' \in [Sessions -> Seq(BOOLEAN)]
      <3>1. cells' = cells \/ cells' = [cells EXCEPT ![s] = Tail(cells[s])]
        BY <1>6 DEF Prints, EndsCell
      <3> QED
        BY <2>1, <3>1 DEF TypeOK
    <2>5. left' \in [Events -> Nat]
      BY <1>6, SpendType DEF TypeOK, Prints, EndsCell, Events
    <2> QED
      BY <1>6, <2>3, <2>4, <2>5 DEF TypeOK, Prints, EndsCell, requests
  <1>7. ASSUME NEW s \in Sessions, Dies(s) PROVE TypeOK'
    <2>1. left' \in [Events -> Nat]
      BY <1>7, SpendType DEF TypeOK, Dies, Events
    <2> QED
      BY <1>7, <2>1 DEF TypeOK, Dies, requests
  <1>8. ASSUME NEW r \in Requests, Works(r) PROVE TypeOK'
    <2>1. my[r] \in Sessions
      BY <1>8, WorksOnSession
    <2>2. CASE Stop(r)
      <3>1. /\ pc' \in [Requests -> {"idle", "start", "boot", "lock", "run", "stop"}]
            /\ op' \in [Requests -> {"execute", "restart", "delete"}]
            /\ my' \in [Requests -> Sessions \cup {None}]
            /\ got' \in [Requests -> SUBSET Message]
        BY <2>2, AnswerType DEF TypeOK, Stop, GoTo
      <3> QED
        BY <2>1, <2>2, <3>1, ShutdownType DEF TypeOK, Stop
    <2>3. CASE Start(r)
      <3>1. CASE kernel[my[r]] = "live" /\ Started(r) /\ UNCHANGED <<lock, status>>
        BY <2>3, <3>1, StartedType DEF TypeOK, Start
      <3>2. CASE kernel[my[r]] # "live"
        <4>1. lock' \in [Sessions -> Requests \cup {None}]
          <5>1. lock' = [lock EXCEPT ![my[r]] = r]
            BY <2>3, <3>2 DEF Start
          <5> QED
            BY <5>1 DEF TypeOK
        <4>2. status' \in [Sessions -> {"stopped", "starting", "idle", "busy"}]
          <5>1. status' = [status EXCEPT ![my[r]] = "starting"]
            BY <2>3, <3>2 DEF Start
          <5> QED
            BY <5>1 DEF TypeOK
        <4>3. pc' \in [Requests -> {"idle", "start", "boot", "lock", "run", "stop"}]
              /\ UNCHANGED <<op, my, got>>
          BY <2>3, <3>2 DEF TypeOK, Start, GoTo
        <4> QED
          BY <2>3, <4>1, <4>2, <4>3 DEF TypeOK, Start
      <3> QED
        BY <2>3, <3>1, <3>2 DEF Start
    <2>4. CASE Boot(r)
      <3>1. /\ kernel' \in [Sessions -> {"none", "live", "dead"}]
            /\ status' \in [Sessions -> {"stopped", "starting", "idle", "busy"}]
        BY <2>1, <2>4 DEF TypeOK, Boot
      <3>2. fresh' \in [Sessions -> BOOLEAN] /\ lock' \in [Sessions -> Requests \cup {None}]
        BY <2>1, <2>4 DEF TypeOK, Boot
      <3>3. cells' \in [Sessions -> Seq(BOOLEAN)] /\ iopub' \in [Sessions -> Seq(Message)]
        BY <2>1, <2>4 DEF TypeOK, Boot
      <3> QED
        BY <2>4, <3>1, <3>2, <3>3, StartedType DEF TypeOK, Boot
    <2>5. CASE BootFails(r)
      <3>1. left' \in [Events -> Nat]
        BY <2>5, SpendType DEF TypeOK, BootFails, Events
      <3>2. orphans' \in Nat /\ lock' \in [Sessions -> Requests \cup {None}]
        BY <2>1, <2>5 DEF TypeOK, BootFails
      <3> QED
        BY <2>5, <3>1, <3>2, AnswerType DEF TypeOK, BootFails
    <2>6. CASE Lock(r)
      <3>1. lock' \in [Sessions -> Requests \cup {None}] /\ fresh' \in [Sessions -> BOOLEAN]
        BY <2>1, <2>6 DEF TypeOK, Lock
      <3>2. status' \in [Sessions -> {"stopped", "starting", "idle", "busy"}]
        BY <2>1, <2>6 DEF TypeOK, Lock
      <3>3. cells' \in [Sessions -> Seq(BOOLEAN)]
        <4>1. cells[my[r]] \in Seq(BOOLEAN) /\ Append(cells[my[r]], TRUE) \in Seq(BOOLEAN)
          BY <2>1 DEF TypeOK
        <4>2. \E q \in Seq(BOOLEAN) : cells' = [cells EXCEPT ![my[r]] = q]
          BY <2>6, <4>1 DEF Lock
        <4> QED
          BY <4>2 DEF TypeOK
      <3>4. pc' \in [Requests -> {"idle", "start", "boot", "lock", "run", "stop"}]
        BY <2>6 DEF TypeOK, Lock, GoTo
      <3> QED
        BY <2>6, <3>1, <3>2, <3>3, <3>4 DEF TypeOK, Lock
    <2>7. CASE Read(r)
      <3>1. /\ iopub[my[r]] \in Seq(Message) /\ Head(iopub[my[r]]) \in Message
            /\ Tail(iopub[my[r]]) \in Seq(Message) /\ left' \in [Events -> Nat]
        BY <2>1, <2>7 DEF TypeOK, Read
      <3>2. CASE Finish(r, Tail(iopub[my[r]]))
        BY <2>1, <3>1, <3>2, FinishType
      <3>3. CASE /\ got' = [got EXCEPT ![r] = IF Head(iopub[my[r]]).mine
                                             THEN @ \cup {Head(iopub[my[r]])} ELSE @]
                 /\ iopub' = [iopub EXCEPT ![my[r]] = Tail(@)]
                 /\ UNCHANGED <<kernels, lock, kernel, status, fresh, cells, pc, op, my,
                                victims, raced, orphans>>
        BY <2>1, <3>1, <3>3 DEF TypeOK
      <3> QED
        BY <2>7, <3>2, <3>3 DEF Read
    <2>8. CASE Timeout(r)
      <3>1. left' \in [Events -> Nat] /\ <<>> \in Seq(Message)
        BY <2>8, SpendType DEF TypeOK, Timeout, Events
      <3> QED
        BY <2>1, <2>8, <3>1, FinishType DEF Timeout
    <2>9. CASE NoKernel(r)
      <3>1. left' \in [Events -> Nat] /\ <<>> \in Seq(Message)
        BY <2>9 DEF TypeOK, NoKernel
      <3> QED
        BY <2>1, <2>9, <3>1, FinishType DEF NoKernel
    <2> QED
      BY <1>8, <2>2, <2>3, <2>4, <2>5, <2>6, <2>7, <2>8, <2>9 DEF Works
  <1>9. CASE UNCHANGED vars
    BY <1>9 DEF TypeOK, vars, sessions, requests
  <1> QED
    BY <1>1, <1>2, <1>3, <1>4, <1>5, <1>6, <1>7, <1>8, <1>9 DEF Next, Execute, Restart

-----------------------------------------------------------------------------
(* MyInv. *)

LEMMA AnswerMy ==
    ASSUME TypeOK, MyInv, NEW r \in Requests, Answer(r)
    PROVE  MyInv'
  BY DEF TypeOK, MyInv, Answer

LEMMA StartedMy ==
    ASSUME TypeOK, MyInv, NEW r \in Requests, pc[r] # "idle", Started(r)
    PROVE  MyInv'
  <1>1. CASE op[r] = "execute"
    BY <1>1 DEF TypeOK, MyInv, Started, GoTo
  <1>2. CASE op[r] # "execute"
    BY <1>2, AnswerMy DEF Started
  <1> QED
    BY <1>1, <1>2

LEMMA MyStep == TypeOK /\ MyInv /\ [Next]_vars => MyInv'
  <1> SUFFICES ASSUME TypeOK, MyInv, [Next]_vars PROVE MyInv'
    OBVIOUS
  <1> USE KernelsAssumption
  <1>1. ASSUME NEW r \in Requests, NEW k \in Kids, NEW what \in {"execute", "restart"},
               Enter(r, k, what)
        PROVE  MyInv'
    <2>1. PICK s \in Sessions : my' = [my EXCEPT ![r] = s]
      BY <1>1 DEF Enter, Unused, TypeOK
    <2>2. pc' = [pc EXCEPT ![r] = "stop"] \/ pc' = [pc EXCEPT ![r] = "start"]
      BY <1>1 DEF Enter, GoTo
    <2> QED
      BY <2>1, <2>2 DEF TypeOK, MyInv
  <1>2. ASSUME NEW r \in Requests, NEW k \in Kids, Delete(r, k) PROVE MyInv'
    BY <1>2 DEF TypeOK, MyInv, Delete, GoTo
  <1>3. ASSUME NEW r \in Requests, Works(r) PROVE MyInv'
    <2>1. CASE Stop(r)
      BY <2>1, AnswerMy DEF TypeOK, MyInv, Stop, GoTo
    <2>2. CASE Start(r)
      <3>1. CASE Started(r)
        BY <2>2, <3>1, StartedMy DEF Start
      <3>2. CASE GoTo(r, "boot") /\ UNCHANGED my
        BY <2>2, <3>2 DEF TypeOK, MyInv, Start, GoTo
      <3> QED
        BY <2>2, <3>1, <3>2 DEF Start
    <2>3. CASE Boot(r) \/ BootFails(r)
      BY <2>3, StartedMy, AnswerMy DEF Boot, BootFails
    <2>4. CASE Lock(r)
      BY <2>4 DEF TypeOK, MyInv, Lock, GoTo
    <2>5. CASE Read(r)
      BY <2>5, AnswerMy DEF MyInv, Read, Finish
    <2>6. CASE Timeout(r) \/ NoKernel(r)
      BY <2>6, AnswerMy DEF Timeout, NoKernel, Finish
    <2> QED
      BY <1>3, <2>1, <2>2, <2>3, <2>4, <2>5, <2>6 DEF Works
  <1>4. CASE UNCHANGED requests
    BY <1>4 DEF MyInv, requests
  <1>5. ASSUME NEW s \in Sessions, IdleTooLong(s) \/ Prints(s) \/ EndsCell(s) \/ Dies(s)
        PROVE  UNCHANGED requests
    BY <1>5 DEF IdleTooLong, Prints, EndsCell, Dies
  <1>6. Reap \/ ReapNext \/ UNCHANGED vars => UNCHANGED requests
    BY DEF Reap, ReapNext, vars
  <1> QED
    BY <1>1, <1>2, <1>3, <1>4, <1>5, <1>6 DEF Next, Execute, Restart

-----------------------------------------------------------------------------
(* LockInv. *)

\* A session whose lock is free, or is another's, boots or runs nothing of q's.
LEMMA Apart ==
    ASSUME TypeOK, MyInv, LockInv, NEW q \in Requests, pc[q] \in {"boot", "run"}
    PROVE  my[q] \in Sessions /\ lock[my[q]] = q /\ q # None
  BY KernelsAssumption DEF TypeOK, MyInv, LockInv

LEMMA LockStep == TypeOK /\ MyInv /\ LockInv /\ [Next]_vars => LockInv'
  <1> SUFFICES ASSUME TypeOK, MyInv, LockInv, [Next]_vars,
                      NEW q \in Requests, pc'[q] \in {"boot", "run"}
               PROVE  lock'[my'[q]] = q /\ (pc'[q] = "run" => status'[my'[q]] = "busy")
    BY DEF LockInv
  <1> DEFINE Goal == lock'[my'[q]] = q /\ (pc'[q] = "run" => status'[my'[q]] = "busy")
  <1>0. ASSUME pc[q] = pc'[q], my[q] = my'[q]
        PROVE  /\ my[q] \in Sessions /\ lock[my[q]] = q /\ q # None
               /\ pc'[q] = "run" => status[my[q]] = "busy"
    BY <1>0, Apart DEF LockInv
  <1>1. ASSUME NEW r \in Requests, NEW k \in Kids, NEW what \in {"execute", "restart"},
               Enter(r, k, what)
        PROVE  Goal
    <2>1. q # r /\ pc[q] = pc'[q] /\ my[q] = my'[q]
      BY <1>1 DEF TypeOK, Enter, GoTo
    <2>2. CASE UNCHANGED sessions
      BY <1>0, <2>1, <2>2 DEF sessions
    <2>3. ASSUME NEW s \in Unused, status' = [status EXCEPT ![s] = "stopped"], UNCHANGED lock
          PROVE  Goal
      <3>1. my[q] # s
        BY <2>3 DEF Unused, Holders
      <3> QED
        BY <1>0, <2>1, <2>3, <3>1 DEF TypeOK, Unused
    <2> QED
      BY <1>1, <2>2, <2>3 DEF Enter
  <1>2. ASSUME NEW r \in Requests, NEW k \in Kids, Delete(r, k) PROVE Goal
    BY <1>0, <1>2 DEF TypeOK, Delete, GoTo, sessions
  <1>3. ASSUME NEW s \in Sessions, Shutdown(s), pc[q] = pc'[q], my[q] = my'[q] PROVE Goal
    BY <1>0, <1>3 DEF TypeOK, Shutdown
  <1>4. ASSUME NEW r \in Requests, Works(r) PROVE Goal
    <2>1. my[r] \in Sessions
      BY <1>4, WorksOnSession
    <2>2. CASE Stop(r)
      BY <1>3, <2>1, <2>2 DEF TypeOK, Stop, GoTo, Answer
    <2>3. CASE Start(r)
      <3>1. CASE Started(r) /\ UNCHANGED <<lock, status>>
        BY <1>0, <2>3, <3>1 DEF TypeOK, Start, Started, GoTo, Answer
      <3>2. CASE /\ lock' = [lock EXCEPT ![my[r]] = r]
                 /\ status' = [status EXCEPT ![my[r]] = "starting"]
                 /\ GoTo(r, "boot") /\ UNCHANGED <<op, my, got>>
        BY <1>0, <2>1, <2>3, <3>2 DEF TypeOK, Start, GoTo
      <3> QED
        BY <2>3, <3>1, <3>2 DEF Start
    <2>4. CASE Boot(r) \/ BootFails(r)
      <3>1. lock[my[r]] = r
        BY <2>4 DEF LockInv, Boot, BootFails
      <3>2. q # r /\ pc[q] = pc'[q] /\ my[q] = my'[q]
        BY <2>4 DEF TypeOK, Boot, BootFails, Started, GoTo, Answer
      <3>3. my[q] # my[r]
        BY <1>0, <3>1, <3>2
      <3> QED
        BY <1>0, <2>1, <2>4, <3>2, <3>3 DEF TypeOK, Boot, BootFails
    <2>5. CASE Lock(r)
      BY <1>0, <2>1, <2>5 DEF TypeOK, Lock, GoTo
    <2>6. ASSUME NEW unread, Finish(r, unread), pc[r] = "run" PROVE Goal
      <3>1. lock[my[r]] = r
        BY <2>6 DEF LockInv
      <3>2. q # r /\ pc[q] = pc'[q] /\ my[q] = my'[q]
        BY <2>6 DEF TypeOK, Finish, Answer
      <3>3. my[q] # my[r]
        BY <1>0, <3>1, <3>2
      <3> QED
        BY <1>0, <2>1, <2>6, <3>2, <3>3 DEF TypeOK, Finish
    <2>7. CASE Read(r)
      BY <1>0, <2>6, <2>7 DEF Read
    <2>8. CASE Timeout(r) \/ NoKernel(r)
      BY <2>6, <2>8 DEF Timeout, NoKernel
    <2> QED
      BY <1>4, <2>2, <2>3, <2>4, <2>5, <2>7, <2>8 DEF Works
  <1>5. CASE UNCHANGED <<lock, status, requests>>
    BY <1>0, <1>5 DEF requests
  <1>6. ASSUME NEW s \in Sessions, IdleTooLong(s) \/ Prints(s) \/ EndsCell(s) \/ Dies(s)
        PROVE  UNCHANGED <<lock, status, requests>>
    BY <1>6 DEF IdleTooLong, Prints, EndsCell, Dies
  <1>7. Reap \/ UNCHANGED vars => UNCHANGED <<lock, status, requests>>
    BY DEF Reap, vars, sessions
  <1>8. CASE ReapNext
    <2>1. PICK s \in Sessions : Shutdown(s) /\ UNCHANGED requests
      BY <1>8 DEF ReapNext, TypeOK
    <2> QED
      BY <1>3, <2>1 DEF requests
  <1> QED
    BY <1>1, <1>2, <1>4, <1>5, <1>6, <1>7, <1>8 DEF Next, Execute, Restart

-----------------------------------------------------------------------------
(* BootInv and LeftBehind. *)

LEMMA BootStep == TypeOK /\ MyInv /\ LockInv /\ BootInv /\ [Next]_vars => BootInv'
  <1> SUFFICES ASSUME TypeOK, MyInv, LockInv, BootInv, [Next]_vars,
                      NEW q \in Requests, pc'[q] = "boot"
               PROVE  kernel'[my'[q]] # "live"
    BY DEF BootInv
  <1> DEFINE Goal == kernel'[my'[q]] # "live"
  <1>0. ASSUME pc[q] = pc'[q], my[q] = my'[q]
        PROVE  my[q] \in Sessions /\ kernel[my[q]] # "live" /\ lock[my[q]] = q
    BY <1>0, Apart DEF BootInv
  <1>1. ASSUME pc[q] = pc'[q], my[q] = my'[q], NEW x \in Sessions, NEW v \in {"none", "dead"},
               kernel' = kernel \/ kernel' = [kernel EXCEPT ![x] = v]
        PROVE  Goal
    BY <1>0, <1>1 DEF TypeOK
  <1>2. ASSUME NEW r \in Requests, NEW k \in Kids, NEW what \in {"execute", "restart"},
               Enter(r, k, what)
        PROVE  Goal
    <2>1. pc[q] = pc'[q] /\ my[q] = my'[q]
      BY <1>2 DEF TypeOK, Enter, GoTo
    <2>2. kernel' = kernel \/ \E n \in Sessions : kernel' = [kernel EXCEPT ![n] = "none"]
      BY <1>2 DEF Enter, Unused, sessions
    <2> QED
      BY <1>0, <1>1, <2>1, <2>2
  <1>3. ASSUME NEW s \in Sessions, Shutdown(s), pc[q] = pc'[q], my[q] = my'[q] PROVE Goal
    BY <1>1, <1>3 DEF Shutdown
  <1>4. ASSUME NEW r \in Requests, Works(r) PROVE Goal
    <2>1. my[r] \in Sessions
      BY <1>4, WorksOnSession
    <2>2. CASE Stop(r)
      BY <1>3, <2>1, <2>2 DEF TypeOK, Stop, GoTo, Answer
    <2>3. CASE Start(r)
      BY <1>0, <2>1, <2>3 DEF TypeOK, Start, Started, GoTo, Answer
    <2>4. CASE Boot(r)
      <3>1. lock[my[r]] = r
        BY <2>4 DEF LockInv, Boot
      <3>2. q # r /\ pc[q] = pc'[q] /\ my[q] = my'[q]
        BY <2>4 DEF TypeOK, Boot, Started, GoTo, Answer
      <3>3. my[q] # my[r]
        BY <1>0, <3>1, <3>2
      <3> QED
        BY <1>0, <2>1, <2>4, <3>2, <3>3 DEF TypeOK, Boot
    <2>5. CASE ~Stop(r) /\ ~Start(r) /\ ~Boot(r)
      <3>1. UNCHANGED kernel
        BY <1>4, <2>5 DEF Works, BootFails, Lock, Read, Timeout, NoKernel, Finish
      <3>2. pc[q] = pc'[q] /\ my[q] = my'[q]
        <4>1. \/ Answer(r)
              \/ pc' = [pc EXCEPT ![r] = "run"] /\ UNCHANGED my
              \/ UNCHANGED <<pc, my>>
          BY <1>4, <2>5 DEF Works, BootFails, Lock, Read, Timeout, NoKernel, Finish, GoTo
        <4> QED
          BY <4>1 DEF TypeOK, Answer
      <3> QED
        BY <1>0, <3>1, <3>2
    <2> QED
      BY <2>2, <2>3, <2>4, <2>5
  <1>5. CASE ReapNext
    <2>1. PICK s \in Sessions : Shutdown(s) /\ UNCHANGED requests
      BY <1>5 DEF ReapNext, TypeOK
    <2> QED
      BY <1>3, <2>1 DEF requests
  <1>6. ASSUME NEW s \in Sessions, IdleTooLong(s) \/ Prints(s) \/ EndsCell(s) \/ Dies(s)
        PROVE  Goal
    BY <1>1, <1>6 DEF IdleTooLong, Prints, EndsCell, Dies, requests
  <1>7. ASSUME NEW r \in Requests, NEW k \in Kids, Delete(r, k) PROVE Goal
    BY <1>0, <1>7 DEF TypeOK, Delete, GoTo, sessions
  <1>8. CASE Reap \/ UNCHANGED vars
    BY <1>0, <1>8 DEF Reap, vars, sessions, requests
  <1> QED
    BY <1>2, <1>4, <1>5, <1>6, <1>7, <1>8 DEF Next, Execute, Restart

\* Fewer faults are left for every process left behind, and faults do not come back.
LEMMA PopKeepsFaults ==
    ASSUME TypeOK, NEW gone \in SUBSET Sessions, Pop(gone)
    PROVE  left'["fault"] = left["fault"]
  BY DEF TypeOK, Pop, Events

LEMMA SpendFault ==
    ASSUME TypeOK, NEW e \in Events, Spend(e)
    PROVE  /\ left["fault"] \in Nat
           /\ e = "fault" => left'["fault"] = left["fault"] - 1
           /\ e # "fault" => left'["fault"] = left["fault"]
  BY DEF TypeOK, Spend, Events

LEMMA LeftStep == TypeOK /\ MyInv /\ BootInv /\ LeftBehind /\ [Next]_vars => LeftBehind'
  <1> SUFFICES ASSUME TypeOK, MyInv, BootInv, LeftBehind, [Next]_vars PROVE LeftBehind'
    OBVIOUS
  <1>0. /\ orphans \in Nat /\ left["fault"] \in Nat /\ Budget["fault"] \in Nat
        /\ orphans + left["fault"] <= Budget["fault"]
    BY KernelsAssumption DEF TypeOK, LeftBehind, Events
  <1>1. ASSUME orphans' \in {orphans, orphans + 1}, left'["fault"] = left["fault"] - 1
        PROVE  LeftBehind'
    BY <1>0, <1>1 DEF LeftBehind
  <1>2. ASSUME orphans' = orphans, left'["fault"] = left["fault"] PROVE LeftBehind'
    BY <1>2 DEF LeftBehind
  <1>3. ASSUME NEW s \in Sessions, Shutdown(s) PROVE LeftBehind'
    <2>1. CASE UNCHANGED <<orphans, left>>
      BY <1>2, <2>1
    <2>2. CASE Spend("fault") /\ orphans' = orphans + 1
      <3>1. left'["fault"] = left["fault"] - 1
        BY <2>2, SpendFault DEF Events
      <3> QED
        BY <1>1, <2>2, <3>1
    <2> QED
      BY <1>3, <2>1, <2>2 DEF Shutdown
  <1>4. ASSUME NEW r \in Requests, Works(r) PROVE LeftBehind'
    <2>1. CASE Stop(r)
      BY <1>3, <1>4, <2>1, WorksOnSession DEF Stop
    <2>2. CASE Boot(r)
      <3>1. kernel[my[r]] # "live"
        BY <2>2 DEF BootInv, Boot
      <3> QED
        BY <1>2, <2>2, <3>1 DEF Boot
    <2>3. CASE BootFails(r)
      <3>1. left'["fault"] = left["fault"] - 1
        BY <2>3, SpendFault DEF BootFails, Events
      <3> QED
        BY <1>1, <2>3, <3>1 DEF BootFails
    <2>4. CASE Timeout(r)
      <3>1. left'["fault"] = left["fault"]
        BY <2>4, SpendFault DEF Timeout, Events
      <3> QED
        BY <1>2, <2>4, <3>1 DEF Timeout, Finish
    <2>5. CASE Start(r) \/ Lock(r) \/ Read(r) \/ NoKernel(r)
      BY <1>2, <2>5 DEF Start, Lock, Read, NoKernel, Finish
    <2> QED
      BY <1>4, <2>1, <2>2, <2>3, <2>4, <2>5 DEF Works
  <1>5. CASE ReapNext
    BY <1>3, <1>5 DEF ReapNext, TypeOK
  <1>6. ASSUME NEW r \in Requests, NEW k \in Kids, Delete(r, k) PROVE LeftBehind'
    <2>1. left'["fault"] = left["fault"]
      <3>1. {kernels[k]} \in SUBSET Sessions
        BY <1>6 DEF TypeOK, Delete
      <3> QED
        BY <1>6, <3>1, PopKeepsFaults DEF Delete
    <2> QED
      BY <1>2, <1>6, <2>1 DEF Delete
  <1>7. CASE Reap
    <2>1. left'["fault"] = left["fault"]
      <3>1. victims' \in SUBSET Sessions
        BY <1>7, RegisteredType DEF Reap
      <3> QED
        BY <1>7, <3>1, PopKeepsFaults DEF Reap
    <2> QED
      BY <1>2, <1>7, <2>1 DEF Reap
  <1>8. ASSUME NEW s \in Sessions, Prints(s) \/ Dies(s) PROVE LeftBehind'
    <2>1. left'["fault"] \in {left["fault"], left["fault"] - 1} /\ orphans' = orphans
      BY <1>8, SpendFault DEF Prints, Dies, Events
    <2> QED
      BY <1>1, <1>2, <2>1
  <1>9. ASSUME NEW s \in Sessions, IdleTooLong(s) \/ EndsCell(s) PROVE LeftBehind'
    BY <1>2, <1>9 DEF IdleTooLong, EndsCell
  <1>10. ASSUME NEW r \in Requests, NEW k \in Kids, NEW what \in {"execute", "restart"},
                Enter(r, k, what)
         PROVE  LeftBehind'
    BY <1>2, <1>10 DEF Enter
  <1>11. CASE UNCHANGED vars
    BY <1>2, <1>11 DEF vars
  <1> QED
    BY <1>4, <1>5, <1>6, <1>7, <1>8, <1>9, <1>10, <1>11 DEF Next, Execute, Restart

-----------------------------------------------------------------------------
(* OutsideInv and SessionStrays. *)

\* Who is idle now had no session to begin with.
LEMMA IdleHasNone ==
    ASSUME MyInv, NEW r \in Requests, pc[r] = "idle", NEW s \in Sessions
    PROVE  my[r] # s
  BY KernelsAssumption DEF MyInv

LEMMA OutsideStep ==
    TypeOK /\ MyInv /\ OutsideInv /\ SessionStrays /\ [Next]_vars
    => OutsideInv' /\ SessionStrays'
  <1> SUFFICES ASSUME TypeOK, MyInv, OutsideInv, SessionStrays, [Next]_vars,
                      NEW s \in Sessions, s \notin Registered', s \notin raced'
               PROVE  /\ \A r \in Requests :
                            my'[r] = s => op'[r] = "delete" /\ pc'[r] = "stop"
                      /\ kernel'[s] = "live" => Doomed(s)'
    BY DEF OutsideInv, SessionStrays
  <1> DEFINE Mine == \A r \in Requests : my'[r] = s => op'[r] = "delete" /\ pc'[r] = "stop"
             Stray == kernel'[s] = "live" => Doomed(s)'
  <1> USE KernelsAssumption
  <1>0. ASSUME UNCHANGED <<kernels, raced>>
        PROVE  /\ \A r \in Requests : my[r] = s => op[r] = "delete" /\ pc[r] = "stop"
               /\ kernel[s] = "live" => Doomed(s)
    BY <1>0 DEF OutsideInv, SessionStrays, Registered
  <1>1. ASSUME NEW r \in Requests, NEW k \in Kids, NEW what \in {"execute", "restart"},
               Enter(r, k, what)
        PROVE  Mine /\ Stray
    <2>1. /\ op' = [op EXCEPT ![r] = what] /\ pc[r] = "idle"
          /\ \E where : pc' = [pc EXCEPT ![r] = where]
          /\ UNCHANGED victims
      BY <1>1 DEF Enter, GoTo
    <2>2. CASE /\ kernels[k] # None /\ my' = [my EXCEPT ![r] = kernels[k]]
               /\ UNCHANGED <<kernels, sessions, raced>>
      <3>1. kernels[k] # s
        BY <2>2 DEF Registered
      <3>2. Mine
        BY <1>0, <2>1, <2>2, <3>1 DEF TypeOK
      <3>3. Stray
        BY <1>0, <2>1, <2>2, <3>1, IdleHasNone DEF TypeOK, Doomed, sessions
      <3> QED
        BY <3>2, <3>3
    <2>3. ASSUME NEW n \in Unused, kernels[k] = None, kernels' = [kernels EXCEPT ![k] = n],
                 my' = [my EXCEPT ![r] = n], kernel' = [kernel EXCEPT ![n] = "none"],
                 raced' = raced \ {n}
          PROVE  Mine /\ Stray
      <3>1. n \in Registered' /\ n # s
        <4>1. kernels'[k] = n /\ n \in Sessions
          BY <2>3 DEF TypeOK, Unused
        <4> QED
          BY <4>1 DEF Registered
      <3>2. s \notin Registered /\ s \notin raced
        <4>1. \A x \in Kids : kernels[x] # None => kernels'[x] = kernels[x]
          BY <2>3 DEF TypeOK
        <4> QED
          BY <2>3, <3>1, <4>1 DEF Registered
      <3>3. Mine
        BY <2>1, <2>3, <3>1, <3>2 DEF TypeOK, OutsideInv
      <3>4. Stray
        BY <2>1, <2>3, <3>1, <3>2, IdleHasNone DEF TypeOK, SessionStrays, Doomed, Unused
      <3> QED
        BY <3>3, <3>4
    <2> QED
      BY <1>1, <2>2, <2>3 DEF Enter
  <1>2. ASSUME NEW gone \in SUBSET Sessions, Pop(gone), s \notin gone
        PROVE  s \notin Registered /\ s \notin raced
    BY <1>2 DEF Pop, Registered
  <1>3. ASSUME NEW r \in Requests, NEW k \in Kids, Delete(r, k) PROVE Mine /\ Stray
    <2>1. /\ kernels[k] \in Sessions /\ Pop({kernels[k]}) /\ pc[r] = "idle"
          /\ my' = [my EXCEPT ![r] = kernels[k]] /\ op' = [op EXCEPT ![r] = "delete"]
          /\ pc' = [pc EXCEPT ![r] = "stop"] /\ UNCHANGED <<kernel, victims>>
      BY <1>3 DEF TypeOK, Delete, GoTo, sessions
    <2>2. CASE s = kernels[k]
      <3>1. Holders(s) = {}
        BY <2>1, <2>2 DEF Pop
      <3>2. my'[r] = s /\ op'[r] = "delete" /\ pc'[r] = "stop"
        BY <2>1, <2>2 DEF TypeOK
      <3>3. Doomed(s)'
        BY <3>2 DEF Doomed
      <3> QED
        BY <2>1, <3>1, <3>2, <3>3 DEF TypeOK, Holders
    <2>3. CASE s # kernels[k]
      <3>1. s \notin Registered /\ s \notin raced
        BY <1>2, <2>1, <2>3
      <3>2. Mine
        BY <2>1, <2>3, <3>1 DEF TypeOK, OutsideInv
      <3>3. Stray
        BY <2>1, <2>3, <3>1, IdleHasNone DEF TypeOK, SessionStrays, Doomed
      <3> QED
        BY <3>2, <3>3
    <2> QED
      BY <2>2, <2>3
  <1>4. CASE Reap
    <2>1. /\ victims' \subseteq Sessions /\ Pop(victims') /\ victims = {}
          /\ UNCHANGED <<kernel, pc, op, my>>
      BY <1>4, RegisteredType DEF Reap, sessions, requests
    <2>2. CASE s \in victims'
      <3>1. Holders(s) = {}
        BY <2>1, <2>2 DEF Pop
      <3> QED
        BY <2>1, <2>2, <3>1 DEF Holders, Doomed
    <2>3. CASE s \notin victims'
      <3>1. s \notin Registered /\ s \notin raced
        BY <1>2, <2>1, <2>3
      <3> QED
        BY <2>1, <2>3, <3>1 DEF OutsideInv, SessionStrays, Doomed
    <2> QED
      BY <2>2, <2>3
  <1>5. CASE ReapNext
    <2>1. PICK v \in Sessions : Shutdown(v) /\ victims' = victims \ {v} /\ UNCHANGED requests
      BY <1>5 DEF ReapNext, TypeOK
    <2>2. UNCHANGED <<kernels, raced, pc, op, my>> /\ kernel' = [kernel EXCEPT ![v] = "none"]
      BY <2>1 DEF Shutdown, requests
    <2> QED
      BY <1>0, <2>1, <2>2 DEF TypeOK, Doomed
  <1>6. ASSUME NEW r \in Requests, Works(r) PROVE Mine /\ Stray
    <2>0. UNCHANGED <<kernels, raced, victims>> /\ my[r] \in Sessions
      BY <1>6, WorksOnSession DEF Works, Stop, Start, Boot, BootFails, Lock, Read, Timeout,
                                  NoKernel, Shutdown, Finish
    <2>1. CASE Stop(r)
      <3>1. kernel' = [kernel EXCEPT ![my[r]] = "none"]
        BY <2>1 DEF Stop, Shutdown
      <3>2. CASE op[r] = "restart"
        <4>1. pc' = [pc EXCEPT ![r] = "start"] /\ UNCHANGED <<op, my>>
          BY <2>1, <3>2 DEF Stop, GoTo
        <4>2. my[r] # s
          BY <1>0, <2>0, <3>2
        <4> QED
          BY <1>0, <2>0, <3>1, <3>2, <4>1, <4>2 DEF TypeOK, Doomed
      <3>3. CASE op[r] # "restart"
        <4>1. Answer(r)
          BY <2>1, <3>3 DEF Stop
        <4> QED
          BY <1>0, <2>0, <3>1, <4>1 DEF TypeOK, Doomed, Answer
      <3> QED
        BY <3>2, <3>3
    <2>2. CASE ~Stop(r)
      <3>1. pc[r] # "stop" /\ my[r] # s
        BY <1>0, <1>6, <2>0, <2>2 DEF Works, Start, Boot, BootFails, Lock, Read, Timeout,
                                      NoKernel
      <3>2. \/ Answer(r)
            \/ (\E where : pc' = [pc EXCEPT ![r] = where]) /\ UNCHANGED <<op, my>>
            \/ UNCHANGED <<pc, op, my>>
        BY <1>6, <2>2 DEF Works, Start, Started, Boot, BootFails, Lock, Read, Timeout,
                          NoKernel, Finish, GoTo
      <3>3. kernel'[s] = kernel[s]
        BY <1>6, <2>0, <2>2, <3>1 DEF TypeOK, Works, Start, Boot, BootFails, Lock, Read,
                                      Timeout, NoKernel, Finish
      <3>4. \A q \in Requests : q # r => /\ my'[q] = my[q] /\ op'[q] = op[q]
                                         /\ pc'[q] = pc[q]
        BY <3>2 DEF TypeOK, Answer
      <3>5. my'[r] # s
        BY <3>1, <3>2 DEF TypeOK, Answer
      <3> QED
        BY <1>0, <2>0, <3>1, <3>3, <3>4, <3>5 DEF Doomed
    <2> QED
      BY <2>1, <2>2
  <1>7. ASSUME UNCHANGED <<kernels, raced, requests, victims>>,
               kernel' = kernel \/ \E x \in Sessions : kernel' = [kernel EXCEPT ![x] = "dead"]
        PROVE  Mine /\ Stray
    BY <1>0, <1>7 DEF TypeOK, Doomed, requests
  <1>8. ASSUME NEW x \in Sessions, IdleTooLong(x) \/ Prints(x) \/ EndsCell(x) \/ Dies(x)
        PROVE  Mine /\ Stray
    BY <1>7, <1>8 DEF IdleTooLong, Prints, EndsCell, Dies
  <1>9. CASE UNCHANGED vars
    BY <1>7, <1>9 DEF vars, sessions
  <1> QED
    BY <1>1, <1>3, <1>4, <1>5, <1>6, <1>8, <1>9 DEF Next, Execute, Restart

-----------------------------------------------------------------------------
(* OwnOutputs.                                                             *)
(*                                                                         *)
(* A request reads only messages marked as its own, so the question is     *)
(* what the mark is worth: while no request runs a cell in a session,      *)
(* nothing in it is marked.  What a request finds marked was therefore     *)
(* marked for its own run.                                                 *)

Marked(s) == \/ \E i \in DOMAIN iopub[s] : iopub[s][i].mine
             \/ \E i \in DOMAIN cells[s] : cells[s][i]
InUse(s)  == \E r \in Requests : pc[r] = "run" /\ my[r] = s

MarksInv == \A s \in Sessions : Marked(s) => InUse(s)

LEMMA TailOf ==
    ASSUME NEW S, NEW q \in Seq(S), q # <<>>
    PROVE  /\ \A i \in DOMAIN Tail(q) : \E j \in DOMAIN q : Tail(q)[i] = q[j]
           /\ \E j \in DOMAIN q : Head(q) = q[j]
  <1>1. /\ DOMAIN q = 1..Len(q) /\ Len(q) \in Nat \ {0}
        /\ DOMAIN Tail(q) = 1..(Len(q) - 1)
        /\ \A i \in 1..(Len(q) - 1) : Tail(q)[i] = q[i + 1]
        /\ Head(q) = q[1]
    OBVIOUS
  <1>2. \A n \in Nat \ {0} : /\ 1 \in 1..n
                             /\ \A i \in 1..(n - 1) : i + 1 \in 1..n
    OBVIOUS
  <1> QED
    BY <1>1, <1>2

LEMMA AppendOf ==
    ASSUME NEW S, NEW q \in Seq(S), NEW m \in S
    PROVE  \A i \in DOMAIN Append(q, m) :
              Append(q, m)[i] = m \/ \E j \in DOMAIN q : Append(q, m)[i] = q[j]
  OBVIOUS

LEMMA MarksStep ==
    TypeOK /\ MyInv /\ LockInv /\ MarksInv /\ [Next]_vars => MarksInv'
  <1> SUFFICES ASSUME TypeOK, MyInv, LockInv, MarksInv, [Next]_vars,
                      NEW s \in Sessions, Marked(s)'
               PROVE  InUse(s)'
    BY DEF MarksInv
  <1> DEFINE Goal == InUse(s)'
  <1> USE KernelsAssumption
  <1>0. Marked(s) => InUse(s)
    BY DEF MarksInv
  \* What was marked already keeps the request that it was marked for.
  <1>a. ASSUME iopub'[s] = iopub[s], cells'[s] = cells[s] \/ cells'[s] = <<>>,
               \A r \in Requests : pc[r] = "run" /\ my[r] = s => pc'[r] = "run" /\ my'[r] = s
        PROVE  Goal
    <2>1. Marked(s)
      BY <1>a DEF Marked
    <2> QED
      BY <1>0, <1>a, <2>1 DEF InUse
  <1>b. ASSUME iopub'[s] = <<>>, cells'[s] = <<>> PROVE Goal
    BY <1>b DEF Marked
  <1>1. ASSUME NEW r \in Requests, NEW k \in Kids, NEW what \in {"execute", "restart"},
               Enter(r, k, what)
        PROVE  Goal
    <2>1. \A q \in Requests : pc[q] = "run" => pc'[q] = "run" /\ my'[q] = my[q]
      BY <1>1 DEF TypeOK, Enter, GoTo
    <2>2. CASE UNCHANGED sessions
      BY <1>a, <2>1, <2>2 DEF sessions
    <2>3. ASSUME NEW n \in Unused, cells' = [cells EXCEPT ![n] = <<>>],
                 iopub' = [iopub EXCEPT ![n] = <<>>]
          PROVE  Goal
      BY <1>a, <1>b, <2>1, <2>3 DEF TypeOK, Unused
    <2> QED
      BY <1>1, <2>2, <2>3 DEF Enter
  <1>2. ASSUME NEW r \in Requests, NEW k \in Kids, Delete(r, k) PROVE Goal
    <2>1. \A q \in Requests : pc[q] = "run" => pc'[q] = "run" /\ my'[q] = my[q]
      BY <1>2 DEF TypeOK, Delete, GoTo
    <2> QED
      BY <1>2, <1>a, <2>1 DEF Delete, sessions
  <1>3. ASSUME NEW x \in Sessions, Shutdown(x),
               \A q \in Requests : pc[q] = "run" => pc'[q] = "run" /\ my'[q] = my[q]
        PROVE  Goal
    <2>1. cells' = [cells EXCEPT ![x] = <<>>] /\ iopub' = [iopub EXCEPT ![x] = <<>>]
      BY <1>3 DEF Shutdown
    <2>2. CASE x = s
      BY <1>b, <2>1, <2>2 DEF TypeOK
    <2>3. CASE x # s
      BY <1>3, <1>a, <2>1, <2>3 DEF TypeOK
    <2> QED
      BY <2>2, <2>3
  <1>4. ASSUME NEW r \in Requests, Works(r) PROVE Goal
    <2>1. my[r] \in Sessions
      BY <1>4, WorksOnSession
    <2>2. CASE Stop(r)
      <3>1. \A q \in Requests : pc[q] = "run" => pc'[q] = "run" /\ my'[q] = my[q]
        BY <2>2 DEF TypeOK, Stop, GoTo, Answer
      <3> QED
        BY <1>3, <2>1, <2>2, <3>1 DEF Stop
    <2>3. CASE Start(r) \/ BootFails(r)
      <3>1. pc[r] # "run" /\ UNCHANGED <<cells, iopub>>
        BY <2>3 DEF Start, BootFails
      <3>2. \A q \in Requests : q # r => pc'[q] = pc[q] /\ my'[q] = my[q]
        BY <2>3 DEF TypeOK, Start, BootFails, Started, GoTo, Answer
      <3> QED
        BY <1>a, <3>1, <3>2
    <2>4. CASE Boot(r)
      <3>1. /\ pc[r] # "run"
            /\ cells' = [cells EXCEPT ![my[r]] = <<>>] /\ iopub' = [iopub EXCEPT ![my[r]] = <<>>]
        BY <2>4 DEF Boot
      <3>2. \A q \in Requests : q # r => pc'[q] = pc[q] /\ my'[q] = my[q]
        BY <2>4 DEF TypeOK, Boot, Started, GoTo, Answer
      <3>3. CASE my[r] = s
        BY <1>b, <3>1, <3>3 DEF TypeOK
      <3>4. CASE my[r] # s
        BY <1>a, <3>1, <3>2, <3>4 DEF TypeOK
      <3> QED
        BY <3>3, <3>4
    <2>5. CASE Lock(r)
      <3>1. /\ pc'[r] = "run" /\ my' = my /\ iopub' = iopub
            /\ \A q \in Requests : q # r => pc'[q] = pc[q]
            /\ \A x \in Sessions : x # my[r] => cells'[x] = cells[x]
        BY <2>5 DEF TypeOK, Lock, GoTo
      <3>2. CASE my[r] = s
        BY <3>1, <3>2 DEF InUse
      <3>3. CASE my[r] # s
        BY <1>a, <3>1, <3>3
      <3> QED
        BY <3>2, <3>3
    <2>6. ASSUME NEW unread, Finish(r, unread), pc[r] = "run" PROVE Goal
      <3>1. \A q \in Requests : q # r => pc'[q] = pc[q] /\ my'[q] = my[q]
        BY <2>6 DEF TypeOK, Finish, Answer
      <3>2. /\ cells' = [cells EXCEPT ![my[r]] = [i \in DOMAIN @ |-> FALSE]]
            /\ iopub' = [iopub EXCEPT ![my[r]] = [i \in DOMAIN unread |->
                                          [mine |-> FALSE, last |-> unread[i].last]]]
        BY <2>6 DEF Finish
      <3>3. CASE my[r] = s
        <4>1. /\ \A i \in DOMAIN cells'[s] : cells'[s][i] = FALSE
              /\ \A i \in DOMAIN iopub'[s] : iopub'[s][i].mine = FALSE
          BY <3>2, <3>3 DEF TypeOK
        <4> QED
          BY <4>1 DEF Marked
      <3>4. CASE my[r] # s
        BY <1>a, <3>1, <3>2, <3>4 DEF TypeOK
      <3> QED
        BY <3>3, <3>4
    <2>7. CASE Read(r)
      <3>1. CASE Finish(r, Tail(iopub[my[r]]))
        BY <2>6, <2>7, <3>1 DEF Read
      <3>2. CASE iopub' = [iopub EXCEPT ![my[r]] = Tail(@)] /\ UNCHANGED <<cells, pc, my>>
        <4>1. CASE my[r] = s
          BY <2>7, <3>2, <4>1 DEF Read, InUse
        <4>2. CASE my[r] # s
          BY <1>a, <3>2, <4>2 DEF TypeOK
        <4> QED
          BY <4>1, <4>2
      <3> QED
        BY <2>7, <3>1, <3>2 DEF Read
    <2>8. CASE Timeout(r) \/ NoKernel(r)
      BY <2>6, <2>8 DEF Timeout, NoKernel
    <2> QED
      BY <1>4, <2>2, <2>3, <2>4, <2>5, <2>7, <2>8 DEF Works
  <1>5. ASSUME NEW x \in Sessions, Prints(x) \/ EndsCell(x) PROVE Goal
    <2>1. /\ \E last \in BOOLEAN :
                iopub' = [iopub EXCEPT ![x] = Append(@, [mine |-> Head(cells[x]), last |-> last])]
          /\ cells' = cells \/ cells' = [cells EXCEPT ![x] = Tail(@)]
          /\ cells[x] # <<>> /\ UNCHANGED requests
      BY <1>5 DEF Prints, EndsCell, Send
    <2>2. CASE x # s
      <3>1. iopub'[s] = iopub[s] /\ cells'[s] = cells[s] /\ pc' = pc /\ my' = my
        BY <2>1, <2>2 DEF TypeOK, requests
      <3> QED
        BY <1>a, <3>1
    <2>3. CASE x = s
      <3>0. cells[s] \in Seq(BOOLEAN) /\ iopub[s] \in Seq(Message) /\ cells[s] # <<>>
        BY <2>1, <2>3 DEF TypeOK
      <3>1. \E j \in DOMAIN cells[s] : Head(cells[s]) = cells[s][j]
        BY <3>0, TailOf
      <3>2. \A i \in DOMAIN Tail(cells[s]) : \E j \in DOMAIN cells[s] :
                Tail(cells[s])[i] = cells[s][j]
        BY <3>0, TailOf
      <3>3. Head(cells[s]) \in BOOLEAN
        BY <3>0, HeadTailType
      <3> PICK last \in BOOLEAN :
               iopub' = [iopub EXCEPT ![s] = Append(@, [mine |-> Head(cells[s]), last |-> last])]
        BY <2>1, <2>3
      <3> DEFINE m == [mine |-> Head(cells[s]), last |-> last]
      <3>4. m \in Message /\ m.mine = Head(cells[s])
        BY <3>3 DEF Message
      <3>5. iopub'[s] = Append(iopub[s], m)
        BY DEF TypeOK
      <3> HIDE DEF m
      <3>6. \A i \in DOMAIN iopub'[s] :
               iopub'[s][i] = m \/ \E j \in DOMAIN iopub[s] : iopub'[s][i] = iopub[s][j]
        BY <3>0, <3>4, <3>5, AppendOf
      <3>7. cells'[s] = cells[s] \/ cells'[s] = Tail(cells[s])
        BY <2>1, <2>3 DEF TypeOK
      <3>8. Marked(s)
        <4>1. CASE \E i \in DOMAIN cells'[s] : cells'[s][i]
          BY <3>2, <3>7, <4>1 DEF Marked
        <4>2. ASSUME NEW i \in DOMAIN iopub'[s], iopub'[s][i].mine PROVE Marked(s)
          <5>1. CASE iopub'[s][i] = m
            BY <3>1, <3>4, <4>2, <5>1 DEF Marked
          <5>2. CASE \E j \in DOMAIN iopub[s] : iopub'[s][i] = iopub[s][j]
            BY <4>2, <5>2 DEF Marked
          <5> QED
            BY <3>6, <5>1, <5>2
        <4> QED
          BY <4>1, <4>2 DEF Marked
      <3> QED
        BY <1>0, <2>1, <3>8 DEF InUse, requests
    <2> QED
      BY <2>2, <2>3
  <1>6. ASSUME NEW x \in Sessions, IdleTooLong(x) \/ Dies(x) PROVE Goal
    <2>1. /\ iopub' = iopub
          /\ cells' = cells \/ cells' = [cells EXCEPT ![x] = <<>>]
          /\ pc' = pc /\ my' = my
      BY <1>6 DEF IdleTooLong, Dies, requests
    <2>2. cells'[s] = cells[s] \/ cells'[s] = <<>>
      BY <2>1 DEF TypeOK
    <2> QED
      BY <1>a, <2>1, <2>2
  <1>7. CASE ReapNext
    <2>1. PICK v \in Sessions : Shutdown(v) /\ UNCHANGED requests
      BY <1>7 DEF ReapNext, TypeOK
    <2> QED
      BY <1>3, <2>1 DEF requests
  <1>8. CASE Reap \/ UNCHANGED vars
    BY <1>a, <1>8 DEF Reap, vars, sessions, requests
  <1> QED
    BY <1>1, <1>2, <1>4, <1>5, <1>6, <1>7, <1>8 DEF Next, Execute, Restart

LEMMA OutputsStep == TypeOK /\ OwnOutputs /\ [Next]_vars => OwnOutputs'
  <1> SUFFICES ASSUME TypeOK, OwnOutputs, [Next]_vars PROVE OwnOutputs'
    OBVIOUS
  <1>1. ASSUME NEW r \in Requests, Answer(r) PROVE OwnOutputs'
    BY <1>1 DEF TypeOK, OwnOutputs, Answer
  <1>2. CASE UNCHANGED got
    BY <1>2 DEF OwnOutputs
  <1>3. ASSUME NEW r \in Requests, Works(r) PROVE OwnOutputs'
    <2>1. CASE Read(r)
      <3>1. CASE Finish(r, Tail(iopub[my[r]]))
        BY <1>1, <3>1 DEF Finish
      <3>2. ASSUME NEW m, got' = [got EXCEPT ![r] = IF m.mine THEN @ \cup {m} ELSE @]
            PROVE  OwnOutputs'
        <4>1. \A q \in Requests : got'[q] = got[q] \/ (m.mine /\ got'[q] = got[q] \cup {m})
          BY <3>2 DEF TypeOK
        <4> QED
          BY <4>1 DEF OwnOutputs
      <3> QED
        BY <2>1, <3>1, <3>2 DEF Read
    <2> QED
      BY <1>1, <1>2, <1>3, <2>1 DEF Works, Stop, Start, Started, Boot, BootFails, Lock, Timeout,
                                    NoKernel, Finish
  <1> QED
    BY <1>2, <1>3 DEF Next, Execute, Restart, Enter, Delete, IdleTooLong, Prints, EndsCell, Dies,
                      Reap, ReapNext, vars, requests

-----------------------------------------------------------------------------
(* Theorems. *)

LEMMA InvInit == Init => Inv
  <1> SUFFICES ASSUME Init PROVE Inv
    OBVIOUS
  <1>1. MyInv /\ LockInv /\ BootInv /\ OutsideInv
    BY KernelsAssumption DEF Init, MyInv, LockInv, BootInv, OutsideInv
  <1>2. SessionStrays /\ LeftBehind
    BY KernelsAssumption DEF Init, SessionStrays, LeftBehind, Events
  <1> QED
    BY <1>1, <1>2, InitType DEF Inv

LEMMA InvStep == Inv /\ [Next]_vars => Inv'
  BY TypeStep, MyStep, LockStep, BootStep, OutsideStep, LeftStep DEF Inv

LEMMA Invariance == Spec => []Inv
  BY InvInit, InvStep, PTL DEF Spec

\* The kernels' state has its type, whatever the number of requests, ids and sessions.
THEOREM TypeCorrect == Spec => []TypeOK
  <1>1. Inv => TypeOK
    BY DEF Inv
  <1> QED
    BY <1>1, Invariance, PTL

\* KernelSession.execute_code: one request at a time boots or uses a session's kernel,
\* and the reaper sees that it is busy.
THEOREM OneCellAtATime == Spec => []RunsAreExclusive
  <1>1. Inv => RunsAreExclusive
    BY Apart DEF Inv, LockInv, RunsAreExclusive
  <1> QED
    BY <1>1, Invariance, PTL

\* delete and _reaper: what they take out of KERNELS is shut down for good, unless a
\* request found it before; start and shutdown: every process that no session refers to
\* was left behind by one of them that failed.
THEOREM NoOtherStrays == Spec => []StraysExplained
  <1>1. Inv => StraysExplained
    BY DEF Inv, SessionStrays, LeftBehind, StraysExplained
  <1> QED
    BY <1>1, Invariance, PTL

\* shutdown and start wait for the lock of a session that runs a cell: nothing but its
\* own death takes the kernel from under it.
THEOREM CellsAreUndisturbed == Spec => RunsUndisturbed
  <1>1. ASSUME Inv, [Next]_vars, NEW q \in Requests, pc[q] = "run", pc'[q] = "run"
        PROVE  \/ kernel'[my[q]] = kernel[my[q]]
               \/ kernel[my[q]] = "live" /\ kernel'[my[q]] = "dead"
    <2>1. TypeOK /\ my[q] \in Sessions /\ lock[my[q]] = q /\ q # None
      BY <1>1, Apart DEF Inv
    <2> DEFINE Safe == \/ kernel'[my[q]] = kernel[my[q]]
                       \/ kernel[my[q]] = "live" /\ kernel'[my[q]] = "dead"
    <2>2. ASSUME NEW s \in Sessions, Shutdown(s) PROVE Safe
      BY <2>1, <2>2 DEF TypeOK, Shutdown
    <2>3. ASSUME NEW r \in Requests, NEW k \in Kids, NEW what \in {"execute", "restart"},
                 Enter(r, k, what)
          PROVE  Safe
      <3>1. kernel' = kernel \/ \E n \in Unused : kernel' = [kernel EXCEPT ![n] = "none"]
        BY <2>3 DEF Enter, sessions
      <3>2. my[q] \notin Unused
        BY <2>1 DEF Unused, Holders
      <3> QED
        BY <2>1, <3>1, <3>2 DEF TypeOK
    <2>4. ASSUME NEW r \in Requests, Boot(r) PROVE Safe
      <3>1. pc'[r] # "run" /\ lock[my[r]] = r
        BY <1>1, <2>1, <2>4 DEF TypeOK, Inv, LockInv, Boot, Started, GoTo, Answer
      <3>2. my[r] # my[q]
        BY <1>1, <2>1, <3>1
      <3> QED
        BY <2>1, <2>4, <3>2 DEF TypeOK, Boot
    <2>5. ASSUME NEW r \in Requests, Works(r) PROVE Safe
      <3>1. CASE Stop(r)
        BY <1>1, <2>2, <2>5, <3>1, WorksOnSession DEF Inv, Stop
      <3>2. CASE Boot(r)
        BY <2>4, <3>2
      <3> QED
        BY <2>5, <3>1, <3>2 DEF Works, Start, BootFails, Lock, Read, Timeout, NoKernel, Finish
    <2>6. CASE ReapNext
      BY <2>1, <2>2, <2>6 DEF ReapNext, TypeOK
    <2>7. ASSUME NEW s \in Sessions, Dies(s) PROVE Safe
      BY <2>1, <2>7 DEF TypeOK, Dies
    <2>8. ASSUME NEW s \in Sessions, IdleTooLong(s) \/ Prints(s) \/ EndsCell(s) PROVE Safe
      BY <2>8 DEF IdleTooLong, Prints, EndsCell
    <2>9. ASSUME NEW r \in Requests, NEW k \in Kids, Delete(r, k) PROVE Safe
      BY <2>9 DEF Delete, sessions
    <2>10. Reap \/ UNCHANGED vars => Safe
      BY DEF Reap, vars, sessions
    <2> QED
      BY <1>1, <2>3, <2>5, <2>6, <2>7, <2>8, <2>9, <2>10 DEF Next, Execute, Restart
  <1>2. Inv /\ [Next]_vars =>
            [\A r \in Requests : pc[r] = "run" /\ pc'[r] = "run" =>
                \/ kernel'[my[r]] = kernel[my[r]]
                \/ kernel[my[r]] = "live" /\ kernel'[my[r]] = "dead"]_vars
    BY <1>1
  <1> QED
    BY <1>2, Invariance, PTL DEF Spec, RunsUndisturbed

\* execute_code's msg_id filter: what a request reads as its own is its own.  A cell's
\* outputs hold nothing of another cell, and between two cells nothing is left in a
\* session that the next one could take for its own.
THEOREM OutputsAreOwn == Spec => [](OwnOutputs /\ MarksInv)
  <1>1. Init => OwnOutputs /\ MarksInv
    BY DEF Init, OwnOutputs, MarksInv, Marked
  <1>2. Inv /\ (OwnOutputs /\ MarksInv) /\ [Next]_vars => (OwnOutputs /\ MarksInv)'
    BY MarksStep, OutputsStep DEF Inv
  <1> QED
    BY <1>1, <1>2, Invariance, PTL DEF Spec
=============================================================================
