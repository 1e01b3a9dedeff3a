--------------------------- MODULE AutoloaderProofs ---------------------------
(***************************************************************************)
(* Proofs about Autoloader: type correctness, SuccessMeansCommitted, that  *)
(* a known fingerprint is not loaded again, that faults bound the repeated *)
(* commits, the files a pipeline has counted, and that a pipeline nobody   *)
(* runs by hand implements IngestContract.                                 *)
(***************************************************************************)
EXTENDS Autoloader, FiniteSetTheorems, TLAPS

\* The stages in which a cycle has a file at hand, and its fingerprint.
WithFile == {"stat", "load", "checkpoint", "move", "audit", "fail"}
WithFp   == WithFile \ {"stat"}

\* What the types of the parts do not say: an upload under way has a stamp left, a
\* file that is present was stamped, and a cycle with a file at hand knows its path
\* and fingerprint.
UploadFits == loop \in Paths => stamp < MaxWrites
Stamped    == \A p \in Paths : /\ mtime[p] <= stamp
                               /\ Present(p) => mtime[p] \in Stamps
AtHand     == \A r \in Runners :
                 /\ stage[r] \in WithFile => path[r] \in Paths /\ fhash[r] \in Stamps
                 /\ stage[r] \in WithFp => fp[r] \in Stamps /\ fp[r] <= stamp

TypeInv == TypeOK /\ UploadFits /\ Stamped /\ AtHand

LEMMA TypeInit == Init => TypeInv
  <1> SUFFICES ASSUME Init PROVE TypeInv
    OBVIOUS
  <1> USE PathsAssumption, KindsAssumption, BoundsAssumption DEF Init
  <1>1. VolumeOK
    BY DEF VolumeOK, KindVal
  <1>2. PipelineOK
    BY DEF PipelineOK, ConfigRec
  <1>3. StoreOK
    BY DEF StoreOK, NoRows, Stamps
  <1>4. CycleOK
    BY <1>2 DEF CycleOK, PipelineOK, Stages
  <1>5. UploadFits /\ Stamped /\ AtHand
    BY DEF UploadFits, Stamped, AtHand, Present, WithFile, WithFp
  <1> QED
    BY <1>1, <1>2, <1>3, <1>4, <1>5 DEF TypeInv, TypeOK

LEMMA SpendType ==
    ASSUME left \in [Events -> Nat], NEW e \in Events, Spend(e)
    PROVE  left' \in [Events -> Nat]
  BY DEF Spend

LEMMA EventNames ==
    /\ "manual" \in Events /\ "crash" \in Events /\ "dbfail" \in Events
    /\ "writefail" \in Events /\ "reset" \in Events /\ "update" \in Events
    /\ "recreate" \in Events /\ "remove" \in Events
  BY DEF Events

\* The commit a cycle makes.
Loaded(r) == [fp |-> fp[r], content |-> mtime[path[r]],
              wide |-> AddsWideColumn(conf[r], kind[path[r]]), epoch |-> epoch]

LEMMA LoadedType ==
    ASSUME TypeInv, NEW r \in Runners, LoadCommit(r)
    PROVE  /\ Loaded(r) \in CommitRec /\ Loaded(r).fp = fp[r]
           /\ delta' = Append(delta, Loaded(r))
  BY BoundsAssumption
     DEF LoadCommit, Loaded, Readable, CommitRec, AddsWideColumn, TypeInv, TypeOK,
         StoreOK, Stamped, AtHand, Present, WithFile, WithFp

LEMMA TypeStep == TypeInv /\ [Next]_vars => TypeInv'
  <1> SUFFICES ASSUME TypeInv, [Next]_vars PROVE TypeInv'
    OBVIOUS
  <1> USE PathsAssumption, KindsAssumption, BoundsAssumption
      DEF TypeInv, TypeOK, VolumeOK, PipelineOK, StoreOK, CycleOK, Stamps, Stages,
          UploadFits, Stamped, AtHand, Present, WithFile, WithFp, GoTo,
          volume, pipeline, store, cycle
  <1>1. ASSUME NEW p \in Paths, UploadOpen(p) PROVE TypeInv'
    BY <1>1 DEF UploadOpen, WriteFile
  <1>2. ASSUME NEW p \in Paths, UploadClose(p) PROVE TypeInv'
    <2>1. loop = p /\ loop' = "idle" /\ stamp < MaxWrites
      BY <1>2 DEF UploadClose
    <2>2. CASE Present(p)
      <3> PICK k \in Kinds : WriteFile(p, "ready", k)
        BY <1>2, <2>2 DEF UploadClose
      <3> QED
        BY <1>2, <2>1 DEF UploadClose, WriteFile
    <2>3. CASE ~Present(p)
      BY <1>2, <2>1, <2>3 DEF UploadClose
    <2> QED
      BY <2>2, <2>3
  <1>3. ASSUME NEW p \in Paths, RemoveFile(p) PROVE TypeInv'
    BY <1>3, SpendType, EventNames DEF RemoveFile
  <1>4. CASE UpdatePipeline
    BY <1>4, SpendType, EventNames DEF UpdatePipeline, ConfigRec
  <1>5. CASE ResetCheckpoints
    <2>1. left' \in [Events -> Nat]
      BY <1>5, SpendType, EventNames DEF ResetCheckpoints
    <2>2. StoreOK'
      BY <1>5 DEF ResetCheckpoints, ClearHistory, NoRows
    <2> QED
      BY <1>5, <2>1, <2>2 DEF ResetCheckpoints, SetStatus
  <1>6. CASE DeletePipeline
    <2>1. left' \in [Events -> Nat]
      BY <1>6, SpendType, EventNames DEF DeletePipeline
    <2>2. StoreOK'
      BY <1>6 DEF DeletePipeline, ClearHistory, NoRows
    <2> QED
      BY <1>6, <2>1, <2>2 DEF DeletePipeline
  <1>7. CASE CreatePipeline
    BY <1>7 DEF CreatePipeline, ConfigRec
  <1>8. CASE DaemonDispatch
    BY <1>8 DEF DaemonDispatch, Runners
  <1>9. CASE RunNow
    BY <1>9, SpendType, EventNames DEF RunNow, Runners
  <1>10. ASSUME NEW r \in Runners, CycleStep(r) PROVE TypeInv'
    <2>1. CASE Fetch(r)
      <3>1. CASE exists
        <4>1. /\ GoTo(r, "start")
              /\ conf' = [conf EXCEPT ![r] = config]
              /\ UNCHANGED <<loop, known, found, todo, path, fhash, fp>>
              /\ UNCHANGED <<volume, pipeline, store, left>>
          BY <2>1, <3>1 DEF Fetch
        <4> QED
          BY <4>1
      <3>2. CASE ~exists
        <4>1. Return(r) /\ UNCHANGED <<volume, pipeline, store, left>>
          BY <2>1, <3>2 DEF Fetch
        <4> QED
          BY <4>1 DEF Return
      <3> QED
        BY <3>1, <3>2
    <2>2. CASE Start(r)
      BY <2>2 DEF Start, Succeeded, SetStatus
    <2>3. CASE Scan(r)
      BY <2>3 DEF Scan, Present
    <2>4. CASE Sort(r)
      <3>1. CASE \A p \in found[r] : Present(p)
        <4> DEFINE new == {[path |-> p, mtime |-> mtime[p]] : p \in found[r]}
        <4>1. new \subseteq TodoRec
          BY DEF TodoRec
        <4>2. /\ todo' = [todo EXCEPT ![r] = new]
              /\ found' = [found EXCEPT ![r] = {}]
              /\ stage' = [stage EXCEPT ![r] = "pick"]
              /\ UNCHANGED <<loop, conf, known, path, fhash, fp>>
              /\ UNCHANGED <<volume, pipeline, store, left>>
          BY <2>4, <3>1 DEF Sort
        <4> HIDE DEF new
        <4> QED
          BY <4>1, <4>2
      <3>2. CASE ~ \A p \in found[r] : Present(p)
        <4>1. Return(r) /\ UNCHANGED <<volume, pipeline, store, left>>
          BY <2>4, <3>2 DEF Sort
        <4> QED
          BY <4>1 DEF Return
      <3> QED
        BY <3>1, <3>2
    <2>5. CASE Pick(r)
      BY <2>5 DEF Pick, Take, Oldest, TodoRec
    <2>6. CASE Skip(r)
      BY <2>6 DEF Skip, Oldest
    <2>7. CASE PickNone(r)
      BY <2>7 DEF PickNone
    <2>8. CASE Finish(r)
      BY <2>8 DEF Finish, Return, SetStatus
    <2>9. CASE Stat(r)
      <3>1. CASE Present(path[r])
        <4>1. /\ fp' = [fp EXCEPT ![r] = mtime[path[r]]]
              /\ GoTo(r, "load")
              /\ UNCHANGED <<conf, known, found, todo, path, fhash>>
              /\ UNCHANGED <<volume, loop, pipeline, store, left>>
          BY <2>9, <3>1 DEF Stat
        <4>2. path[r] \in Paths /\ fhash[r] \in Stamps
          BY <2>9 DEF Stat
        <4>3. mtime[path[r]] \in Stamps /\ mtime[path[r]] <= stamp
          BY <4>2, <3>1
        <4> QED
          BY <4>1, <4>2, <4>3
      <3>2. CASE ~Present(path[r])
        <4>1. NextFile(r, {}) /\ UNCHANGED <<volume, loop, pipeline, store, left>>
          BY <2>9, <3>2 DEF Stat
        <4> QED
          BY <4>1 DEF NextFile
      <3> QED
        BY <3>1, <3>2
    <2>10. CASE LoadCommit(r)
      <3>1. Loaded(r) \in CommitRec /\ delta' = Append(delta, Loaded(r))
        BY <2>10, LoadedType
      <3>3. StoreOK'
        BY <2>10, <3>1 DEF LoadCommit
      <3> QED
        BY <2>10, <3>3 DEF LoadCommit
    <2>11. CASE LoadUnreadable(r)
      BY <2>11 DEF LoadUnreadable, OnlyStage
    <2>12. CASE LoadRefused(r)
      BY <2>12, SpendType, EventNames DEF LoadRefused, OnlyStage
    <2>13. CASE Checkpoint(r)
      BY <2>13 DEF Checkpoint, NextFile, SetStatus
    <2>14. CASE CheckpointFails(r)
      BY <2>14, SpendType, EventNames DEF CheckpointFails, OnlyStage
    <2>15. CASE RecordFailure(r)
      BY <2>15 DEF RecordFailure, NextFile, SetStatus
    <2>16. CASE MoveToQuarantine(r)
      BY <2>16 DEF MoveToQuarantine
    <2>17. CASE RecordQuarantine(r)
      BY <2>17 DEF RecordQuarantine, NextFile
    <2>18. CASE RecordFails(r)
      <3>1. left' \in [Events -> Nat]
        BY <2>18, SpendType, EventNames DEF RecordFails
      <3> QED
        BY <2>18, <3>1 DEF RecordFails, NextFile
    <2> QED
      BY <1>10, <2>1, <2>2, <2>3, <2>4, <2>5, <2>6, <2>7, <2>8,
         <2>9, <2>10, <2>11, <2>12, <2>13, <2>14, <2>15, <2>16, <2>17, <2>18 DEF CycleStep
  <1>11. CASE Crash
    <2>1. left' \in [Events -> Nat]
      BY <1>11, SpendType, EventNames DEF Crash
    <2>2. CycleOK' /\ AtHand'
      BY <1>11 DEF Crash
    <2> QED
      BY <1>11, <2>1, <2>2 DEF Crash
  <1>12. CASE UNCHANGED vars
    BY <1>12 DEF vars
  <1> QED
    BY <1>1, <1>2, <1>3, <1>4, <1>5, <1>6, <1>7, <1>8, <1>9, <1>10, <1>11, <1>12
       DEF Next, VolumeNext, PipelineNext

\* Type correctness.
THEOREM TypeCorrect == Spec => []TypeOK
  <1>1. TypeInv => TypeOK
    BY DEF TypeInv
  <1> QED
    BY <1>1, TypeInit, TypeStep, PTL DEF Spec

-----------------------------------------------------------------------------
(* SuccessMeansCommitted, with any number of runners and of failures. *)

Committed(s) == \E i \in DOMAIN delta : delta[i].fp = s

\* What makes it inductive: a cycle checkpoints only what it has committed.
CommitInv == /\ SuccessMeansCommitted
             /\ \A r \in Runners : stage[r] = "checkpoint" => Committed(fp[r])

\* A commit adds its fingerprint to those committed and takes none away.
LEMMA CommitAppends ==
    ASSUME delta \in Seq(CommitRec), NEW c \in CommitRec, delta' = Append(delta, c)
    PROVE  \A s : Committed(s)' <=> Committed(s) \/ s = c.fp
  <1>1. /\ DOMAIN delta = 1..Len(delta)
        /\ DOMAIN delta' = 1..(Len(delta) + 1)
        /\ Len(delta) \in Nat
        /\ \A i \in 1..Len(delta) : delta'[i] = delta[i]
        /\ delta'[Len(delta) + 1] = c
    OBVIOUS
  <1> QED
    BY <1>1 DEF Committed

LEMMA CommitStep == TypeInv /\ CommitInv /\ [Next]_vars => CommitInv'
  <1> SUFFICES ASSUME TypeInv, CommitInv, [Next]_vars PROVE CommitInv'
    OBVIOUS
  <1> USE DEF TypeInv, TypeOK, StoreOK, CycleOK, CommitInv, SuccessMeansCommitted,
              Succeeded, GoTo, store, cycle
  <1>1. ASSUME NEW p \in Paths, UploadOpen(p) \/ UploadClose(p) \/ RemoveFile(p)
        PROVE  CommitInv'
    BY <1>1 DEF UploadOpen, UploadClose, RemoveFile, Committed
  <1>2. CASE UpdatePipeline \/ CreatePipeline
    BY <1>2 DEF UpdatePipeline, CreatePipeline, Committed
  <1>3. CASE ResetCheckpoints \/ DeletePipeline
    BY <1>3 DEF ResetCheckpoints, DeletePipeline, ClearHistory, NoRows, Committed
  <1>4. CASE DaemonDispatch \/ RunNow
    BY <1>4 DEF DaemonDispatch, RunNow, Committed
  <1>5. ASSUME NEW r \in Runners, CycleStep(r) PROVE CommitInv'
    <2>1. CASE \/ Fetch(r) \/ Start(r) \/ Scan(r) \/ Sort(r) \/ Pick(r) \/ Skip(r)
               \/ PickNone(r) \/ Finish(r)
      <3>1. /\ UNCHANGED <<rows, delta, fp>>
            /\ \E s \in Stages : GoTo(r, s) /\ s # "checkpoint"
        <4>1. CASE Fetch(r) \/ Start(r) \/ Scan(r)
          BY <4>1 DEF Fetch, Start, Scan, Return, Stages
        <4>2. CASE Sort(r) \/ Finish(r)
          BY <4>2 DEF Sort, Finish, Return, Stages
        <4>3. CASE Pick(r) \/ PickNone(r)
          BY <4>3 DEF Pick, PickNone, Take, Stages
        <4>4. CASE Skip(r)
          <5>1. /\ UNCHANGED <<rows, delta, fp, stage>>
                /\ stage[r] = "pick"
            BY <4>4 DEF Skip
          <5> QED
            BY <5>1 DEF Stages
        <4> QED
          BY <2>1, <4>1, <4>2, <4>3, <4>4
      <3> QED
        BY <3>1 DEF Committed
    <2>2. CASE \/ Stat(r) \/ LoadUnreadable(r) \/ LoadRefused(r)
               \/ CheckpointFails(r) \/ MoveToQuarantine(r) \/ RecordFails(r)
      BY <2>2 DEF Stat, LoadUnreadable, LoadRefused, CheckpointFails,
                  MoveToQuarantine, RecordFails, NextFile, OnlyStage, Committed
    <2>3. CASE LoadCommit(r)
      <3>3. \A s : Committed(s)' <=> Committed(s) \/ s = fp[r]
        BY <2>3, LoadedType, CommitAppends
      <3>4. rows' = rows /\ fp' = fp /\ GoTo(r, "checkpoint")
        BY <2>3 DEF LoadCommit
      <3> QED
        BY <3>3, <3>4 DEF Committed
    <2>4. CASE Checkpoint(r)
      BY <2>4 DEF Checkpoint, NextFile, Committed
    <2>5. CASE RecordFailure(r) \/ RecordQuarantine(r)
      BY <2>5 DEF RecordFailure, RecordQuarantine, NextFile, Committed
    <2> QED
      BY <1>5, <2>1, <2>2, <2>3, <2>4, <2>5 DEF CycleStep
  <1>6. CASE Crash
    BY <1>6 DEF Crash, Committed
  <1>7. CASE UNCHANGED vars
    BY <1>7 DEF vars, Committed
  <1> QED
    BY <1>1, <1>2, <1>3, <1>4, <1>5, <1>6, <1>7 DEF Next, VolumeNext, PipelineNext

\* No checkpoint without its data, whatever crashes, fails or runs at once.
THEOREM NoEmptyCheckpoint == Spec => []SuccessMeansCommitted
  <1>1. Init => CommitInv
    BY DEF Init, CommitInv, SuccessMeansCommitted, Succeeded, NoRows
  <1>2. CommitInv => SuccessMeansCommitted
    BY DEF CommitInv
  <1> QED
    BY <1>1, <1>2, TypeInit, TypeStep, CommitStep, PTL DEF Spec

-----------------------------------------------------------------------------
(* Known fingerprints, with both runners.                                  *)
(*                                                                         *)
(* NeverReloadKnown is not inductive: the fingerprint that is loaded was   *)
(* taken a second time, after the one that was looked up.  It is unknown   *)
(* all the same, because every write of a file gives it a fresh stamp and  *)
(* a cycle knows no stamp that was not given yet.                          *)

KnownStamped == \A r \in Runners : \A s \in known[r] : s <= stamp
TakenStamped == \A r \in Runners : stage[r] \in WithFile => fhash[r] <= stamp
\* A file at hand has a fingerprint its cycle does not know.
UnknownAtHand == \A r \in Runners : stage[r] = "stat" => mtime[path[r]] \notin known[r]

KnownInv == /\ \A s \in Succeeded : s <= stamp
            /\ KnownStamped /\ TakenStamped /\ UnknownAtHand /\ NeverReloadKnown

\* A step that gives no stamp and leaves what was acknowledged, for every cycle but r's
\* as well: what r's step has to keep.
LEMMA OneCycleMoves ==
    ASSUME TypeInv, KnownInv, NEW r \in Runners, UNCHANGED <<stamp, mtime>>,
           \A s \in Succeeded' : s <= stamp,
           \A q \in Runners \ {r} : /\ stage'[q] = stage[q] /\ known'[q] = known[q]
                                    /\ path'[q] = path[q] /\ fp'[q] = fp[q]
                                    /\ fhash'[q] = fhash[q],
           \A s \in known'[r] : s <= stamp,
           stage'[r] \in WithFile => fhash'[r] <= stamp,
           stage'[r] = "stat" => mtime[path'[r]] \notin known'[r],
           stage'[r] \in {"load", "checkpoint"} => fp'[r] \notin known'[r]
    PROVE  KnownInv'
  BY DEF KnownInv, KnownStamped, TakenStamped, UnknownAtHand, NeverReloadKnown, Succeeded

LEMMA KnownStep == TypeInv /\ KnownInv /\ [Next]_vars => KnownInv'
  <1> SUFFICES ASSUME TypeInv, KnownInv, [Next]_vars PROVE KnownInv'
    OBVIOUS
  <1>0. /\ stage \in [Runners -> Stages] /\ known \in [Runners -> SUBSET Stamps]
        /\ path \in [Runners -> Paths \cup {NoPath}]
        /\ fhash \in [Runners -> 0..MaxWrites] /\ fp \in [Runners -> 0..MaxWrites]
        /\ mtime \in [Paths -> 0..MaxWrites] /\ stamp \in 0..MaxWrites
        /\ \A p \in Paths : mtime[p] <= stamp
        /\ \A r \in Runners : stage[r] \in WithFile => path[r] \in Paths
        /\ rows \in [Stamps -> {"none", "SUCCESS", "FAILED", "QUARANTINED"}]
        /\ \A r \in Runners : stage[r] \in WithFp => fp[r] \in Stamps /\ fp[r] <= stamp
    BY DEF TypeInv, TypeOK, VolumeOK, StoreOK, CycleOK, Stamped, AtHand
  <1>k. /\ \A s \in Succeeded : s <= stamp
        /\ KnownStamped /\ TakenStamped /\ UnknownAtHand /\ NeverReloadKnown
    BY DEF KnownInv
  <1>s. Stamps \subseteq Int /\ stamp \in Int
    BY <1>0, BoundsAssumption DEF Stamps
  \* Steps that leave the cycles alone.
  <1>a. ASSUME UNCHANGED <<stamp, mtime, stage, known, path, fhash, fp>>,
               Succeeded' \subseteq Succeeded
        PROVE  KnownInv'
    BY <1>a, <1>k DEF KnownInv, KnownStamped, TakenStamped, UnknownAtHand, NeverReloadKnown,
                      Succeeded
  <1>w. ASSUME NEW p \in Paths, NEW s, NEW k, WriteFile(p, s, k), UNCHANGED <<store, cycle>>
        PROVE  KnownInv'
    <2>1. /\ stamp' = stamp + 1 /\ mtime' = [mtime EXCEPT ![p] = stamp + 1]
          /\ UNCHANGED <<rows, stage, known, path, fhash, fp>>
      BY <1>w DEF WriteFile, store, cycle
    <2>2. Succeeded' = Succeeded /\ \A x \in Succeeded : x <= stamp + 1
      BY <2>1, <1>k, <1>s DEF Succeeded
    <2>3. \A r \in Runners : \A x \in known[r] : x <= stamp /\ x # stamp + 1 /\ x <= stamp + 1
      BY <1>0, <1>k, <1>s DEF KnownStamped
    <2>4. \A r \in Runners : stage[r] \in WithFile => fhash[r] <= stamp + 1
      BY <1>0, <1>k, <1>s, BoundsAssumption DEF TakenStamped
    <2>5. \A r \in Runners : stage[r] = "stat" => mtime'[path[r]] \notin known[r]
      BY <1>0, <1>k, <2>1, <2>3 DEF UnknownAtHand, WithFile
    <2> QED
      BY <1>k, <2>1, <2>2, <2>3, <2>4, <2>5
         DEF KnownInv, KnownStamped, TakenStamped, UnknownAtHand, NeverReloadKnown
  <1>1. CASE VolumeNext
    <2>1. ASSUME NEW p \in Paths, UploadOpen(p) PROVE KnownInv'
      BY <2>1, <1>w DEF UploadOpen
    <2>2. ASSUME NEW p \in Paths, UploadClose(p) PROVE KnownInv'
      BY <2>2, <1>w, <1>a DEF UploadClose, volume, store, cycle, Succeeded
    <2>3. ASSUME NEW p \in Paths, RemoveFile(p) PROVE KnownInv'
      BY <2>3, <1>a DEF RemoveFile, store, cycle, Succeeded
    <2> QED
      BY <1>1, <2>1, <2>2, <2>3 DEF VolumeNext
  <1>2. CASE PipelineNext
    <2>1. UNCHANGED <<stamp, mtime, stage, known, path, fhash, fp>>
      BY <1>2 DEF PipelineNext, UpdatePipeline, ResetCheckpoints, DeletePipeline,
                  CreatePipeline, volume, cycle
    <2>2. Succeeded' \subseteq Succeeded
      BY <1>2 DEF PipelineNext, UpdatePipeline, ResetCheckpoints, DeletePipeline,
                  CreatePipeline, ClearHistory, NoRows, Succeeded, store
    <2> QED
      BY <1>a, <2>1, <2>2
  <1>3. CASE DaemonDispatch \/ RunNow
    <2>1. PICK r \in Runners : GoTo(r, "fetch")
      BY <1>3 DEF DaemonDispatch, RunNow, Runners
    <2>2. UNCHANGED <<stamp, mtime, rows, known, path, fhash, fp>>
      BY <1>3 DEF DaemonDispatch, RunNow, volume, store
    <2> QED
      BY <1>0, <1>k, <2>1, <2>2 DEF KnownInv, KnownStamped, TakenStamped, UnknownAtHand,
         NeverReloadKnown, Succeeded, GoTo, WithFile
  <1>4. ASSUME NEW r \in Runners, CycleStep(r) PROVE KnownInv'
    <2> USE DEF GoTo
    \* A step that teaches the cycle nothing, and leaves it without a file to load.
    <2>a. ASSUME NEW s \in Stages, GoTo(r, s), s \in WithFile => stage[r] \in WithFile,
                 s \notin {"stat", "load", "checkpoint"},
                 UNCHANGED <<stamp, mtime, known, path, fhash, fp>>,
                 Succeeded' \subseteq Succeeded
          PROVE  KnownInv'
      <3>1. /\ \A q \in Runners \ {r} : stage'[q] = stage[q]
            /\ stage'[r] = s
        BY <1>0, <2>a
      <3> QED
        BY <1>k, <2>a, <3>1, OneCycleMoves DEF KnownStamped, TakenStamped
    <2>b. ASSUME NEW new, \A s \in new : s <= stamp, NextFile(r, new),
                 UNCHANGED <<stamp, mtime>>, \A s \in Succeeded' : s <= stamp
          PROVE  KnownInv'
      <3>1. /\ stage' = [stage EXCEPT ![r] = "pick"]
            /\ known' = [known EXCEPT ![r] = known[r] \cup new]
            /\ path' = [path EXCEPT ![r] = NoPath]
            /\ fhash' = [fhash EXCEPT ![r] = 0] /\ fp' = [fp EXCEPT ![r] = 0]
        BY <2>b DEF NextFile
      <3>2. stage'[r] = "pick" /\ known'[r] = known[r] \cup new
        BY <1>0, <3>1
      <3>3. \A q \in Runners \ {r} : /\ stage'[q] = stage[q] /\ known'[q] = known[q]
                                     /\ path'[q] = path[q] /\ fp'[q] = fp[q]
                                     /\ fhash'[q] = fhash[q]
        BY <1>0, <3>1
      <3>4. \A s \in known'[r] : s <= stamp
        BY <1>k, <2>b, <3>2 DEF KnownStamped
      <3>5. stage'[r] \notin WithFile /\ stage'[r] \notin {"stat", "load", "checkpoint"}
        BY <3>2 DEF WithFile
      <3> QED
        BY <2>b, <3>3, <3>4, <3>5, OneCycleMoves
    <2>c. ASSUME Return(r), UNCHANGED <<stamp, mtime, rows>> PROVE KnownInv'
      <3>1. /\ stage' = [stage EXCEPT ![r] = "off"]
            /\ known' = [known EXCEPT ![r] = {}]
            /\ UNCHANGED <<path, fhash, fp>>
        BY <2>c DEF Return
      <3>2. stage'[r] = "off" /\ known'[r] = {}
        BY <1>0, <3>1
      <3>3. \A q \in Runners \ {r} : stage'[q] = stage[q] /\ known'[q] = known[q]
        BY <1>0, <3>1
      <3>4. stage'[r] \notin WithFile
        BY <3>2 DEF WithFile
      <3>5. Succeeded' = Succeeded
        BY <2>c DEF Succeeded
      <3> QED
        BY <1>k, <2>c, <3>1, <3>2, <3>3, <3>4, <3>5, OneCycleMoves
    <2>1. CASE Fetch(r)
      <3>1. CASE exists
        BY <2>1, <3>1, <2>a DEF Fetch, volume, store, Stages, WithFile, Succeeded
      <3>2. CASE ~exists
        BY <2>1, <3>2, <2>c DEF Fetch, volume, store
      <3> QED
        BY <3>1, <3>2
    <2>2. CASE Start(r)
      <3>1. /\ stage' = [stage EXCEPT ![r] = "scan"]
            /\ known' = [known EXCEPT ![r] = Succeeded]
            /\ UNCHANGED <<stamp, mtime, rows, path, fhash, fp>>
        BY <2>2 DEF Start, volume, store
      <3>2. /\ stage'[r] = "scan" /\ known'[r] = Succeeded
            /\ \A q \in Runners \ {r} : stage'[q] = stage[q] /\ known'[q] = known[q]
        BY <1>0, <3>1
      <3>3. stage'[r] \notin WithFile /\ Succeeded' = Succeeded
        BY <3>1, <3>2 DEF WithFile, Succeeded
      <3> QED
        BY <1>k, <3>1, <3>2, <3>3, OneCycleMoves
    <2>3. CASE Scan(r) \/ PickNone(r)
      BY <2>3, <2>a DEF Scan, PickNone, volume, store, Stages, WithFile, Succeeded
    <2>4. CASE Sort(r)
      <3>1. CASE \A p \in found[r] : Present(p)
        BY <2>4, <3>1, <2>a DEF Sort, volume, store, Stages, WithFile, Succeeded
      <3>2. CASE ~ \A p \in found[r] : Present(p)
        BY <2>4, <3>2, <2>c DEF Sort, volume, store
      <3> QED
        BY <3>1, <3>2
    <2>5. CASE Pick(r)
      <3>1. PICK t \in Oldest(r) : mtime[t.path] \notin known[r] /\ Take(r, t)
        BY <2>5 DEF Pick
      <3>2. t.path \in Paths
        BY DEF Oldest, TypeInv, TypeOK, CycleOK, TodoRec
      <3>3. /\ stage' = [stage EXCEPT ![r] = "stat"] /\ path' = [path EXCEPT ![r] = t.path]
            /\ fhash' = [fhash EXCEPT ![r] = mtime[t.path]]
            /\ UNCHANGED <<stamp, mtime, rows, known, fp>>
        BY <3>1 DEF Take, volume, store
      <3>4. /\ stage'[r] = "stat" /\ path'[r] = t.path /\ fhash'[r] = mtime[t.path]
            /\ \A q \in Runners \ {r} : /\ stage'[q] = stage[q] /\ path'[q] = path[q]
                                        /\ fhash'[q] = fhash[q]
        BY <1>0, <3>3
      <3>5. Succeeded' = Succeeded
        BY <3>3 DEF Succeeded
      <3> QED
        BY <1>0, <1>k, <3>1, <3>2, <3>3, <3>4, <3>5, OneCycleMoves DEF KnownStamped
    <2>6. CASE Skip(r)
      BY <2>6, <1>a DEF Skip, volume, store, Succeeded
    <2>7. CASE Finish(r)
      BY <2>7, <2>c DEF Finish, volume, store
    <2>8. CASE Stat(r)
      <3>1. CASE Present(path[r])
        <4>1. /\ stage' = [stage EXCEPT ![r] = "load"]
              /\ fp' = [fp EXCEPT ![r] = mtime[path[r]]]
              /\ UNCHANGED <<stamp, mtime, rows, known, path, fhash>>
              /\ stage[r] = "stat"
          BY <2>8, <3>1 DEF Stat, volume, store
        <4>2. /\ stage'[r] = "load" /\ fp'[r] = mtime[path[r]]
              /\ \A q \in Runners \ {r} : stage'[q] = stage[q] /\ fp'[q] = fp[q]
          BY <1>0, <4>1
        <4>3. fhash[r] <= stamp /\ mtime[path[r]] \notin known[r]
          BY <1>k, <4>1 DEF TakenStamped, UnknownAtHand, WithFile
        <4>4. Succeeded' = Succeeded
          BY <4>1 DEF Succeeded
        <4> QED
          BY <1>k, <4>1, <4>2, <4>3, <4>4, OneCycleMoves DEF KnownStamped
      <3>2. CASE ~Present(path[r])
        BY <2>8, <3>2, <2>b, <1>k DEF Stat, volume, store, Succeeded
      <3> QED
        BY <3>1, <3>2
    <2>9. CASE LoadCommit(r)
      <3>1. /\ stage[r] = "load" /\ stage' = [stage EXCEPT ![r] = "checkpoint"]
            /\ UNCHANGED <<stamp, mtime, rows, known, path, fhash, fp>>
        BY <2>9 DEF LoadCommit, volume
      <3>2. stage'[r] = "checkpoint" /\ \A q \in Runners \ {r} : stage'[q] = stage[q]
        BY <1>0, <3>1
      <3>3. fhash[r] <= stamp /\ fp[r] \notin known[r] /\ Succeeded' = Succeeded
        BY <1>k, <3>1 DEF TakenStamped, NeverReloadKnown, WithFile, Succeeded
      <3> QED
        BY <1>k, <3>1, <3>2, <3>3, OneCycleMoves DEF KnownStamped
    <2>10. CASE LoadUnreadable(r) \/ LoadRefused(r) \/ CheckpointFails(r)
      BY <2>10, <2>a DEF LoadUnreadable, LoadRefused, CheckpointFails, OnlyStage, volume, store,
                         Stages, WithFile, Succeeded
    <2>11. CASE MoveToQuarantine(r)
      BY <2>11, <2>a DEF MoveToQuarantine, store, Stages, WithFile, Succeeded
    <2>12. CASE Checkpoint(r)
      <3>1. /\ stage[r] = "checkpoint" /\ rows' = [rows EXCEPT ![fp[r]] = "SUCCESS"]
            /\ NextFile(r, {fhash[r]}) /\ UNCHANGED <<stamp, mtime>>
        BY <2>12 DEF Checkpoint, volume
      <3>2. fp[r] \in Stamps /\ fp[r] <= stamp /\ fhash[r] <= stamp
        BY <1>0, <1>k, <3>1 DEF TakenStamped, WithFile, WithFp
      <3>3. \A s \in Succeeded' : s <= stamp
        BY <1>0, <1>k, <3>1, <3>2 DEF Succeeded
      <3> QED
        BY <2>b, <3>1, <3>2, <3>3
    <2>13. CASE RecordFailure(r) \/ RecordQuarantine(r)
      <3>1. /\ NextFile(r, {}) /\ UNCHANGED <<stamp, mtime>>
            /\ \E s \in {"FAILED", "QUARANTINED"} : rows' = [rows EXCEPT ![fp[r]] = s]
        BY <2>13 DEF RecordFailure, RecordQuarantine, volume
      <3>2. \A s \in Succeeded' : s <= stamp
        BY <1>0, <1>k, <3>1 DEF Succeeded
      <3> QED
        BY <2>b, <3>1, <3>2
    <2>14. CASE RecordFails(r)
      BY <2>14, <2>b, <1>k DEF RecordFails, volume, store, Succeeded
    <2> QED
      BY <1>4, <2>1, <2>2, <2>3, <2>4, <2>5, <2>6, <2>7, <2>8, <2>9, <2>10, <2>11,
         <2>12, <2>13, <2>14 DEF CycleStep
  <1>5. CASE Crash
    <2>1. /\ UNCHANGED <<stamp, mtime, rows>>
          /\ \A r \in Runners : stage'[r] = "off" /\ known'[r] = {}
      BY <1>5 DEF Crash, store
    <2> QED
      BY <1>k, <2>1 DEF KnownInv, KnownStamped, TakenStamped, UnknownAtHand, NeverReloadKnown,
                        Succeeded, WithFile
  <1>6. CASE UNCHANGED vars
    BY <1>6, <1>a DEF vars, volume, store, cycle, Succeeded
  <1> QED
    BY <1>1, <1>2, <1>3, <1>4, <1>5, <1>6 DEF Next

\* No cycle loads a file whose fingerprint it knew as processed: for any number of files,
\* uploads and runs by hand, whatever is deleted, created again, crashes or fails.
THEOREM KnownIsNotReloaded == Spec => []NeverReloadKnown
  <1>1. Init => KnownInv
    BY DEF Init, KnownInv, KnownStamped, TakenStamped, UnknownAtHand, NeverReloadKnown,
           Succeeded, NoRows, WithFile
  <1>2. KnownInv => NeverReloadKnown
    BY DEF KnownInv
  <1> QED
    BY <1>1, <1>2, TypeInit, TypeStep, KnownStep, PTL DEF Spec

-----------------------------------------------------------------------------
(* The contract, for a pipeline that only the daemon runs.                 *)
(*                                                                         *)
(* The step to justify is LoadCommit: the fingerprint it commits must not  *)
(* be acknowledged.  The cycle checked another fingerprint, against a copy *)
(* of the acknowledged ones, some steps ago.  It is safe because stamps    *)
(* are fresh, because the copy misses at most fingerprints this cycle      *)
(* acknowledged itself, and because no other file has those.               *)

d == "daemon"

OneRunner   == left["manual"] = 0 /\ stage["manual"] = "off"
StampsApart == \A p, q \in Paths : p # q /\ mtime[p] # 0 => mtime[p] # mtime[q]
RowsStamped == \A s \in Succeeded : s <= stamp
\* What the daemon knows covers what it may still take.
KnownCovers ==
    /\ stage[d] \in {"scan", "sort"} =>
          \A p \in Paths : mtime[p] \in Succeeded => mtime[p] \in known[d]
    /\ stage[d] \in {"pick"} \cup WithFile =>
          \A t \in todo[d] : mtime[t.path] \in Succeeded => mtime[t.path] \in known[d]
\* It takes each file once.
EachOnce ==
    /\ \A t, u \in todo[d] : t.path = u.path => t = u
    /\ stage[d] \in WithFile => \A t \in todo[d] : t.path # path[d]
\* The file at hand is not acknowledged, and shares its fingerprint with no other.
Fresh ==
    /\ stage[d] = "stat" => mtime[path[d]] \notin Succeeded
    /\ stage[d] \in WithFp =>
          /\ fp[d] \notin Succeeded
          /\ \A q \in Paths : q # path[d] => mtime[q] # fp[d]

LoaderInv == /\ OneRunner /\ StampsApart /\ RowsStamped
             /\ KnownCovers /\ EachOnce /\ Fresh

LEMMA LoaderInit == Budget["manual"] = 0 => (Init => LoaderInv)
  BY DEF Init, LoaderInv, OneRunner, StampsApart, RowsStamped,
         KnownCovers, EachOnce, Fresh, Succeeded, NoRows, WithFile, WithFp, d, Runners

LEMMA OnlyDaemonSteps ==
    ASSUME OneRunner, NEW r \in Runners, CycleStep(r)
    PROVE  r = d
  BY DEF OneRunner, Runners, d, CycleStep, Fetch, Start, Scan, Sort, Pick, Skip,
         PickNone, Finish, Stat, LoadCommit, LoadUnreadable, LoadRefused, Checkpoint,
         CheckpointFails, RecordFailure, MoveToQuarantine, RecordQuarantine,
         RecordFails

LEMMA SpendKeepsManual ==
    ASSUME left \in [Events -> Nat], left["manual"] = 0, NEW e \in Events, Spend(e)
    PROVE  left'["manual"] = 0
  BY EventNames DEF Spend

LEMMA LoaderStep == TypeInv /\ LoaderInv /\ [Next]_vars => LoaderInv'
  <1> SUFFICES ASSUME TypeInv, LoaderInv, [Next]_vars PROVE LoaderInv'
    OBVIOUS
  <1> USE PathsAssumption, BoundsAssumption
      DEF TypeInv, TypeOK, VolumeOK, StoreOK, CycleOK, Stamps, Stamped, AtHand,
          Present, WithFile, WithFp, LoaderInv, OneRunner, StampsApart, RowsStamped,
          KnownCovers, EachOnce, Fresh, Succeeded, GoTo, d, Runners, volume,
          pipeline, store, cycle
  <1>1. ASSUME NEW p \in Paths, UploadOpen(p) PROVE LoaderInv'
    BY <1>1 DEF UploadOpen, WriteFile
  <1>2. ASSUME NEW p \in Paths, UploadClose(p) PROVE LoaderInv'
    <2>1. CASE Present(p)
      <3> PICK k \in Kinds : WriteFile(p, "ready", k)
        BY <1>2, <2>1 DEF UploadClose
      <3> QED
        BY <1>2 DEF UploadClose, WriteFile
    <2>2. CASE ~Present(p)
      BY <1>2, <2>2 DEF UploadClose
    <2> QED
      BY <2>1, <2>2
  <1>3. ASSUME NEW p \in Paths, RemoveFile(p) PROVE LoaderInv'
    BY <1>3, SpendKeepsManual, EventNames DEF RemoveFile
  <1>4. CASE UpdatePipeline
    BY <1>4, SpendKeepsManual, EventNames DEF UpdatePipeline
  <1>5. CASE ResetCheckpoints
    BY <1>5, SpendKeepsManual, EventNames DEF ResetCheckpoints, ClearHistory, NoRows
  <1>6. CASE DeletePipeline
    BY <1>6, SpendKeepsManual, EventNames DEF DeletePipeline, ClearHistory, NoRows
  <1>7. CASE CreatePipeline
    BY <1>7 DEF CreatePipeline
  <1>8. CASE DaemonDispatch
    BY <1>8 DEF DaemonDispatch
  <1>9. CASE RunNow
    BY <1>9 DEF RunNow, Spend
  <1>10. ASSUME NEW r \in Runners, CycleStep(r) PROVE LoaderInv'
    <2>0. r = d
      BY <1>10, OnlyDaemonSteps
    <2>1. CASE Fetch(d)
      BY <2>1 DEF Fetch, Return
    <2>2. CASE Start(d)
      BY <2>2 DEF Start, SetStatus
    <2>3. CASE Scan(d)
      BY <2>3 DEF Scan
    <2>4. CASE Sort(d)
      BY <2>4 DEF Sort, Return
    <2>5. CASE Pick(d)
      BY <2>5 DEF Pick, Take, Oldest
    <2>6. CASE Skip(d)
      BY <2>6 DEF Skip, Oldest
    <2>7. CASE PickNone(d)
      BY <2>7 DEF PickNone
    <2>8. CASE Finish(d)
      BY <2>8 DEF Finish, Return
    <2>9. CASE Stat(d)
      BY <2>9 DEF Stat, NextFile
    <2>10. CASE LoadCommit(d)
      BY <2>10 DEF LoadCommit
    <2>11. CASE LoadUnreadable(d)
      BY <2>11 DEF LoadUnreadable, OnlyStage
    <2>12. CASE LoadRefused(d)
      BY <2>12, SpendKeepsManual, EventNames DEF LoadRefused, OnlyStage
    <2>13. CASE Checkpoint(d)
      <3>1. /\ stage[d] = "checkpoint" /\ stage' = [stage EXCEPT ![d] = "pick"]
            /\ rows' = [rows EXCEPT ![fp[d]] = "SUCCESS"]
            /\ known[d] \subseteq known'[d]
            /\ UNCHANGED <<volume, left, todo>>
        BY <2>13 DEF Checkpoint, NextFile
      <3>2. fp[d] \in Stamps /\ fp[d] <= stamp
        BY <3>1
      <3>3. Succeeded' = Succeeded \cup {fp[d]}
        BY <3>1, <3>2
      <3>4. \A t \in todo[d] : mtime[t.path] # fp[d]
        BY <3>1 DEF TodoRec
      <3>5. KnownCovers'
        BY <3>1, <3>3, <3>4
      <3>6. RowsStamped'
        BY <3>1, <3>2, <3>3
      <3>7. OneRunner' /\ StampsApart' /\ EachOnce' /\ Fresh'
        BY <3>1
      <3> QED
        BY <3>5, <3>6, <3>7
    <2>14. CASE CheckpointFails(d)
      BY <2>14, SpendKeepsManual, EventNames DEF CheckpointFails, OnlyStage
    <2>15. CASE RecordFailure(d)
      BY <2>15 DEF RecordFailure, NextFile
    <2>16. CASE MoveToQuarantine(d)
      BY <2>16 DEF MoveToQuarantine
    <2>17. CASE RecordQuarantine(d)
      BY <2>17 DEF RecordQuarantine, NextFile
    <2>18. CASE RecordFails(d)
      BY <2>18, SpendKeepsManual, EventNames DEF RecordFails, NextFile
    <2> QED
      BY <1>10, <2>0, <2>1, <2>2, <2>3, <2>4, <2>5, <2>6, <2>7, <2>8,
         <2>9, <2>10, <2>11, <2>12, <2>13, <2>14, <2>15, <2>16, <2>17, <2>18 DEF CycleStep
  <1>11. CASE Crash
    BY <1>11, SpendKeepsManual, EventNames DEF Crash
  <1>12. CASE UNCHANGED vars
    BY <1>12 DEF vars
  <1> QED
    BY <1>1, <1>2, <1>3, <1>4, <1>5, <1>6, <1>7, <1>8, <1>9, <1>10, <1>11, <1>12
       DEF Next, VolumeNext, PipelineNext

\* The log of the contract, written out.
Log == [i \in DOMAIN delta |-> delta[i].fp]

LEMMA LogAppends ==
    ASSUME delta \in Seq(CommitRec), NEW c \in CommitRec, delta' = Append(delta, c)
    PROVE  Log' = Append(Log, c.fp)
  <1>1. /\ DOMAIN delta = 1..Len(delta)
        /\ DOMAIN delta' = 1..(Len(delta) + 1)
        /\ Len(delta) \in Nat
        /\ \A i \in 1..Len(delta) : delta'[i] = delta[i]
        /\ delta'[Len(delta) + 1] = c
    OBVIOUS
  <1>2. Log \in Seq(Stamps) /\ Len(Log) = Len(delta)
    <2>0. \A i \in 1..Len(delta) : delta[i] \in CommitRec
      OBVIOUS
    <2>1. Log \in [1..Len(delta) -> Stamps]
      BY <2>0, <1>1 DEF Log, CommitRec
    <2> QED
      BY <2>1, <1>1
  <1>3. DOMAIN Append(Log, c.fp) = 1..(Len(delta) + 1)
    BY <1>2 DEF CommitRec
  <1>4. \A i \in 1..(Len(delta) + 1) : Append(Log, c.fp)[i] = delta'[i].fp
    BY <1>1, <1>2 DEF Log, CommitRec
  <1>5. Log' = [i \in 1..(Len(delta) + 1) |-> delta'[i].fp]
    BY <1>1 DEF Log
  <1> QED
    BY <1>2, <1>3, <1>4, <1>5

LEMMA ContractStep ==
    TypeInv /\ CommitInv /\ LoaderInv /\ [Next]_vars
        => [Contract!Next]_(Contract!vars)
  <1> SUFFICES ASSUME TypeInv, CommitInv, LoaderInv, [Next]_vars
               PROVE  [Contract!Next]_(Contract!vars)
    OBVIOUS
  <1> USE DEF Contract!Next, Contract!vars, GoTo, store, cycle
  <1>1. SUFFICES ASSUME ~ (Succeeded' = Succeeded /\ delta' = delta)
                 PROVE  Contract!Next
    OBVIOUS
  <1>0. ~ UNCHANGED <<rows, delta>>
    BY <1>1 DEF Succeeded
  <1>2. CASE ResetCheckpoints \/ DeletePipeline
    BY <1>2 DEF ResetCheckpoints, DeletePipeline, ClearHistory, NoRows, Succeeded,
                Contract!Clear
  <1>3. CASE LoadCommit(d)
    <2>1. fp[d] \in Stamps /\ fp[d] \notin Succeeded
      BY <1>3 DEF LoadCommit, TypeInv, AtHand, LoaderInv, Fresh, WithFp, WithFile,
                  d, Runners
    <2>2. Log' = Append(Log, fp[d])
      BY <1>3, LoadedType, LogAppends DEF d, Runners, TypeInv, TypeOK, StoreOK
    <2>3. Succeeded' = Succeeded
      BY <1>3 DEF LoadCommit, Succeeded
    <2> PICK x \in Stamps : x = fp[d]
      BY <2>1
    <2>4. Contract!Write(x)
      BY <2>1, <2>2, <2>3 DEF Contract!Write, Log
    <2> QED
      BY <2>4
  <1>4. CASE Checkpoint(d)
    <2>1. /\ fp[d] \in Stamps /\ Committed(fp[d])
          /\ rows' = [rows EXCEPT ![fp[d]] = "SUCCESS"] /\ delta' = delta
      BY <1>4 DEF Checkpoint, TypeInv, AtHand, CommitInv, WithFp, WithFile, d, Runners
    <2>2. Succeeded' = Succeeded \cup {fp[d]}
      BY <2>1 DEF Succeeded, TypeInv, TypeOK, StoreOK
    <2> PICK x \in Stamps : x = fp[d]
      BY <2>1
    <2>3. Contract!Ack(x)
      BY <2>1, <2>2 DEF Contract!Ack, Committed
    <2> QED
      BY <2>3
  <1>5. CASE RecordFailure(d) \/ RecordQuarantine(d)
    <2>1. /\ fp[d] \in Stamps /\ fp[d] \notin Succeeded
          /\ \E s \in {"FAILED", "QUARANTINED"} : rows' = [rows EXCEPT ![fp[d]] = s]
          /\ delta' = delta
      BY <1>5 DEF RecordFailure, RecordQuarantine, TypeInv, AtHand, LoaderInv, Fresh,
                  WithFp, WithFile, d, Runners
    <2>2. Succeeded' = Succeeded
      BY <2>1 DEF Succeeded, TypeInv, TypeOK, StoreOK
    <2> QED
      BY <2>1, <2>2, <1>1
  <1> QED
    <2>1. ASSUME NEW r \in Runners, CycleStep(r) PROVE Contract!Next
      <3>1. r = d
        BY <2>1, OnlyDaemonSteps DEF LoaderInv
      <3>2. \/ LoadCommit(d) \/ Checkpoint(d) \/ RecordFailure(d) \/ RecordQuarantine(d)
        BY <2>1, <3>1, <1>0 DEF CycleStep, Fetch, Start, Scan, Sort, Pick, Skip,
           PickNone, Finish, Stat, LoadUnreadable, LoadRefused, CheckpointFails,
           MoveToQuarantine, RecordFails, Take, OnlyStage
      <3> QED
        BY <3>2, <1>3, <1>4, <1>5
    <2>2. ASSUME \/ DaemonDispatch \/ RunNow \/ Crash \/ UpdatePipeline
                 \/ CreatePipeline \/ VolumeNext
          PROVE  FALSE
      BY <2>2, <1>0 DEF DaemonDispatch, RunNow, Crash, UpdatePipeline,
         CreatePipeline, VolumeNext, UploadOpen, UploadClose, RemoveFile
    <2> QED
      BY <1>0, <1>2, <2>1, <2>2 DEF Next, PipelineNext, vars

\* A pipeline that is not run by hand writes no file it has acknowledged, and
\* acknowledges none it has not written: for any number of files, uploads, crashes,
\* failing transactions, resets and deletions.
THEOREM LoaderKeepsContract ==
    ASSUME Budget["manual"] = 0
    PROVE  Spec => ImplementsContract
  <1>1. Init => LoaderInv
    BY LoaderInit
  <1>2. Init => CommitInv
    BY DEF Init, CommitInv, SuccessMeansCommitted, Succeeded, NoRows
  <1>3. Init => Contract!Init
    <2>1. Init => [i \in DOMAIN delta |-> delta[i].fp] = <<>>
      BY DEF Init
    <2> QED
      BY <2>1 DEF Init, Contract!Init, Succeeded, NoRows
  <1> QED
    BY <1>1, <1>2, <1>3, TypeInit, TypeStep, CommitStep, LoaderStep, ContractStep, PTL
       DEF Spec, ImplementsContract, Contract!Spec
-----------------------------------------------------------------------------
(* Repeats and the counter, for a pipeline that only the daemon runs.      *)
(*                                                                         *)
(* RepeatsAccountedFor is not inductive: a file lands twice long after the *)
(* crash or the failing transaction that lets it.  In between its first    *)
(* commit is lost on the checkpoints, and one commit per fault is.         *)

InFlight(s) == stage[d] = "checkpoint" /\ fp[d] = s
Current(s)  == \E i \in DOMAIN delta : delta[i].fp = s /\ delta[i].epoch = epoch
\* Committed since the checkpoints were cleared, and neither acknowledged nor about to be.
Lost        == {s \in Stamps : s \notin Succeeded /\ ~InFlight(s) /\ Current(s)}
Faults      == Spent("crash") + Spent("dbfail")

BooksInv == /\ \A i \in DOMAIN delta : delta[i].epoch <= epoch
            /\ Cardinality(Repeats) + Cardinality(Lost) <= Faults

LEMMA BooksFinite ==
    ASSUME TypeInv
    PROVE  /\ IsFiniteSet(Repeats) /\ IsFiniteSet(Lost) /\ IsFiniteSet(Succeeded)
           /\ Cardinality(Repeats) \in Nat /\ Cardinality(Lost) \in Nat
           /\ Cardinality(Succeeded) \in Nat /\ Faults \in Int
  <1>1. /\ DOMAIN delta = 1..Len(delta) /\ Len(delta) \in Int /\ MaxWrites \in Int
    BY BoundsAssumption DEF TypeInv, TypeOK, StoreOK
  <1>2. IsFiniteSet(1..Len(delta)) /\ IsFiniteSet(Stamps)
    BY <1>1, FS_Interval DEF Stamps
  <1>3. Repeats \subseteq 1..Len(delta) /\ Lost \subseteq Stamps /\ Succeeded \subseteq Stamps
    BY <1>1 DEF Repeats, Lost, Succeeded
  <1>4. Faults \in Int
    BY BoundsAssumption, EventNames DEF Faults, Spent, TypeInv, TypeOK
  <1> QED
    BY <1>2, <1>3, <1>4, FS_Subset, FS_CardinalityType

\* Faults are only ever added up.
LEMMA FaultsGrow ==
    ASSUME TypeInv, NEW e \in Events, Spend(e)
    PROVE  /\ Faults' >= Faults
           /\ e \in {"crash", "dbfail"} => Faults' = Faults + 1
  <1>1. /\ left \in [Events -> Nat] /\ Budget \in [Events -> Nat]
        /\ left' = [left EXCEPT ![e] = left[e] - 1]
    BY BoundsAssumption DEF TypeInv, TypeOK, Spend
  <1>2. "crash" \in Events /\ "dbfail" \in Events /\ "crash" # "dbfail"
    BY EventNames
  <1>3. /\ left'["crash"] = IF e = "crash" THEN left["crash"] - 1 ELSE left["crash"]
        /\ left'["dbfail"] = IF e = "dbfail" THEN left["dbfail"] - 1 ELSE left["dbfail"]
    BY <1>1, <1>2
  <1>4. /\ left["crash"] \in Int /\ left["dbfail"] \in Int
        /\ Budget["crash"] \in Int /\ Budget["dbfail"] \in Int
    BY <1>1, <1>2
  <1> QED
    BY <1>2, <1>3, <1>4 DEF Faults, Spent

\* A step that writes nothing and loses nothing, or loses one commit to a fault.
LEMMA BooksMove ==
    ASSUME TypeInv, BooksInv, TypeInv', UNCHANGED <<delta, epoch>>,
           \/ Lost' \subseteq Lost /\ Faults' >= Faults
           \/ \E x : Lost' \subseteq Lost \cup {x} /\ Faults' = Faults + 1
    PROVE  BooksInv'
  <1>1. Repeats' = Repeats
    BY DEF Repeats
  <1>2. /\ IsFiniteSet(Lost) /\ Cardinality(Repeats) \in Nat /\ Cardinality(Lost) \in Nat
        /\ Faults \in Int
    BY BooksFinite
  <1>3. Faults' \in Int
    BY BoundsAssumption, EventNames DEF Faults, Spent, TypeInv, TypeOK
  <1>4. Cardinality(Repeats) + Cardinality(Lost) <= Faults
    BY DEF BooksInv
  <1>5. \A i \in DOMAIN delta' : delta'[i].epoch <= epoch'
    BY DEF BooksInv
  <1>6. CASE Lost' \subseteq Lost /\ Faults' >= Faults
    <2>1. Cardinality(Lost') <= Cardinality(Lost)
      BY <1>2, <1>6, FS_Subset
    <2>2. Cardinality(Lost') \in Nat
      BY <1>2, <1>6, FS_Subset, FS_CardinalityType
    <2> QED
      BY <1>1, <1>2, <1>3, <1>4, <1>5, <1>6, <2>1, <2>2 DEF BooksInv
  <1>7. ASSUME NEW x, Lost' \subseteq Lost \cup {x}, Faults' = Faults + 1 PROVE BooksInv'
    <2>1. /\ IsFiniteSet(Lost \cup {x})
          /\ Cardinality(Lost \cup {x}) <= Cardinality(Lost) + 1
          /\ Cardinality(Lost \cup {x}) \in Nat
      <3>1. /\ IsFiniteSet(Lost \cup {x})
            /\ Cardinality(Lost \cup {x}) =
                 IF x \in Lost THEN Cardinality(Lost) ELSE Cardinality(Lost) + 1
        BY <1>2, FS_AddElement
      <3> QED
        BY <1>2, <3>1
    <2>2. Cardinality(Lost') <= Cardinality(Lost \cup {x}) /\ Cardinality(Lost') \in Nat
      BY <1>7, <2>1, FS_Subset, FS_CardinalityType
    <2> QED
      BY <1>1, <1>2, <1>3, <1>4, <1>5, <1>7, <2>1, <2>2 DEF BooksInv
  <1> QED
    BY <1>6, <1>7

\* The checkpoints are cleared: nothing that was written counts any more.
LEMMA BooksClear ==
    ASSUME TypeInv, BooksInv, TypeInv', delta' = delta, epoch' = epoch + 1, Faults' >= Faults
    PROVE  BooksInv'
  <1>1. Repeats' = Repeats
    BY DEF Repeats
  <1>2. /\ Cardinality(Repeats) \in Nat /\ Cardinality(Lost) \in Nat /\ Faults \in Int
        /\ Cardinality(Repeats) + Cardinality(Lost) <= Faults
    BY BooksFinite DEF BooksInv
  <1>3. \A i \in DOMAIN delta' : delta'[i].epoch <= epoch' /\ delta'[i].epoch # epoch'
    <2>0. delta \in Seq(CommitRec) /\ epoch \in Nat
      BY DEF TypeInv, TypeOK, StoreOK
    <2>1. epoch \in Int /\ \A i \in DOMAIN delta : delta[i].epoch \in Int /\ delta[i].epoch <= epoch
      <3>1. \A i \in DOMAIN delta : delta[i] \in CommitRec
        BY <2>0
      <3>2. \A c \in CommitRec : c.epoch \in Nat
        BY DEF CommitRec
      <3> QED
        BY <2>0, <3>1, <3>2 DEF BooksInv
    <2> QED
      BY <2>1
  <1>4. Lost' = {}
    BY <1>3 DEF Lost, Current
  <1>5. Cardinality(Lost') = 0 /\ Faults' \in Int
    BY <1>4, FS_EmptySet, BoundsAssumption, EventNames DEF Faults, Spent, TypeInv, TypeOK
  <1> QED
    BY <1>1, <1>2, <1>3, <1>5 DEF BooksInv

\* A commit repeats exactly when its file was lost on the checkpoints.
LEMMA BooksCommit ==
    ASSUME TypeInv, LoaderInv, BooksInv, TypeInv', LoadCommit(d)
    PROVE  BooksInv'
  <1> DEFINE s == fp[d]
             n == Len(delta)
  <1>1. /\ s \in Stamps /\ s \notin Succeeded /\ stage[d] = "load"
    BY DEF LoadCommit, TypeInv, AtHand, LoaderInv, Fresh, WithFp, WithFile, d, Runners
  <1>2. /\ Loaded(d) \in CommitRec /\ Loaded(d).fp = s /\ Loaded(d).epoch = epoch
        /\ delta' = Append(delta, Loaded(d)) /\ delta \in Seq(CommitRec)
    BY LoadedType DEF d, Runners, Loaded, TypeInv, TypeOK, StoreOK
  <1>3. /\ UNCHANGED <<rows, epoch, fp, left>> /\ stage' = [stage EXCEPT ![d] = "checkpoint"]
    BY DEF LoadCommit, GoTo
  <1>4. stage'[d] = "checkpoint" /\ fp'[d] = s /\ Succeeded' = Succeeded /\ Faults' = Faults
    BY <1>3 DEF TypeInv, TypeOK, CycleOK, d, Runners, Succeeded, Faults, Spent
  <1>5. /\ DOMAIN delta = 1..n /\ DOMAIN delta' = 1..(n + 1) /\ n \in Nat
        /\ \A i \in 1..n : delta'[i] = delta[i]
        /\ delta'[n + 1] = Loaded(d)
    BY <1>2
  <1> HIDE DEF s, n
  <1>6. \A x \in Stamps : Current(x)' <=> Current(x) \/ x = s
    BY <1>2, <1>3, <1>5 DEF Current
  <1>7. Lost' = Lost \ {s}
    BY <1>1, <1>4, <1>6 DEF Lost, InFlight
  <1>8. Repeats' = IF Current(s) THEN Repeats \cup {n + 1} ELSE Repeats
    <2>1. \A i \in 1..n : i \in Repeats' <=> i \in Repeats
      <3> SUFFICES ASSUME NEW i \in 1..n PROVE i \in Repeats' <=> i \in Repeats
        OBVIOUS
      <3>1. i \in 1..(n + 1) /\ \A j \in 1..(i - 1) : j \in 1..n
        BY <1>5
      <3> QED
        BY <1>5, <3>1 DEF Repeats
    <2>2. n + 1 \in Repeats' <=> Current(s)
      <3>1. n + 1 \in 1..(n + 1) /\ 1..((n + 1) - 1) = 1..n
        BY <1>5
      <3>2. \A j \in 1..n : /\ delta'[j].fp = delta'[n + 1].fp <=> delta[j].fp = s
                            /\ delta'[j].epoch = delta'[n + 1].epoch <=> delta[j].epoch = epoch
        BY <1>2, <1>5
      <3> QED
        BY <1>5, <3>1, <3>2 DEF Repeats, Current
    <2>3. Repeats \subseteq 1..n /\ Repeats' \subseteq 1..(n + 1) /\ n + 1 \notin 1..n
      BY <1>5 DEF Repeats
    <2>4. 1..(n + 1) = 1..n \cup {n + 1}
      BY <1>5
    <2>5. ASSUME NEW i PROVE i \in Repeats' <=> i \in Repeats \/ (i = n + 1 /\ Current(s))
      <3>1. CASE i \in 1..n
        <4>1. i # n + 1
          BY <2>3, <3>1
        <4> QED
          BY <2>1, <3>1, <4>1
      <3>2. CASE i = n + 1
        BY <2>2, <2>3, <3>2, Zenon
      <3>3. CASE i \notin 1..(n + 1)
        BY <2>3, <2>4, <3>3, Zenon
      <3> QED
        BY <2>4, <3>1, <3>2, <3>3, Zenon
    <2> DEFINE old == Repeats
               new == Repeats'
    <2>6. \A i : i \in new <=> i \in old \/ (i = n + 1 /\ Current(s))
      BY <2>5
    <2> HIDE DEF old, new
    <2>7. new = IF Current(s) THEN old \cup {n + 1} ELSE old
      <3>1. CASE Current(s)
        <4>1. new = old \cup {n + 1}
          BY <2>6, <3>1
        <4> QED
          BY <3>1, <4>1
      <3>2. CASE ~Current(s)
        <4>1. new = old
          BY <2>6, <3>2
        <4> QED
          BY <3>2, <4>1
      <3> QED
        BY <3>1, <3>2
    <2> QED
      BY <2>7 DEF old, new
  <1>9. /\ IsFiniteSet(Lost) /\ IsFiniteSet(Repeats) /\ Cardinality(Lost) \in Nat
        /\ Cardinality(Repeats) \in Nat /\ Faults \in Int
        /\ Cardinality(Repeats) + Cardinality(Lost) <= Faults
    BY BooksFinite DEF BooksInv
  <1>10. Cardinality(Repeats') + Cardinality(Lost') <= Faults'
    <2>1. CASE Current(s)
      <3>1. s \in Lost
        BY <1>1, <2>1 DEF Lost, InFlight
      <3>2. Cardinality(Lost') = Cardinality(Lost) - 1
        BY <1>7, <1>9, <3>1, FS_RemoveElement
      <3>3. n + 1 \notin Repeats
        BY <1>5 DEF Repeats
      <3>4. Cardinality(Repeats') = Cardinality(Repeats) + 1
        BY <1>8, <1>9, <2>1, <3>3, FS_AddElement
      <3> QED
        BY <1>4, <1>9, <3>2, <3>4
    <2>2. CASE ~Current(s)
      <3>1. Lost' = Lost /\ Repeats' = Repeats
        BY <1>7, <1>8, <2>2 DEF Lost
      <3> QED
        BY <1>4, <1>9, <3>1
    <2> QED
      BY <2>1, <2>2
  <1>11. \A i \in DOMAIN delta' : delta'[i].epoch <= epoch'
    <2>1. epoch \in Nat /\ \A i \in DOMAIN delta : delta[i].epoch <= epoch
      BY DEF TypeInv, TypeOK, StoreOK, BooksInv
    <2> QED
      BY <1>2, <1>3, <1>5, <2>1
  <1> QED
    BY <1>10, <1>11 DEF BooksInv

LEMMA BooksStep ==
    TypeInv /\ LoaderInv /\ BooksInv /\ [Next]_vars /\ TypeInv' => BooksInv'
  <1> SUFFICES ASSUME TypeInv, LoaderInv, BooksInv, [Next]_vars, TypeInv' PROVE BooksInv'
    OBVIOUS
  <1>0. /\ stage \in [Runners -> Stages] /\ fp \in [Runners -> 0..MaxWrites] /\ d \in Runners
        /\ rows \in [Stamps -> {"none", "SUCCESS", "FAILED", "QUARANTINED"}] /\ Faults \in Int
    BY BooksFinite DEF TypeInv, TypeOK, StoreOK, CycleOK, d, Runners
  <1>f. \A e \in Events : Spend(e) => Faults' >= Faults
    BY FaultsGrow
  <1>u. left' = left => Faults' >= Faults
    BY <1>0 DEF Faults, Spent
  \* The cycle has no commit to checkpoint before the step, or the step keeps it in flight.
  <1>a. ASSUME UNCHANGED <<delta, epoch>>, Succeeded' = Succeeded, Faults' >= Faults,
               \/ stage[d] # "checkpoint"
               \/ stage'[d] = stage[d] /\ fp'[d] = fp[d]
        PROVE  BooksInv'
    <2>1. Lost' \subseteq Lost
      BY <1>a DEF Lost, InFlight, Current
    <2> QED
      BY <1>a, <2>1, BooksMove
  <1>b. ASSUME UNCHANGED <<delta, epoch, rows>>, NEW e \in {"crash", "dbfail"}, Spend(e)
        PROVE  BooksInv'
    <2>1. Faults' = Faults + 1
      BY <1>b, FaultsGrow, EventNames
    <2>2. Succeeded' = Succeeded
      BY <1>b DEF Succeeded
    <2>3. Lost' \subseteq Lost \cup {fp[d]}
      BY <1>b, <2>2 DEF Lost, InFlight, Current
    <2> QED
      BY <1>b, <2>1, <2>3, BooksMove
  <1>1. CASE VolumeNext
    <2>1. UNCHANGED <<store, cycle>> /\ Faults' >= Faults
      BY <1>1, <1>f, <1>u, EventNames DEF VolumeNext, UploadOpen, UploadClose, RemoveFile
    <2> QED
      BY <1>a, <2>1 DEF store, cycle, Succeeded
  <1>2. CASE UpdatePipeline \/ CreatePipeline
    <2>1. UNCHANGED <<store, cycle>> /\ Faults' >= Faults
      BY <1>2, <1>f, <1>u, EventNames DEF UpdatePipeline, CreatePipeline
    <2> QED
      BY <1>a, <2>1 DEF store, cycle, Succeeded
  <1>3. CASE ResetCheckpoints \/ DeletePipeline
    <2>1. delta' = delta /\ epoch' = epoch + 1 /\ Faults' >= Faults
      BY <1>3, <1>f, EventNames DEF ResetCheckpoints, DeletePipeline, ClearHistory
    <2> QED
      BY <2>1, BooksClear
  <1>4. CASE DaemonDispatch
    <2>1. stage[d] # "checkpoint" /\ UNCHANGED <<store, left>>
      BY <1>4 DEF DaemonDispatch, d
    <2> QED
      BY <1>a, <1>u, <2>1 DEF store, Succeeded
  <1>5. CASE RunNow
    BY <1>5 DEF RunNow, Spend, LoaderInv, OneRunner
  <1>6. ASSUME NEW r \in Runners, CycleStep(r) PROVE BooksInv'
    <2>0. r = d
      BY <1>6, OnlyDaemonSteps DEF LoaderInv
    <2>1. CASE \/ Fetch(d) \/ Start(d) \/ Scan(d) \/ Sort(d) \/ Pick(d) \/ Skip(d)
               \/ PickNone(d) \/ Finish(d) \/ Stat(d) \/ LoadUnreadable(d)
               \/ MoveToQuarantine(d)
      <3>1. stage[d] # "checkpoint" /\ UNCHANGED <<rows, delta, epoch, left>>
        BY <2>1 DEF Fetch, Start, Scan, Sort, Pick, Skip, PickNone, Finish, Stat, Take,
                    LoadUnreadable, MoveToQuarantine, OnlyStage, store
      <3> QED
        BY <1>a, <1>u, <3>1 DEF Succeeded
    <2>2. CASE LoadRefused(d)
      <3>1. stage[d] # "checkpoint" /\ UNCHANGED <<rows, delta, epoch>> /\ Faults' >= Faults
        BY <2>2, <1>f, <1>u, EventNames DEF LoadRefused, OnlyStage, store
      <3> QED
        BY <1>a, <3>1 DEF Succeeded
    <2>3. CASE LoadCommit(d)
      BY <2>3, BooksCommit
    <2>4. CASE Checkpoint(d)
      <3>1. /\ stage[d] = "checkpoint" /\ rows' = [rows EXCEPT ![fp[d]] = "SUCCESS"]
            /\ UNCHANGED <<delta, epoch, left>>
        BY <2>4 DEF Checkpoint
      <3>2. fp[d] \in Stamps
        BY <3>1, <1>0 DEF TypeInv, AtHand, WithFp, WithFile
      <3>3. Succeeded' = Succeeded \cup {fp[d]}
        BY <1>0, <3>1, <3>2 DEF Succeeded
      <3>4. Lost' \subseteq Lost
        BY <3>1, <3>3 DEF Lost, InFlight, Current
      <3> QED
        BY <1>u, <3>1, <3>4, BooksMove
    <2>5. CASE CheckpointFails(d) \/ RecordFails(d)
      BY <2>5, <1>b DEF CheckpointFails, RecordFails, OnlyStage, store
    <2>6. CASE RecordFailure(d) \/ RecordQuarantine(d)
      <3>1. /\ stage[d] \in {"fail", "audit"} /\ UNCHANGED <<delta, epoch, left>>
            /\ \E s \in {"FAILED", "QUARANTINED"} : rows' = [rows EXCEPT ![fp[d]] = s]
        BY <2>6 DEF RecordFailure, RecordQuarantine
      <3>2. fp[d] \in Stamps /\ fp[d] \notin Succeeded
        BY <3>1, <1>0 DEF TypeInv, AtHand, LoaderInv, Fresh, WithFp, WithFile
      <3>3. Succeeded' = Succeeded
        BY <1>0, <3>1, <3>2 DEF Succeeded
      <3> QED
        BY <1>a, <1>u, <3>1, <3>3
    <2> QED
      BY <1>6, <2>0, <2>1, <2>2, <2>3, <2>4, <2>5, <2>6 DEF CycleStep
  <1>7. CASE Crash
    BY <1>7, <1>b DEF Crash, store
  <1>8. CASE UNCHANGED vars
    BY <1>8, <1>a, <1>u DEF vars, store, cycle, Succeeded
  <1> QED
    BY <1>1, <1>2, <1>3, <1>4, <1>5, <1>6, <1>7, <1>8 DEF Next, PipelineNext

LEMMA BooksInit == Init => BooksInv
  <1> SUFFICES ASSUME Init PROVE BooksInv
    OBVIOUS
  <1>1. /\ DOMAIN delta = {} /\ left = Budget
    BY DEF Init
  <1>2. Repeats = {} /\ Lost = {}
    BY <1>1 DEF Repeats, Lost, Current
  <1>3. Faults = 0
    BY <1>1, BoundsAssumption, EventNames DEF Faults, Spent
  <1> QED
    BY <1>1, <1>2, <1>3, FS_EmptySet DEF BooksInv

LEMMA BooksBalance ==
    ASSUME Budget["manual"] = 0, TypeInv, LoaderInv, BooksInv
    PROVE  RepeatsAccountedFor
  <1>1. Spent("manual") = 0 /\ Cardinality(Paths) \in Nat
    BY PathsAssumption, FS_CardinalityType DEF Spent, LoaderInv, OneRunner
  <1>2. Spent("manual") * Cardinality(Paths) = 0
    BY <1>1
  <1>3. Cardinality(Repeats) + Cardinality(Lost) <= Faults
    BY DEF BooksInv
  <1> QED
    BY <1>2, <1>3, BooksFinite DEF RepeatsAccountedFor, Faults

\* At most one file lands twice for each crash and each failing transaction, for any
\* number of files, faults, uploads, resets and deletions around the daemon's cycles.
THEOREM FaultsBoundRepeats ==
    ASSUME Budget["manual"] = 0
    PROVE  Spec => []RepeatsAccountedFor
  BY TypeInit, TypeStep, LoaderInit, LoaderStep, BooksInit, BooksStep, BooksBalance, PTL DEF Spec

\* The counter: every acknowledgement is of a file that was not acknowledged before.
CounterInv == /\ exists /\ left["recreate"] = 0
              /\ total = Cardinality(Succeeded)

LEMMA CounterStep ==
    TypeInv /\ LoaderInv /\ CounterInv /\ [Next]_vars => CounterInv'
  <1> SUFFICES ASSUME TypeInv, LoaderInv, CounterInv, [Next]_vars PROVE CounterInv'
    OBVIOUS
  <1>0. /\ exists /\ total = Cardinality(Succeeded)
        /\ rows \in [Stamps -> {"none", "SUCCESS", "FAILED", "QUARANTINED"}]
        /\ fp \in [Runners -> 0..MaxWrites] /\ d \in Runners
    BY DEF CounterInv, TypeInv, TypeOK, StoreOK, CycleOK, d, Runners
  <1>s. ASSUME NEW e \in Events, Spend(e) PROVE left'["recreate"] = 0 /\ e # "recreate"
    BY <1>s, EventNames DEF Spend, CounterInv, TypeInv, TypeOK
  <1>u. left' = left => left'["recreate"] = 0
    BY DEF CounterInv
  <1>a. ASSUME UNCHANGED <<exists, total>>, Succeeded' = Succeeded, left'["recreate"] = 0
        PROVE  CounterInv'
    BY <1>a, <1>0 DEF CounterInv
  <1>1. CASE VolumeNext \/ UpdatePipeline \/ CreatePipeline \/ DaemonDispatch \/ RunNow \/ Crash
    <2>1. UNCHANGED <<exists, total, rows>>
      BY <1>0, <1>1 DEF VolumeNext, UploadOpen, UploadClose, RemoveFile, UpdatePipeline,
                        CreatePipeline, DaemonDispatch, RunNow, Crash, pipeline, store
    <2>2. left'["recreate"] = 0
      BY <1>1, <1>s, <1>u, EventNames DEF VolumeNext, UploadOpen, UploadClose, RemoveFile,
                        UpdatePipeline, CreatePipeline, DaemonDispatch, RunNow, Crash
    <2> QED
      BY <1>a, <2>1, <2>2 DEF Succeeded
  <1>2. CASE ResetCheckpoints
    <2>1. rows' = NoRows /\ total' = 0 /\ exists' = exists /\ Spend("reset")
      BY <1>0, <1>2 DEF ResetCheckpoints, ClearHistory
    <2>2. Succeeded' = {}
      BY <2>1 DEF Succeeded, NoRows
    <2> QED
      BY <1>0, <1>s, <2>1, <2>2, EventNames, FS_EmptySet DEF CounterInv
  <1>3. CASE DeletePipeline
    BY <1>3, <1>s, EventNames DEF DeletePipeline
  <1>4. ASSUME NEW r \in Runners, CycleStep(r) PROVE CounterInv'
    <2>0. r = d
      BY <1>4, OnlyDaemonSteps DEF LoaderInv
    <2>1. CASE Checkpoint(d)
      <3>1. /\ stage[d] = "checkpoint" /\ rows' = [rows EXCEPT ![fp[d]] = "SUCCESS"]
            /\ total' = total + 1 /\ UNCHANGED <<exists, left>>
        BY <1>0, <2>1 DEF Checkpoint
      <3>2. fp[d] \in Stamps /\ fp[d] \notin Succeeded
        BY <3>1, <1>0 DEF TypeInv, AtHand, LoaderInv, Fresh, WithFp, WithFile
      <3>3. Succeeded' = Succeeded \cup {fp[d]}
        BY <1>0, <3>1, <3>2 DEF Succeeded
      <3>4. Cardinality(Succeeded') = Cardinality(Succeeded) + 1
        BY <3>2, <3>3, BooksFinite, FS_AddElement
      <3> QED
        BY <1>0, <1>u, <3>1, <3>4 DEF CounterInv
    <2>2. CASE RecordFailure(d) \/ RecordQuarantine(d)
      <3>1. /\ stage[d] \in {"fail", "audit"} /\ UNCHANGED <<exists, total, left>>
            /\ \E s \in {"FAILED", "QUARANTINED"} : rows' = [rows EXCEPT ![fp[d]] = s]
        BY <2>2 DEF RecordFailure, RecordQuarantine, pipeline
      <3>2. fp[d] \in Stamps /\ fp[d] \notin Succeeded
        BY <3>1, <1>0 DEF TypeInv, AtHand, LoaderInv, Fresh, WithFp, WithFile
      <3>3. Succeeded' = Succeeded
        BY <1>0, <3>1, <3>2 DEF Succeeded
      <3> QED
        BY <1>a, <1>u, <3>1, <3>3
    <2>3. CASE ~Checkpoint(d) /\ ~RecordFailure(d) /\ ~RecordQuarantine(d)
      <3>1. UNCHANGED <<exists, total, rows>>
        BY <1>4, <2>0, <2>3 DEF CycleStep, Fetch, Start, Scan, Sort, Pick, Skip, PickNone, Finish,
           Stat, Take, LoadCommit, LoadUnreadable, LoadRefused, CheckpointFails,
           MoveToQuarantine, RecordFails, OnlyStage, pipeline, store
      <3>2. left'["recreate"] = 0
        BY <1>4, <2>0, <2>3, <1>s, <1>u, EventNames DEF CycleStep, Fetch, Start, Scan, Sort, Pick,
           Skip, PickNone, Finish, Stat, Take, LoadCommit, LoadUnreadable, LoadRefused,
           CheckpointFails, MoveToQuarantine, RecordFails
      <3> QED
        BY <1>a, <3>1, <3>2 DEF Succeeded
    <2> QED
      BY <2>1, <2>2, <2>3
  <1>5. CASE UNCHANGED vars
    BY <1>5, <1>a, <1>u DEF vars, pipeline, store, Succeeded
  <1> QED
    BY <1>1, <1>2, <1>3, <1>4, <1>5 DEF Next, PipelineNext

\* Together with the counter of a pipeline that is not deleted and created again: what the
\* table holds and what the checkpoints say of it, through crashes, faults and resets.
THEOREM HistoryIsKept ==
    ASSUME Budget["manual"] = 0, Budget["recreate"] = 0
    PROVE  Spec => []HistoryKept
  <1>1. Init => CounterInv
    <2> SUFFICES ASSUME Init PROVE CounterInv
      OBVIOUS
    <2>1. Succeeded = {}
      BY DEF Init, Succeeded, NoRows
    <2> QED
      BY <2>1, FS_EmptySet DEF Init, CounterInv
  <1>2. TypeInv /\ LoaderInv /\ BooksInv /\ CounterInv => HistoryKept
    BY BooksBalance DEF HistoryKept, CounterInv, TotalMatchesHistory
  <1> QED
    BY <1>1, <1>2, TypeInit, TypeStep, LoaderInit, LoaderStep, BooksInit, BooksStep, CounterStep,
       PTL DEF Spec
=============================================================================
