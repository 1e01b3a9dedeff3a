---------------------------- MODULE ServicesProofs ----------------------------
(***************************************************************************)
(* Proofs about the services around the warehouse.                         *)
(*                                                                         *)
(* SQL warehouses: every list an operation may save holds distinct ids and *)
(* one default.                                                            *)
(*                                                                         *)
(* Scheduled exports: while at most one is busy with the file and nobody   *)
(* has loaded what a failing write left of it, the dictionary is what the  *)
(* answered calls asked for, plus the call under way once it has changed   *)
(* it, and the jobs lag only behind a creation that is not yet saved and   *)
(* behind the start of the studio.                                         *)
(*                                                                         *)
(* Queries: the requests a run has sent are among those it gave up and     *)
(* the one whose answer it waits for or has, so whatever else has changed  *)
(* the tables on its behalf is counted among the requests given up.        *)
(*                                                                         *)
(* Traces: the spans on a thread's stack are those of the one trace it     *)
(* has, the root at the bottom; what is to be stored is closed and whole,  *)
(* and unless its storing was repeated, one caller has it.                 *)
(*                                                                         *)
(* The dbt project: what the dbt of a job has read is there until the next *)
(* request makes it old; a step that changes a schema file says what it    *)
(* takes away; and of recordings that overlap, or that a load of the file  *)
(* has dropped from the list, all are excused.                             *)
(*                                                                         *)
(* Catalogs: each stage of a synchronisation nothing interferes with has   *)
(* repaired its part of what is attached, and every other caller is yet to *)
(* touch the files or the databases.                                       *)
(***************************************************************************)
EXTENDS Warehouses, Exports, Queries, Tracing, DbtProject, Catalogs, FiniteSetTheorems, SequenceTheorems, TLAPS

-----------------------------------------------------------------------------
(* SQL warehouses.                                                         *)
(*                                                                         *)
(* OneDefault is not inductive: making a warehouse the default yields one  *)
(* default only if no two warehouses share an id, and a warehouse that is  *)
(* created has an id of its own because every id was seeded or drawn.      *)

Warehouse == [id : Seeded \cup Drawn, default : BOOLEAN, running : BOOLEAN]

\* A list an operation may save when the ids in `used` were drawn.
Sound(list, used) ==
    /\ list \subseteq Warehouse
    /\ \A w \in list : w.id \in Seeded \cup used
    /\ \A v, w \in list : v.id = w.id => v = w
    /\ \E w \in list : w.default /\ \A v \in list : v.default => v = w

WarehouseTypes ==
    /\ whText \in {"none", "cut", "whole"}
    /\ whUsed \subseteq Drawn
    /\ whChosen \subseteq Seeded \cup Drawn
    /\ whOps \in Nat /\ whCuts \in Nat

WarehouseInv == WarehouseTypes /\ Sound(Loaded, whUsed)

LEMMA SeededSound == \A used : Sound(SeededList, used)
  <1> TAKE used
  <1>1. SeededList \subseteq Warehouse /\ \A w \in SeededList : w.id \in Seeded \cup used
    <2> SUFFICES ASSUME NEW w \in SeededList PROVE w \in Warehouse /\ w.id \in Seeded
      OBVIOUS
    <2> PICK s \in Seeded : w = [id |-> s, default |-> s = Starter, running |-> s # "wh_etl_batch"]
      BY DEF SeededList
    <2>1. (s = Starter) \in BOOLEAN /\ (s # "wh_etl_batch") \in BOOLEAN
      OBVIOUS
    <2> QED
      BY <2>1, Zenon DEF Warehouse
  <1>2. \A v, w \in SeededList : v.id = w.id => v = w
    BY DEF SeededList
  <1>3. \E w \in SeededList : w.default /\ \A v \in SeededList : v.default => v = w
    <2> DEFINE st == [id |-> Starter, default |-> TRUE, running |-> TRUE]
    <2>1. st \in SeededList /\ st.default
      BY DEF SeededList, Seeded, Starter
    <2>2. ASSUME NEW v \in SeededList, v.default PROVE v = st
      <3> PICK s \in Seeded :
               v = [id |-> s, default |-> s = Starter, running |-> s # "wh_etl_batch"]
        BY DEF SeededList
      <3>1. s = Starter
        BY <2>2
      <3>2. (s = Starter) = TRUE /\ (s # "wh_etl_batch") = TRUE
        BY <3>1 DEF Starter
      <3> QED
        BY <3>1, <3>2, Zenon
    <2> QED
      BY <2>1, <2>2
  <1> QED
    BY <1>1, <1>2, <1>3 DEF Sound

\* A sound list that is saved, whole or cut off, leaves a sound list to load.
LEMMA SavedSound ==
    ASSUME NEW list, SaveList(list), whCuts \in Nat, whUsed' \subseteq Drawn,
           Sound(list, whUsed')
    PROVE  /\ whText' \in {"none", "cut", "whole"} /\ whCuts' \in Nat
           /\ Sound(Loaded, whUsed)'
  <1>1. whText' \in {"cut", "whole"} /\ whCuts' \in Nat /\ (whText' = "whole" => whList' = list)
    BY DEF SaveList
  <1>2. Loaded' \in {list, SeededList}
    BY <1>1 DEF Loaded, SeededList
  <1> QED
    BY <1>1, <1>2, SeededSound DEF Sound, Loaded

\* What the operations make of a sound list.
LEMMA OperationsSound ==
    ASSUME NEW used, Sound(Loaded, used)
    PROVE  /\ \A s \in Ids : Sound(MadeDefault(s), used)
           /\ \A s : \A on \in BOOLEAN : Sound(Switched(s, on), used)
           /\ \A s : (\E w \in Loaded : w.id = s /\ ~w.default)
                         => Sound({w \in Loaded : w.id # s}, used)
  <1> PICK first \in Loaded : first.default /\ \A v \in Loaded : v.default => v = first
    BY DEF Sound
  <1>0. /\ Loaded \subseteq Warehouse /\ \A w \in Loaded : w.id \in Seeded \cup used
        /\ \A v, w \in Loaded : v.id = w.id => v = w
    BY DEF Sound
  <1>1. ASSUME NEW s \in Ids PROVE Sound(MadeDefault(s), used)
    <2> PICK w \in Loaded : w.id = s
      BY DEF Ids
    <2> DEFINE made(v) == [v EXCEPT !.default = (v.id = s)]
    <2>1. \A v \in Loaded : /\ made(v) \in Warehouse /\ made(v).id = v.id
                            /\ made(v).default = (v.id = s)
      BY <1>0 DEF Warehouse
    <2>2. MadeDefault(s) = {made(v) : v \in Loaded}
      BY DEF MadeDefault
    <2> HIDE DEF made
    <2>3. \A v \in MadeDefault(s) : v.default => v = made(w)
      BY <2>1, <2>2, <1>0
    <2>4. made(w) \in MadeDefault(s) /\ made(w).default
      BY <2>1, <2>2
    <2>5. \A u, v \in MadeDefault(s) : u.id = v.id => u = v
      BY <2>1, <2>2, <1>0
    <2>6. MadeDefault(s) \subseteq Warehouse /\ \A v \in MadeDefault(s) : v.id \in Seeded \cup used
      BY <2>1, <2>2, <1>0
    <2> QED
      BY <2>3, <2>4, <2>5, <2>6 DEF Sound
  <1>2. ASSUME NEW s, NEW on \in BOOLEAN PROVE Sound(Switched(s, on), used)
    <2> DEFINE made(v) == IF v.id = s THEN [v EXCEPT !.running = on] ELSE v
    <2>1. \A v \in Loaded : /\ made(v) \in Warehouse /\ made(v).id = v.id
                            /\ made(v).default = v.default
      BY <1>0 DEF Warehouse
    <2>2. Switched(s, on) = {made(v) : v \in Loaded}
      BY DEF Switched
    <2> HIDE DEF made
    <2>3. \A v \in Switched(s, on) : v.default => v = made(first)
      BY <2>1, <2>2, <1>0
    <2>4. made(first) \in Switched(s, on) /\ made(first).default
      BY <2>1, <2>2
    <2>5. \A u, v \in Switched(s, on) : u.id = v.id => u = v
      BY <2>1, <2>2, <1>0
    <2>6. Switched(s, on) \subseteq Warehouse
          /\ \A v \in Switched(s, on) : v.id \in Seeded \cup used
      BY <2>1, <2>2, <1>0
    <2> QED
      BY <2>3, <2>4, <2>5, <2>6 DEF Sound
  <1>3. ASSUME NEW s, NEW w \in Loaded, w.id = s, ~w.default
        PROVE  Sound({v \in Loaded : v.id # s}, used)
    <2>1. first.id # s
      BY <1>0, <1>3
    <2> QED
      BY <2>1, <1>0 DEF Sound
  <1> QED
    BY <1>1, <1>2, <1>3

LEMMA CreationSound ==
    ASSUME Sound(Loaded, whUsed), whUsed \subseteq Drawn,
           NEW s \in Drawn, s \notin whUsed, NEW default \in BOOLEAN
    PROVE  LET others == IF default THEN {[w EXCEPT !.default = FALSE] : w \in Loaded} ELSE Loaded
           IN  Sound(others \cup {[id |-> s, default |-> default, running |-> TRUE]},
                     whUsed \cup {s})
  <1> DEFINE new    == [id |-> s, default |-> default, running |-> TRUE]
             off(w) == [w EXCEPT !.default = FALSE]
             others == IF default THEN {off(w) : w \in Loaded} ELSE Loaded
  <1>0. /\ Loaded \subseteq Warehouse /\ \A w \in Loaded : w.id \in Seeded \cup whUsed
        /\ \A v, w \in Loaded : v.id = w.id => v = w
    BY DEF Sound
  <1>1. s \notin Seeded \cup whUsed
    BY WarehouseAssumption
  <1>2. \A w \in Loaded : off(w) \in Warehouse /\ off(w).id = w.id /\ ~off(w).default
    BY <1>0 DEF Warehouse
  <1>3. new \in Warehouse /\ new.id = s /\ new.default = default
    BY DEF Warehouse
  <1> HIDE DEF new, off
  <1>4. /\ others \subseteq Warehouse
        /\ \A w \in others : w.id \in Seeded \cup whUsed
        /\ \A v, w \in others : v.id = w.id => v = w
    <2>1. CASE default
      BY <1>0, <1>2, <2>1
    <2>2. CASE ~default
      BY <1>0, <2>2
    <2> QED
      BY <2>1, <2>2
  <1>5. \E w \in others \cup {new} : w.default /\ \A v \in others \cup {new} : v.default => v = w
    <2>1. CASE default
      <3>1. \A w \in others : ~w.default
        BY <1>2, <2>1
      <3> QED
        BY <3>1, <1>3, <2>1
    <2>2. CASE ~default
      <3>1. others = Loaded /\ ~new.default
        BY <1>3, <2>2
      <3>2. \E w \in others : w.default /\ \A v \in others : v.default => v = w
        BY <3>1 DEF Sound
      <3> QED
        BY <3>1, <3>2
    <2> QED
      BY <2>1, <2>2
  <1> HIDE DEF others
  <1>6. Sound(others \cup {new}, whUsed \cup {s})
    <2>1. \A v, w \in others \cup {new} : v.id = w.id => v = w
      BY <1>1, <1>3, <1>4
    <2>2. \A w \in others \cup {new} : w.id \in Seeded \cup (whUsed \cup {s})
      BY <1>3, <1>4
    <2> QED
      BY <1>3, <1>4, <1>5, <2>1, <2>2 DEF Sound
  <1> QED
    BY <1>6 DEF others, off, new

LEMMA WarehouseStep == WarehouseInv /\ [WarehouseNext]_warehouseVars => WarehouseInv'
  <1> SUFFICES ASSUME WarehouseInv, [WarehouseNext]_warehouseVars PROVE WarehouseInv'
    OBVIOUS
  <1>0. WarehouseTypes /\ Sound(Loaded, whUsed) /\ whCuts \in Nat /\ whUsed \subseteq Drawn
    BY DEF WarehouseInv, WarehouseTypes
  <1> DEFINE Same == UNCHANGED <<whText, whList, whCuts>>
  <1>a. ASSUME NEW list, SaveList(list), Sound(list, whUsed'), whUsed' \subseteq Drawn,
               whChosen' \subseteq Seeded \cup Drawn, whOps' \in Nat
        PROVE  WarehouseInv'
    BY <1>a, <1>0, SavedSound DEF WarehouseInv, WarehouseTypes
  <1>b. ASSUME Same, whUsed' = whUsed, whChosen' \subseteq Seeded \cup Drawn, whOps' \in Nat
        PROVE  WarehouseInv'
    <2>1. Loaded' = Loaded
      BY <1>b DEF Loaded, SeededList
    <2> QED
      BY <1>b, <1>0, <2>1 DEF WarehouseInv, WarehouseTypes, Sound
  <1>c. Operation => whOps' \in Nat
    BY <1>0 DEF Operation, WarehouseTypes
  <1>1. ASSUME NEW s \in Drawn, NEW default \in BOOLEAN, CreateWarehouse(s, default)
        PROVE  WarehouseInv'
    <2> DEFINE others == IF default THEN {[w EXCEPT !.default = FALSE] : w \in Loaded} ELSE Loaded
               list   == others \cup {[id |-> s, default |-> default, running |-> TRUE]}
    <2>1. /\ SaveList(list) /\ whUsed' = whUsed \cup {s} /\ s \notin whUsed
          /\ whChosen' = whChosen /\ Operation
      BY <1>1 DEF CreateWarehouse
    <2>2. Sound(list, whUsed')
      BY <1>0, <2>1, CreationSound
    <2> HIDE DEF list
    <2> QED
      BY <1>0, <1>a, <1>c, <2>1, <2>2 DEF WarehouseTypes
  <1>2. ASSUME NEW s \in Seeded \cup Drawn,
               \/ UpdateWarehouse(s) \/ DeleteWarehouse(s)
               \/ \E on \in BOOLEAN : StartOrStop(s, on)
        PROVE  WarehouseInv'
    <2>1. /\ \E list : SaveList(list) /\ Sound(list, whUsed)
          /\ whUsed' = whUsed /\ whChosen' = whChosen /\ Operation
      BY <1>0, <1>2, OperationsSound DEF UpdateWarehouse, DeleteWarehouse, StartOrStop
    <2> QED
      BY <1>0, <1>a, <1>c, <2>1 DEF WarehouseTypes
  <1>3. ASSUME NEW s \in Seeded \cup Drawn, ApplyCompute(s) PROVE WarehouseInv'
    <2> PICK w \in Loaded :
             /\ whChosen' = {w.id}
             /\ IF w.running THEN Same ELSE SaveList(Switched(w.id, TRUE))
      BY <1>3 DEF ApplyCompute
    <2>1. whUsed' = whUsed /\ Operation
      BY <1>3 DEF ApplyCompute
    <2>2. whChosen' \subseteq Seeded \cup Drawn
      BY <1>0 DEF Sound
    <2>3. Sound(Switched(w.id, TRUE), whUsed)
      BY <1>0, OperationsSound
    <2> QED
      BY <1>0, <1>a, <1>b, <1>c, <2>1, <2>2, <2>3
  <1>4. CASE Touch
    <2>1. /\ SaveList(Loaded) \/ Same
          /\ whUsed' = whUsed /\ whChosen' = {} /\ whOps' = whOps
      BY <1>4 DEF Touch
    <2>2. whOps' \in Nat
      BY <1>0, <2>1 DEF WarehouseTypes
    <2> QED
      BY <1>0, <1>a, <1>b, <2>1, <2>2
  <1>5. CASE UNCHANGED warehouseVars
    BY <1>0, <1>b, <1>5 DEF warehouseVars, WarehouseTypes
  <1> QED
    BY <1>1, <1>2, <1>3, <1>4, <1>5 DEF WarehouseNext

\* Every list an operation loads has exactly one default warehouse, for any number of
\* warehouses, creations and saves that are cut off.
THEOREM DefaultIsUnique == WarehouseSpec => []OneDefault
  <1>1. WarehouseInit => WarehouseInv
    <2> SUFFICES ASSUME WarehouseInit PROVE WarehouseInv
      OBVIOUS
    <2>1. Loaded = SeededList /\ WarehouseTypes
      BY DEF WarehouseInit, Loaded, WarehouseTypes
    <2> QED
      BY <2>1, SeededSound DEF WarehouseInv
  <1>2. WarehouseInv => OneDefault
    BY DEF WarehouseInv, Sound, OneDefault
  <1> QED
    BY <1>1, <1>2, WarehouseStep, PTL DEF WarehouseSpec
-----------------------------------------------------------------------------
(* Scheduled exports.                                                      *)
(*                                                                         *)
(* The invariant follows one call of the studio through its pieces.  As    *)
(* long as no two actors have been busy with the file at the same moment,  *)
(* and nobody has loaded one that a failing write had cut, the dictionary  *)
(* holds what the answered calls asked for, or that and what the call      *)
(* under way asks for once it has changed it; the jobs lag behind a        *)
(* creation until it has saved, and behind the start of the studio.        *)

Places == {"idle", "read", "assign", "act", "export", "open", "write", "schedule", "restore"}

ExportTypes ==
    /\ exText \in {"none", "cut", "whole"}
    /\ exStep \in [Actors -> Places]
    /\ DOMAIN exSeen = Actors
    /\ exCall \in [call : {"create", "update", "delete", "trigger", "list", "init"},
                   id   : Schedules \cup {""}, rec : Records]
    /\ exMore \in BOOLEAN /\ exClash \in BOOLEAN /\ exLost \in BOOLEAN

FileInv ==
    /\ \A a, b \in Actors : Busy(a) /\ Busy(b) => a = b
    /\ (\A a \in Actors : exStep[a] # "write") => exText = "cut" \/ exFile = exAsked
    /\ \A a \in Actors : exStep[a] = "assign" => exSeen[a] = exAsked
    /\ exStep[Studio] \in {"idle", "read", "assign", "act", "schedule", "restore"} => exMem = exAsked
    /\ exStep[Studio] \in {"open", "write", "schedule"} => exMem = Asked

\* The studio's start has loaded what was asked for, and adds no job for anything else.
Restoring == exCall.call = "init" /\ exSeen[Studio] = exAsked /\ exJobs \subseteq Schedulable(exAsked)

JobsInv ==
    LET at == exStep[Studio]
        id == exCall.id
    IN  /\ at \in {"idle", "read", "assign", "act"} => exJobs = Schedulable(exAsked)
        /\ at \in {"open", "write"} =>
               \/ /\ exCall.call = "create" /\ exJobs = Schedulable(exAsked)
                  /\ id \in DOMAIN exAsked => exAsked[id] = exCall.rec /\ id \in exJobs
               \/ exCall.call \in {"update", "delete"} /\ exJobs = Schedulable(Asked)
               \/ Restoring
        /\ at = "restore" => Restoring
        /\ at = "schedule" =>
               /\ exCall.call = "create" /\ exCall.rec.on
               /\ id \in DOMAIN exAsked /\ exAsked[id] = exCall.rec
               /\ exJobs = Schedulable(exAsked) \ {id}
        /\ at \in {"read", "assign", "act"} /\ exCall.call = "create" => id \notin DOMAIN exAsked
        /\ at # "idle" => exCall.call = "init" \/ id \in exUsed
        /\ exMore => at \in {"open", "write"} /\ exCall.call = "update"
        /\ DOMAIN exAsked \subseteq exUsed

ExportInv == ExportTypes /\ (exClash \/ exLost \/ (FileInv /\ JobsInv))

\* What a book schedules once a schedule is put into it or taken out of it.
LEMMA BooksChanged ==
    ASSUME NEW book, NEW s, NEW r \in Records
    PROVE  /\ DOMAIN With(book, s, r) = DOMAIN book \cup {s}
           /\ With(book, s, r)[s] = r
           /\ Schedulable(With(book, s, r)) = IF r.on /\ r.ok THEN Schedulable(book) \cup {s}
                                              ELSE Schedulable(book) \ {s}
           /\ With(With(book, s, r), s, r) = With(book, s, r)
           /\ DOMAIN Without(book, s) \subseteq DOMAIN book
           /\ Schedulable(Without(book, s)) = Schedulable(book) \ {s}
  <1>1. /\ DOMAIN With(book, s, r) = DOMAIN book \cup {s}
        /\ \A x \in DOMAIN book \cup {s} : With(book, s, r)[x] = IF x = s THEN r ELSE book[x]
    BY DEF With
  <1>2. \A x : x \in Schedulable(With(book, s, r))
                   <=> x \in IF r.on /\ r.ok THEN Schedulable(book) \cup {s} ELSE Schedulable(book) \ {s}
    BY <1>1 DEF Schedulable, Records
  <1>3. With(With(book, s, r), s, r) = With(book, s, r)
    BY DEF With
  <1>4. /\ DOMAIN Without(book, s) = DOMAIN book \ {s}
        /\ \A x \in DOMAIN book \ {s} : Without(book, s)[x] = book[x]
    BY DEF Without, Restrict
  <1>5. \A x : x \in Schedulable(Without(book, s)) <=> x \in Schedulable(book) \ {s}
    BY <1>4 DEF Schedulable
  <1> QED
    BY <1>1, <1>2, <1>3, <1>4, <1>5

LEMMA ExportTypesStep == ExportTypes /\ [ExportNext]_exportVars => ExportTypes'
  <1> SUFFICES ASSUME ExportTypes, [ExportNext]_exportVars PROVE ExportTypes'
    OBVIOUS
  <1> USE DEF ExportTypes, Goes
  <1>0. \A a \in Actors : AfterSave(a) \in Places
    BY DEF AfterSave, Places
  <1>1. ASSUME NEW call \in {"create", "update", "delete", "trigger", "list"}, NEW s \in Schedules,
               NEW rec \in Records, StudioCalls(call, s, rec)
        PROVE  ExportTypes'
    BY <1>1 DEF StudioCalls, Clash, Places, store
  <1>2. ASSUME NEW t \in Threads, NEW s \in Schedules, Fire(t, s) PROVE ExportTypes'
    BY <1>2 DEF Fire, Places, store
  <1>3. ASSUME NEW t \in Threads, Begin(t) \/ Exported(t) PROVE ExportTypes'
    BY <1>3 DEF Begin, Exported, Places, store
  <1>4. ASSUME NEW a \in Actors, ReadSchedules(a) PROVE ExportTypes'
    BY <1>4 DEF ReadSchedules, Clash, Places, store
  <1>5. ASSUME NEW a \in Actors, ReplaceSchedules(a) PROVE ExportTypes'
    BY <1>5 DEF ReplaceSchedules, Places, store
  <1>6. ASSUME NEW a \in Actors, OpenSchedules(a) PROVE ExportTypes'
    BY <1>6 DEF OpenSchedules, Clash, Places
  <1>7. ASSUME NEW a \in Actors, SaveSchedules(a) PROVE ExportTypes'
    BY <1>0, <1>7 DEF SaveSchedules
  <1>8. CASE StudioActs
    <2>1. exText' = exText /\ exSeen' = exSeen /\ exCall' = exCall /\ exClash' = exClash /\ exLost' = exLost
      BY <1>8 DEF StudioActs, store
    <2>2. exMore' \in BOOLEAN
      BY <1>8 DEF StudioActs, CreateSchedule, UpdateSchedule, DeleteSchedule, TriggerNow, Answer, Records
    <2>3. exStep' \in [Actors -> Places]
      BY <1>8 DEF StudioActs, CreateSchedule, UpdateSchedule, DeleteSchedule, TriggerNow, Answer, Places
    <2> QED
      BY <2>1, <2>2, <2>3
  <1>9. CASE Schedule
    BY <1>9 DEF Schedule, Places, store
  <1>10. CASE InitScheduler
    BY <1>10 DEF InitScheduler, Places, store, NoCall, Records
  <1>13. CASE RestoreJob
    BY <1>13 DEF RestoreJob, Places, store
  <1>11. CASE UNCHANGED exportVars
    BY <1>11 DEF exportVars
  <1>12. NoCall.rec \in Records
    BY DEF NoCall, Records
  <1> QED
    <2> HIDE DEF ExportTypes
    <2>1. CASE \E call \in {"create", "update"}, s \in Schedules, rec \in Records : StudioCalls(call, s, rec)
      BY <1>1, <2>1
    <2>2. CASE \E call \in {"delete", "trigger", "list"}, s \in Schedules : StudioCalls(call, s, NoCall.rec)
      BY <1>1, <1>12, <2>2
    <2>3. CASE \E t \in Threads : Begin(t) \/ Exported(t) \/ \E s \in Schedules : Fire(t, s)
      BY <1>2, <1>3, <2>3
    <2>4. CASE \E a \in Actors :
                   ReadSchedules(a) \/ ReplaceSchedules(a) \/ OpenSchedules(a) \/ SaveSchedules(a)
      BY <1>4, <1>5, <1>6, <1>7, <2>4
    <2> QED
      BY <1>8, <1>9, <1>10, <1>11, <1>13, <2>1, <2>2, <2>3, <2>4 DEF ExportNext

\* One step while nothing has clashed: each case says who moves and what it finds.
LEMMA ExportQuietStep ==
    ASSUME ExportTypes, ~exClash, FileInv, JobsInv, [ExportNext]_exportVars, ~exClash', ~exLost'
    PROVE  FileInv' /\ JobsInv'
  <1> DEFINE at     == exStep[Studio]
             Same   == UNCHANGED <<exMem, exAsked, exCall>>
             Studios == UNCHANGED <<exAsked, exCall, exJobs, exMore, exUsed>>
  <1>0. /\ exStep \in [Actors -> Places] /\ Studio \in Actors /\ exCall.rec \in Records
        /\ \A t \in Threads : t # Studio /\ t \in Actors
        /\ exText \in {"none", "cut", "whole"} /\ DOMAIN exSeen = Actors /\ exMore \in BOOLEAN
    BY ExportAssumption DEF ExportTypes, Actors
  \* What the call under way makes of the book.
  <1>k. LET new == With(exAsked, exCall.id, exCall.rec)
            on  == exCall.rec.on /\ exCall.rec.ok
        IN  /\ DOMAIN new = DOMAIN exAsked \cup {exCall.id} /\ new[exCall.id] = exCall.rec
            /\ on => Schedulable(new) = Schedulable(exAsked) \cup {exCall.id}
            /\ ~on => Schedulable(new) = Schedulable(exAsked) \ {exCall.id}
            /\ With(new, exCall.id, exCall.rec) = new
            /\ DOMAIN Without(exAsked, exCall.id) \subseteq DOMAIN exAsked
            /\ Schedulable(Without(exAsked, exCall.id)) = Schedulable(exAsked) \ {exCall.id}
    <2> DEFINE id == exCall.id
               rec == exCall.rec
    <2>0. rec \in Records
      BY <1>0
    <2> HIDE DEF id, rec
    <2>1. /\ DOMAIN With(exAsked, id, rec) = DOMAIN exAsked \cup {id}
          /\ With(exAsked, id, rec)[id] = rec
          /\ Schedulable(With(exAsked, id, rec)) = (IF rec.on /\ rec.ok THEN Schedulable(exAsked) \cup {id}
                                                    ELSE Schedulable(exAsked) \ {id})
          /\ With(With(exAsked, id, rec), id, rec) = With(exAsked, id, rec)
          /\ DOMAIN Without(exAsked, id) \subseteq DOMAIN exAsked
          /\ Schedulable(Without(exAsked, id)) = Schedulable(exAsked) \ {id}
      BY <2>0, BooksChanged, Zenon
    <2> QED
      BY <2>1 DEF id, rec
  \* What a step to a place changes.
  <1>m. ASSUME NEW a \in Actors, NEW step, Goes(a, step)
        PROVE  /\ exStep'[a] = step
               /\ \A b \in Actors \ {a} : exStep'[b] = exStep[b] /\ (Busy(b)' <=> Busy(b))
    BY <1>0, <1>m DEF Goes, Busy
  <1>q. ASSUME NEW a \in Actors, Clash(a) PROVE \A b \in Actors \ {a} : ~Busy(b)
    BY <1>q DEF Clash
  \* The studio stands still and so does everything its call is about.
  <1>s. ASSUME exStep'[Studio] = at, Studios, exSeen'[Studio] = exSeen[Studio] PROVE JobsInv'
    <2>1. Asked' = Asked /\ Schedulable(Asked)' = Schedulable(Asked) /\ Schedulable(exAsked)' = Schedulable(exAsked)
      BY <1>s DEF Schedulable, Asked, With, Without
    <2>2. Restoring' <=> Restoring
      BY <1>s, <2>1 DEF Restoring
    <2> QED
      BY <1>s, <2>1, <2>2 DEF JobsInv
  \* An actor moves to or from a place where it holds nothing.
  <1>f. ASSUME NEW t \in Threads, NEW step \in {"idle", "read", "act", "export", "open"}, Goes(t, step),
               exStep[t] \notin {"assign", "write"}, UNCHANGED <<exFile, exText, exSeen>>, Same, Studios
        PROVE  FileInv' /\ JobsInv'
    <2>1. exStep'[Studio] = at /\ ~Busy(t)' /\ exStep'[t] = step
      BY <1>0, <1>f, <1>m DEF Busy
    <2>2. \A a, b \in Actors : Busy(a)' /\ Busy(b)' => a = b
      BY <1>f, <1>m, <1>0, <2>1 DEF FileInv
    <2>3. \A a \in Actors : (exStep'[a] = "write" <=> exStep[a] = "write")
                            /\ (exStep'[a] = "assign" <=> exStep[a] = "assign")
      BY <1>f, <1>m, <1>0, <2>1
    <2>4. Asked' = Asked
      BY <1>f DEF Asked, With, Without
    <2>5. FileInv'
      BY <1>f, <2>1, <2>2, <2>3, <2>4 DEF FileInv
    <2> QED
      BY <1>f, <1>s, <2>1, <2>5
  <1>1. ASSUME NEW call \in {"create", "update", "delete", "trigger", "list"}, NEW s \in Schedules,
               NEW rec \in Records, StudioCalls(call, s, rec)
        PROVE  FileInv' /\ JobsInv'
    <2>1. /\ at = "idle" /\ exCall' = [call |-> call, id |-> s, rec |-> rec] /\ exUsed' = exUsed \cup {s}
          /\ (call = "create") = (s \notin exUsed) /\ Goes(Studio, "read") /\ Clash(Studio)
          /\ UNCHANGED <<exText, exFile, exMem, exJobs, exSeen, exMore, exAsked>>
      BY <1>1 DEF StudioCalls, store
    <2>2. \A b \in Actors \ {Studio} : ~Busy(b)' /\ exStep'[b] = exStep[b]
      BY <1>0, <1>m, <1>q, <2>1
    <2>3. exStep'[Studio] = "read"
      BY <1>0, <1>m, <2>1
    <2>4. FileInv'
      <3>1. \A a \in Actors : exStep'[a] \notin {"write", "assign"} /\ exStep[a] \notin {"write"}
        BY <2>1, <2>2, <2>3 DEF Busy
      <3>2. (exText = "cut" \/ exFile = exAsked) /\ exMem = exAsked
        BY <2>1, <3>1 DEF FileInv
      <3> QED
        BY <2>1, <2>2, <2>3, <3>1, <3>2 DEF FileInv
    <2>5. JobsInv'
      <3>1. exJobs = Schedulable(exAsked) /\ DOMAIN exAsked \subseteq exUsed /\ ~exMore
        BY <1>0, <2>1 DEF JobsInv
      <3>2. Schedulable(exAsked)' = Schedulable(exAsked)
        BY <2>1 DEF Schedulable
      <3> QED
        BY <2>1, <2>3, <3>1, <3>2 DEF JobsInv
    <2> QED
      BY <2>4, <2>5
  <1>2. ASSUME NEW t \in Threads, NEW s \in Schedules, Fire(t, s) PROVE FileInv' /\ JobsInv'
    BY <1>2, <1>f DEF Fire, store
  <1>3. ASSUME NEW t \in Threads, Begin(t) PROVE FileInv' /\ JobsInv'
    BY <1>3, <1>f DEF Begin, store
  <1>4. ASSUME NEW t \in Threads, Exported(t) PROVE FileInv' /\ JobsInv'
    BY <1>4, <1>f DEF Exported, store
  <1>5. ASSUME NEW a \in Actors, ReadSchedules(a) PROVE FileInv' /\ JobsInv'
    <2> DEFINE step == IF exText = "none" THEN "act" ELSE "assign"
    <2>1. /\ exStep[a] = "read" /\ Goes(a, step) /\ Clash(a)
          /\ exSeen' = [exSeen EXCEPT ![a] = IF exText = "whole" THEN exFile ELSE Nothing]
          /\ UNCHANGED <<exText, exFile>> /\ Same /\ Studios
      BY <1>5 DEF ReadSchedules, store
    <2>2. /\ exStep'[a] = step
          /\ \A b \in Actors \ {a} : exStep'[b] = exStep[b] /\ ~Busy(b) /\ ~Busy(b)'
      BY <1>m, <1>q, <2>1
    <2>3. \A b \in Actors : exStep[b] # "write" /\ exStep'[b] # "write"
                            /\ (b # a => exStep'[b] # "assign")
      BY <2>1, <2>2 DEF Busy
    <2>4. exFile = exAsked /\ exText # "cut"
      BY <1>5, <2>3 DEF FileInv, ReadSchedules
    <2>5. exStep'[a] = "assign" => exSeen'[a] = exAsked
      BY <1>0, <2>1, <2>2, <2>4
    <2>6. at = exStep'[Studio] \/ (at = "read" /\ exStep'[Studio] \in {"act", "assign"})
      BY <1>0, <2>1, <2>2
    <2>7. Asked' = Asked /\ Schedulable(exAsked)' = Schedulable(exAsked)
      BY <2>1 DEF Asked, With, Without, Schedulable
    <2>8. FileInv'
      BY <2>1, <2>2, <2>3, <2>4, <2>5, <2>6, <2>7 DEF FileInv
    <2>9. JobsInv'
      <3>1. CASE at = exStep'[Studio]
        <4>1. a # Studio
          BY <1>0, <2>1, <2>2, <3>1
        <4> QED
          BY <1>0, <1>s, <2>1, <3>1, <4>1
      <3>2. CASE at = "read" /\ exStep'[Studio] \in {"act", "assign"}
        BY <2>1, <2>7, <3>2 DEF JobsInv
      <3> QED
        BY <2>6, <3>1, <3>2
    <2> QED
      BY <2>8, <2>9
  <1>6. ASSUME NEW a \in Actors, ReplaceSchedules(a) PROVE FileInv' /\ JobsInv'
    <2>1. /\ exStep[a] = "assign" /\ exMem' = exSeen[a] /\ Goes(a, "act")
          /\ UNCHANGED <<exText, exFile, exSeen>> /\ Studios
      BY <1>6 DEF ReplaceSchedules, store
    <2>2. Busy(a) /\ \A b \in Actors \ {a} : ~Busy(b)
      BY <2>1 DEF Busy, FileInv
    <2>3. exStep'[a] = "act" /\ \A b \in Actors \ {a} : exStep'[b] = exStep[b] /\ ~Busy(b)'
      BY <1>m, <2>1, <2>2
    <2>4. \A b \in Actors : exStep[b] # "write" /\ exStep'[b] \notin {"write", "assign"}
      BY <2>1, <2>2, <2>3 DEF Busy
    <2>5. exMem' = exAsked /\ (exText = "cut" \/ exFile = exAsked)
      BY <2>1, <2>4 DEF FileInv
    <2>6. \/ at = "idle" /\ exStep'[Studio] = "idle"
          \/ at = "assign" /\ exStep'[Studio] = "act"
      BY <1>0, <2>1, <2>2, <2>3 DEF Busy
    <2>7. FileInv'
      BY <2>1, <2>3, <2>4, <2>5, <2>6 DEF FileInv
    <2>8. JobsInv'
      <3>1. CASE at = exStep'[Studio]
        BY <1>s, <2>1, <3>1
      <3>2. CASE at = "assign" /\ exStep'[Studio] = "act"
        <4>1. Schedulable(exAsked)' = Schedulable(exAsked)
          BY <2>1 DEF Schedulable
        <4> QED
          BY <2>1, <3>2, <4>1 DEF JobsInv
      <3> QED
        BY <2>6, <3>1, <3>2
    <2> QED
      BY <2>7, <2>8
  <1>7. ASSUME NEW a \in Actors, OpenSchedules(a) PROVE FileInv' /\ JobsInv'
    <2>1. /\ exStep[a] = "open" /\ Goes(a, "write") /\ Clash(a)
          /\ UNCHANGED exSeen /\ Same /\ Studios
      BY <1>7 DEF OpenSchedules
    <2>2. /\ exStep'[a] = "write"
          /\ \A b \in Actors \ {a} : exStep'[b] = exStep[b] /\ ~Busy(b) /\ ~Busy(b)'
      BY <1>m, <1>q, <2>1
    <2>3. \A b \in Actors : exStep'[b] # "assign"
      BY <2>1, <2>2 DEF Busy
    <2>4. Asked' = Asked /\ Schedulable(exAsked)' = Schedulable(exAsked) /\ Schedulable(Asked)' = Schedulable(Asked)
      BY <2>1 DEF Asked, With, Without, Schedulable
    <2>5. at = exStep'[Studio] \/ (at = "open" /\ exStep'[Studio] = "write")
      BY <1>0, <2>1, <2>2
    <2>6. FileInv'
      BY <2>1, <2>2, <2>3, <2>4, <2>5 DEF FileInv
    <2>7. JobsInv'
      <3>1. CASE at = exStep'[Studio]
        BY <1>s, <2>1, <3>1
      <3>2. CASE at = "open" /\ exStep'[Studio] = "write"
        BY <2>1, <2>4, <3>2 DEF JobsInv, Restoring
      <3> QED
        BY <2>5, <3>1, <3>2
    <2> QED
      BY <2>6, <2>7
  <1>8. ASSUME NEW a \in Actors, SaveSchedules(a) PROVE FileInv' /\ JobsInv'
    <2>1. /\ exStep[a] = "write" /\ Goes(a, AfterSave(a)) /\ (exText' = "cut" \/ exFile' = exMem)
          /\ exAsked' = (IF a = Studio THEN Asked ELSE exAsked) /\ exMore' = (a # Studio /\ exMore)
          /\ UNCHANGED <<exMem, exJobs, exSeen, exCall, exUsed>>
      BY <1>8 DEF SaveSchedules, Saved
    <2>2. \A b \in Actors \ {a} : ~Busy(b)
      BY <2>1 DEF Busy, FileInv
    <2>3. /\ exStep'[a] = AfterSave(a)
          /\ \A b \in Actors \ {a} : exStep'[b] = exStep[b] /\ ~Busy(b)'
      BY <1>m, <2>1, <2>2
    <2>4. AfterSave(a) \in {"idle", "open", "schedule", "restore"} /\ (a # Studio => AfterSave(a) = "idle")
      BY DEF AfterSave
    <2>5. \A b \in Actors : exStep'[b] \notin {"write", "assign"}
      BY <2>3, <2>4 DEF Busy
    <2>6. \A b, c \in Actors : Busy(b)' /\ Busy(c)' => b = c
      BY <2>3
    <2>i. CASE a = Studio /\ exCall.call = "init"
      <3>1. exMem = exAsked /\ exAsked' = exAsked /\ AfterSave(a) = "restore"
        BY <2>1, <2>i DEF FileInv, Asked, AfterSave
      <3>2. FileInv'
        BY <2>1, <2>3, <2>5, <2>6, <2>i, <3>1 DEF FileInv
      <3>3. Restoring /\ ~exMore'
        BY <2>1, <2>i DEF JobsInv
      <3>4. Restoring' /\ DOMAIN exAsked' \subseteq exUsed'
        BY <2>1, <3>1, <3>3 DEF Restoring, Schedulable, JobsInv
      <3>5. JobsInv'
        BY <2>1, <2>3, <2>i, <3>1, <3>3, <3>4 DEF JobsInv
      <3> QED
        BY <3>2, <3>5
    <2>7. CASE a = Studio /\ exCall.call # "init"
      <3> DEFINE id == exCall.id
                 rec == exCall.rec
      <3>1. exMem = Asked /\ exAsked' = Asked
        BY <2>1, <2>7 DEF FileInv
      <3>2. \/ /\ exCall.call = "create" /\ exJobs = Schedulable(exAsked) /\ ~exMore
               /\ id \in DOMAIN exAsked => exAsked[id] = rec /\ id \in exJobs
               /\ Asked = With(exAsked, id, rec)
            \/ exCall.call = "update" /\ exJobs = Schedulable(Asked) /\ Asked = With(exAsked, id, rec)
            \/ exCall.call = "delete" /\ exJobs = Schedulable(Asked) /\ Asked = Without(exAsked, id) /\ ~exMore
        BY <2>1, <2>7 DEF JobsInv, Asked, Restoring
      <3>3. exCall.call \in {"create", "update"} => Asked' = Asked
        <4>1. SUFFICES ASSUME exCall.call \in {"create", "update"} PROVE Asked' = Asked
          OBVIOUS
        <4>2. Asked' = With(exAsked', id, rec) /\ Asked = With(exAsked, id, rec)
          BY <2>1, <4>1 DEF Asked, With
        <4> QED
          BY <1>k, <3>1, <4>2
      <3>4. id \in exUsed /\ DOMAIN exAsked \subseteq exUsed
        BY <2>1, <2>7 DEF JobsInv
      <3>5. DOMAIN exAsked' \subseteq exUsed
        BY <1>k, <3>1, <3>2, <3>4
      <3>6. FileInv'
        <4>1. exStep'[Studio] = AfterSave(Studio)
          BY <2>3, <2>7
        <4>2. AfterSave(Studio) # "idle" => exMem = Asked'
          BY <2>7, <3>1, <3>2, <3>3 DEF AfterSave
        <4>3. (exText' = "cut" \/ exFile' = exAsked') /\ exMem' = exAsked'
          BY <2>1, <3>1
        <4> QED
          BY <2>1, <2>4, <2>5, <2>6, <2>7, <4>1, <4>2, <4>3 DEF FileInv
      <3>7. JobsInv'
        <4>1. CASE exCall.call = "create"
          <5>1. Schedulable(exAsked') = IF rec.on /\ rec.ok THEN Schedulable(exAsked) \cup {id}
                                        ELSE Schedulable(exAsked) \ {id}
            BY <1>k, <3>1, <3>2, <4>1
          <5>2. id \in exJobs <=> id \in DOMAIN exAsked
            BY <3>2, <4>1 DEF Schedulable
          <5>3. id \in DOMAIN exAsked' /\ exAsked'[id] = rec
            BY <1>k, <3>1, <3>2, <4>1
          <5>4. AfterSave(Studio) = IF rec.on /\ id \notin exJobs THEN "schedule" ELSE "idle"
            BY <3>2, <4>1 DEF AfterSave
          <5>5. CASE rec.on /\ id \notin exJobs
            <6>1. Schedulable(exAsked') \ {id} = exJobs
              BY <3>2, <4>1, <5>1, <5>5
            <6> QED
              BY <2>1, <2>3, <2>7, <3>4, <3>5, <4>1, <5>3, <5>4, <5>5, <6>1 DEF JobsInv, Schedulable
          <5>6. CASE ~(rec.on /\ id \notin exJobs)
            <6>1. Schedulable(exAsked') = exJobs
              <7>1. id \in exJobs => rec.on /\ rec.ok
                BY <3>2, <4>1 DEF Schedulable
              <7> QED
                BY <3>2, <4>1, <5>1, <5>6, <7>1
            <6> QED
              BY <2>1, <2>3, <2>7, <3>5, <5>4, <5>6, <6>1 DEF JobsInv, Schedulable
          <5> QED
            BY <5>5, <5>6
        <4>2. CASE exCall.call # "create"
          <5>1. exJobs = Schedulable(exAsked')
            BY <3>1, <3>2, <4>2
          <5>2. AfterSave(Studio) = IF exMore THEN "open" ELSE "idle"
            BY <2>7, <4>2 DEF AfterSave
          <5>3. exMore => exCall.call = "update"
            BY <3>2, <4>2
          <5>4. exMore => Schedulable(Asked)' = exJobs
            BY <3>1, <3>3, <5>1, <5>3 DEF Schedulable
          <5> QED
            BY <2>1, <2>3, <2>7, <3>4, <3>5, <5>1, <5>2, <5>3, <5>4 DEF JobsInv, Schedulable
        <4> QED
          BY <4>1, <4>2
      <3> QED
        BY <3>6, <3>7
    <2>8. CASE a # Studio
      <3>1. at = "idle" /\ exStep'[Studio] = "idle"
        BY <1>0, <2>2, <2>3, <2>8 DEF Busy
      <3>2. exMem = exAsked /\ exAsked' = exAsked /\ exMore' = exMore
        BY <1>0, <2>1, <2>8, <3>1 DEF FileInv
      <3>3. FileInv'
        BY <2>1, <2>5, <2>6, <3>1, <3>2 DEF FileInv
      <3> QED
        BY <1>s, <2>1, <3>1, <3>2, <3>3
    <2> QED
      BY <2>7, <2>8, <2>i
  \* From here on the studio moves while its call is under way.
  <1>b. ASSUME NEW step, exStep'[Studio] = step, at # "idle",
               \A b \in Actors \ {Studio} : exStep'[b] = exStep[b] \/ (exStep[b] = "idle" /\ exStep'[b] = "read"),
               step # "assign"
        PROVE  /\ \A b \in Actors : exStep'[b] # "assign" /\ (b # Studio => ~Busy(b) /\ ~Busy(b)')
               /\ \A b, c \in Actors : Busy(b)' /\ Busy(c)' => b = c
               /\ step # "write" /\ at # "write" =>
                      \A b \in Actors : exStep'[b] # "write" /\ exStep[b] # "write"
    <2>1. Busy(Studio)
      BY <1>b DEF Busy
    <2>2. \A b \in Actors \ {Studio} : ~Busy(b)
      BY <1>0, <2>1 DEF FileInv
    <2>3. \A b \in Actors \ {Studio} : ~Busy(b)'
      BY <1>b, <2>2 DEF Busy
    <2> QED
      BY <1>b, <2>2, <2>3 DEF Busy
  <1>9. CASE StudioActs
    <2>1. /\ at = "act" /\ UNCHANGED <<exText, exFile, exSeen, exCall, exAsked, exUsed>>
          /\ CreateSchedule \/ UpdateSchedule \/ DeleteSchedule \/ TriggerNow \/ Answer
      BY <1>9 DEF StudioActs, store
    <2> DEFINE id == exCall.id
               rec == exCall.rec
    <2>2. /\ exMem = exAsked /\ exJobs = Schedulable(exAsked) /\ ~exMore
          /\ exCall.call = "init" \/ id \in exUsed
          /\ DOMAIN exAsked \subseteq exUsed
          /\ exCall.call = "create" => id \notin DOMAIN exAsked
      BY <1>0, <2>1 DEF FileInv, JobsInv
    <2>3. Asked' = Asked /\ Schedulable(Asked)' = Schedulable(Asked)
          /\ Schedulable(exAsked)' = Schedulable(exAsked)
      BY <2>1 DEF Asked, With, Without, Schedulable
    <2>a. ASSUME Goes(Studio, "open"), exMem' = Asked,
                 \/ exCall.call = "create" /\ exJobs' = exJobs
                 \/ exCall.call \in {"update", "delete"} /\ exJobs' = Schedulable(Asked),
                 exMore' => exCall.call = "update"
          PROVE  FileInv' /\ JobsInv'
      <3>1. exStep'[Studio] = "open" /\ \A b \in Actors \ {Studio} : exStep'[b] = exStep[b]
        BY <1>0, <1>m, <2>a
      <3>2. /\ \A b \in Actors : exStep'[b] \notin {"assign", "write"} /\ exStep[b] # "write"
            /\ \A b, c \in Actors : Busy(b)' /\ Busy(c)' => b = c
        BY <1>b, <2>1, <3>1
      <3>3. FileInv'
        BY <2>1, <2>3, <2>a, <3>1, <3>2 DEF FileInv
      <3>4. JobsInv'
        BY <2>1, <2>2, <2>3, <2>a, <3>1 DEF JobsInv
      <3> QED
        BY <3>3, <3>4
    <2>b. ASSUME exStep'[Studio] = "idle", UNCHANGED <<exMem, exJobs, exMore>>,
                 \A b \in Actors \ {Studio} : exStep'[b] = exStep[b] \/ (exStep[b] = "idle" /\ exStep'[b] = "read")
          PROVE  FileInv' /\ JobsInv'
      <3>1. /\ \A b \in Actors : exStep'[b] \notin {"assign", "write"} /\ exStep[b] # "write"
            /\ \A b, c \in Actors : Busy(b)' /\ Busy(c)' => b = c
        BY <1>b, <2>1, <2>b
      <3>2. FileInv'
        BY <2>1, <2>2, <2>b, <3>1 DEF FileInv
      <3>3. JobsInv'
        BY <2>1, <2>2, <2>3, <2>b DEF JobsInv
      <3> QED
        BY <3>2, <3>3
    <2>4. CASE CreateSchedule
      <3>1. exMem' = Asked
        BY <2>2, <2>4 DEF CreateSchedule, Asked
      <3> QED
        BY <2>2, <2>4, <2>a, <3>1 DEF CreateSchedule
    <2>5. CASE UpdateSchedule
      <3>1. exMem' = Asked /\ Asked = With(exAsked, id, rec) /\ id \in DOMAIN exAsked
        BY <2>2, <2>5 DEF UpdateSchedule, Asked
      <3>2. Schedulable(Asked) = IF rec.on /\ rec.ok THEN exJobs \cup {id} ELSE exJobs \ {id}
        BY <1>k, <2>2, <3>1
      <3>3. exJobs' = Schedulable(Asked)
        <4>1. CASE rec.on
          BY <2>5, <3>2, <4>1 DEF UpdateSchedule, JobsWith
        <4>2. CASE ~rec.on
          <5>1. ~exMem[id].on => id \notin exJobs
            BY <2>2 DEF Schedulable
          <5>2. exJobs' = exJobs \ {id} \/ (~exMem[id].on /\ exJobs' = exJobs)
            BY <2>5, <4>2 DEF UpdateSchedule
          <5> QED
            BY <3>2, <4>2, <5>1, <5>2
        <4> QED
          BY <4>1, <4>2
      <3> QED
        BY <2>5, <2>a, <3>1, <3>3 DEF UpdateSchedule
    <2>6. CASE DeleteSchedule
      <3>1. exMem' = Asked /\ Asked = Without(exAsked, id)
        BY <2>2, <2>6 DEF DeleteSchedule, Asked
      <3>2. exJobs' = Schedulable(Asked)
        BY <1>k, <2>2, <2>6, <3>1 DEF DeleteSchedule
      <3> QED
        BY <2>2, <2>6, <2>a, <3>1, <3>2 DEF DeleteSchedule
    <2>7. CASE TriggerNow
      <3> PICK t \in Threads : /\ exStep[t] = "idle"
                               /\ exStep' = [exStep EXCEPT ![t] = "read", ![Studio] = "idle"]
        BY <2>7 DEF TriggerNow
      <3>1. /\ exStep'[Studio] = "idle"
            /\ \A b \in Actors \ {Studio} : exStep'[b] = exStep[b] \/ (exStep[b] = "idle" /\ exStep'[b] = "read")
        BY <1>0
      <3> QED
        BY <2>7, <2>b, <3>1 DEF TriggerNow
    <2>8. CASE Answer
      <3>1. exStep'[Studio] = "idle" /\ \A b \in Actors \ {Studio} : exStep'[b] = exStep[b]
        BY <1>0, <1>m, <2>8 DEF Answer
      <3> QED
        BY <2>8, <2>b, <3>1 DEF Answer
    <2> QED
      BY <2>1, <2>4, <2>5, <2>6, <2>7, <2>8
  <1>10. CASE Schedule
    <2> DEFINE id == exCall.id
               rec == exCall.rec
               step == IF rec.ok THEN "open" ELSE "idle"
    <2>1. /\ at = "schedule" /\ exJobs' = JobsWith(id, rec) /\ Goes(Studio, step)
          /\ UNCHANGED <<exText, exFile, exMem, exSeen, exCall, exMore, exAsked, exUsed>>
      BY <1>10 DEF Schedule, store
    <2>2. exStep'[Studio] = step /\ \A b \in Actors \ {Studio} : exStep'[b] = exStep[b]
      BY <1>0, <1>m, <2>1
    <2>3. /\ \A b \in Actors : exStep'[b] \notin {"assign", "write"} /\ exStep[b] # "write"
          /\ \A b, c \in Actors : Busy(b)' /\ Busy(c)' => b = c
      BY <1>b, <2>1, <2>2
    <2>4. /\ exMem = Asked /\ exCall.call = "create" /\ rec.on /\ id \in DOMAIN exAsked
          /\ exAsked[id] = rec /\ exJobs = Schedulable(exAsked) \ {id} /\ ~exMore
          /\ id \in exUsed /\ DOMAIN exAsked \subseteq exUsed
      BY <1>0, <2>1 DEF FileInv, JobsInv
    <2>5. exText = "cut" \/ exFile = exAsked
      BY <2>3 DEF FileInv
    <2>6. Asked' = Asked /\ Schedulable(exAsked)' = Schedulable(exAsked)
      BY <2>1 DEF Asked, With, Without, Schedulable
    <2>7. exJobs' = Schedulable(exAsked) /\ (rec.ok => id \in exJobs')
      BY <2>1, <2>4 DEF JobsWith, Schedulable
    <2>8. exMem = exAsked
      BY <2>1 DEF FileInv
    <2>9. FileInv'
      BY <2>1, <2>2, <2>3, <2>4, <2>5, <2>6, <2>8 DEF FileInv
    <2>10. JobsInv'
      BY <2>1, <2>2, <2>4, <2>6, <2>7 DEF JobsInv
    <2> QED
      BY <2>9, <2>10
  <1>11. CASE InitScheduler
    <2>1. /\ exMem' = exFile /\ exSeen' = [exSeen EXCEPT ![Studio] = exFile] /\ exJobs' = {} /\ ~exMore'
          /\ exStep' = [a \in Actors |-> IF a = Studio THEN "restore" ELSE "idle"]
          /\ exCall' = [NoCall EXCEPT !.call = "init"] /\ exText # "cut"
          /\ \A a \in Actors : ~Busy(a)
          /\ UNCHANGED <<exText, exFile, exAsked, exUsed>>
      BY <1>11 DEF InitScheduler, store
    <2>2. /\ \A a \in Actors : exStep[a] # "write" /\ exStep'[a] = (IF a = Studio THEN "restore" ELSE "idle")
          /\ \A a \in Actors \ {Studio} : ~Busy(a)'
      BY <2>1 DEF Busy
    <2>3. exFile = exAsked /\ DOMAIN exAsked \subseteq exUsed
      BY <2>1, <2>2 DEF FileInv, JobsInv
    <2>4. FileInv'
      BY <1>0, <2>1, <2>2, <2>3 DEF FileInv
    <2>5. Restoring'
      BY <1>0, <2>1, <2>3 DEF Restoring, NoCall
    <2>6. JobsInv'
      BY <1>0, <2>1, <2>2, <2>3, <2>5 DEF JobsInv, Restoring
    <2> QED
      BY <2>4, <2>6
  <1>18. CASE RestoreJob
    <2>1. /\ at = "restore" /\ UNCHANGED <<exText, exFile, exMem, exSeen, exCall, exMore, exAsked, exUsed>>
          /\ \/ Goes(Studio, "open") /\ \E s \in Missing : exJobs' = exJobs \cup {s}
             \/ Goes(Studio, "idle") /\ Missing = {} /\ exJobs' = exJobs
      BY <1>18 DEF RestoreJob, store
    <2>2. Restoring /\ exMem = exAsked /\ ~exMore /\ DOMAIN exAsked \subseteq exUsed
      BY <1>0, <2>1 DEF FileInv, JobsInv
    <2>3. PICK step \in {"open", "idle"} :
              /\ Goes(Studio, step)
              /\ step = "open" => \E s \in Missing : exJobs' = exJobs \cup {s}
              /\ step = "idle" => Missing = {} /\ exJobs' = exJobs
      BY <2>1
    <2>4. exStep'[Studio] = step /\ \A b \in Actors \ {Studio} : exStep'[b] = exStep[b]
      BY <1>0, <1>m, <2>3
    <2>5. /\ \A b \in Actors : exStep'[b] \notin {"assign", "write"} /\ exStep[b] # "write"
          /\ \A b, c \in Actors : Busy(b)' /\ Busy(c)' => b = c
      BY <1>b, <2>1, <2>4
    <2>6. Asked = exAsked /\ Asked' = Asked /\ Schedulable(exAsked)' = Schedulable(exAsked)
      BY <2>1, <2>2 DEF Asked, Schedulable, Restoring
    <2>7. FileInv'
      BY <2>1, <2>2, <2>4, <2>5, <2>6 DEF FileInv
    <2>8. Missing = Schedulable(exAsked) \ exJobs
      BY <2>2 DEF Missing, Restoring
    <2>9. step = "open" => Restoring'
      BY <2>1, <2>2, <2>3, <2>6, <2>8 DEF Restoring
    <2>10. step = "idle" => exJobs' = Schedulable(exAsked)
      BY <2>2, <2>3, <2>8 DEF Restoring
    <2>11. JobsInv'
      BY <2>1, <2>2, <2>4, <2>6, <2>9, <2>10 DEF JobsInv, Restoring
    <2> QED
      BY <2>7, <2>11
  <1>12. CASE UNCHANGED exportVars
    <2>1. Asked' = Asked
      BY <1>12 DEF exportVars, Asked, With, Without
    <2>2. FileInv'
      BY <1>12, <2>1 DEF exportVars, FileInv, Busy
    <2> QED
      BY <1>12, <1>s, <2>2 DEF exportVars
  <1>13. NoCall.rec \in Records
    BY DEF NoCall, Records
  <1>14. CASE \E call \in {"create", "update"}, s \in Schedules, rec \in Records : StudioCalls(call, s, rec)
    BY <1>1, <1>14
  <1>15. CASE \E call \in {"delete", "trigger", "list"}, s \in Schedules : StudioCalls(call, s, NoCall.rec)
    BY <1>1, <1>13, <1>15
  <1>16. CASE \E t \in Threads : Begin(t) \/ Exported(t) \/ \E s \in Schedules : Fire(t, s)
    BY <1>2, <1>3, <1>4, <1>16
  <1>17. CASE \E a \in Actors :
                  ReadSchedules(a) \/ ReplaceSchedules(a) \/ OpenSchedules(a) \/ SaveSchedules(a)
    BY <1>5, <1>6, <1>7, <1>8, <1>17
  <1> QED
    BY <1>9, <1>10, <1>11, <1>12, <1>14, <1>15, <1>16, <1>17, <1>18 DEF ExportNext

\* Once noted, an overlap or the load of a cut file stays noted.
LEMMA ClashStays == [ExportNext]_exportVars /\ ExportTypes /\ (exClash \/ exLost) => exClash' \/ exLost'
  <1> SUFFICES ASSUME [ExportNext]_exportVars, exClash \/ exLost PROVE exClash' \/ exLost'
    OBVIOUS
  <1>1. ASSUME NEW call, NEW s, NEW rec, StudioCalls(call, s, rec) PROVE exClash' \/ exLost'
    BY <1>1 DEF StudioCalls, Clash
  <1>2. ASSUME NEW t, Begin(t) \/ Exported(t) \/ \E s \in Schedules : Fire(t, s) PROVE exClash' \/ exLost'
    BY <1>2 DEF Begin, Exported, Fire
  <1>3. ASSUME NEW a, ReadSchedules(a) \/ ReplaceSchedules(a) \/ OpenSchedules(a) \/ SaveSchedules(a)
        PROVE  exClash' \/ exLost'
    BY <1>3 DEF ReadSchedules, ReplaceSchedules, OpenSchedules, SaveSchedules, Clash
  <1>4. ASSUME StudioActs \/ Schedule \/ RestoreJob PROVE exClash' \/ exLost'
    BY <1>4 DEF StudioActs, Schedule, RestoreJob
  <1>5. ASSUME InitScheduler PROVE exClash' \/ exLost'
    BY <1>5 DEF InitScheduler
  <1>6. ASSUME UNCHANGED exportVars PROVE exClash' \/ exLost'
    BY <1>6 DEF exportVars
  <1> QED
    BY <1>1, <1>2, <1>3, <1>4, <1>5, <1>6 DEF ExportNext

\* Unless two calls have been in the file at the same moment, or one has loaded what a failing write left of
\* it, exactly the enabled schedules with a usable frequency have a job and the file, if it is whole, holds
\* what the answered calls of the studio asked for: for any number of schedules, threads, exports, restarts
\* and failing writes.
THEOREM ExportsAsAsked == ExportSpec => []SchedulesAsAsked
  <1>1. ExportInit => ExportInv
    <2> SUFFICES ASSUME ExportInit PROVE ExportInv
      OBVIOUS
    <2>1. ExportTypes
      BY DEF ExportInit, ExportTypes, Places, NoCall, Records
    <2>2. FileInv
      BY DEF ExportInit, FileInv, Busy, Actors
    <2>3. JobsInv
      BY DEF ExportInit, JobsInv, Schedulable, Nothing, Actors
    <2> QED
      BY <2>1, <2>2, <2>3 DEF ExportInv
  <1>2. ExportInv /\ [ExportNext]_exportVars => ExportInv'
    <2> SUFFICES ASSUME ExportInv, [ExportNext]_exportVars PROVE ExportInv'
      OBVIOUS
    <2>1. ExportTypes /\ ExportTypes'
      BY ExportTypesStep DEF ExportInv
    <2>2. ~exClash' /\ ~exLost' => FileInv' /\ JobsInv'
      BY <2>1, ClashStays, ExportQuietStep DEF ExportInv
    <2> QED
      BY <2>1, <2>2 DEF ExportInv
  <1>3. ExportInv => SchedulesAsAsked
    <2> SUFFICES ASSUME ExportInv, ~exClash, ~exLost, \A a \in Actors : ~Busy(a)
                 PROVE  exJobs = Schedulable(exAsked) /\ (exText = "cut" \/ exFile = exAsked)
      BY DEF SchedulesAsAsked
    <2>1. \A a \in Actors : exStep[a] # "write"
      BY DEF Busy
    <2>2. exStep[Studio] = "idle" /\ FileInv /\ JobsInv
      BY DEF Busy, Actors, ExportInv
    <2> QED
      BY <2>1, <2>2 DEF FileInv, JobsInv
  <1> QED
    BY <1>1, <1>2, <1>3, PTL DEF ExportSpec

-----------------------------------------------------------------------------
(* Queries.                                                                *)
(*                                                                         *)
(* What is stopped was asked for, or runs on a connection of which a user  *)
(* was asked to stop (AskedInv).  The requests the studio has given up are *)
(* a set as large as it counts (PlacesInv), and outside it at most one     *)
(* place has made a run's change: the one whose result the run has.        *)

QueryPlaces == {"new", "governing", "trying", "remote", "local", "waiting", "running", "ran", "over"}
QueryResults == {"none", "ok", "raised", "cancelled", "failed"}
WorkerPlaces == {"none", "received", "entered", "waiting", "running", "over"}

QueryTypes ==
    /\ quAt \in [Clicks -> QueryPlaces] /\ quKind \in [Clicks -> Kinds]
    /\ quAddress \in [Clicks -> 0..Addresses] /\ quCursor \in [Clicks -> {"none", "own", "shared"}]
    /\ quAsked \in [Clicks -> BOOLEAN] /\ quResult \in [Clicks -> QueryResults]
    /\ quStatus \in [Clicks -> {"none", "SUCCESS", "CANCELLED", "FAILED"}]
    /\ quForward \subseteq Clicks /\ quHit \subseteq Clicks \cup Jobs
    /\ wkAt \in [Jobs -> WorkerPlaces] /\ wkEntry \in [Clicks -> SUBSET Jobs] /\ wkAsked \subseteq Jobs
    /\ wkAnswer \in [Jobs -> {"none", "ok", "failed", "cancelled"}]
    /\ quEffects \in [Clicks -> Nat] /\ quLost \in [Clicks -> Nat]

Explained(c) == quAsked[c] \/ (quKind[c].shared /\ \E d \in Clicks \ {c} : quKind[d].shared /\ quAsked[d])

AskedInv ==
    /\ \A c \in Clicks :
           /\ c \in quForward => quAsked[c]
           /\ quCursor[c] = "shared" => quKind[c].shared
           /\ \A j \in wkEntry[c] : j[1] = c
           /\ c \in quHit \/ quResult[c] = "cancelled" \/ quStatus[c] = "CANCELLED" => Explained(c)
    /\ \A j \in Jobs :
           /\ j \in wkAsked => quAsked[j[1]]
           /\ j \in quHit \/ wkAnswer[j] = "cancelled" => Explained(j[1])

Sent(c) == {k \in 1..Addresses : wkAt[<<c, k>>] # "none"}
Oks(c)  == {k \in 1..Addresses : wkAnswer[<<c, k>>] = "ok"}

WorkerInv ==
    \A c \in Clicks, k \in 1..Addresses :
        /\ wkAnswer[<<c, k>>] # "none" <=> wkAt[<<c, k>>] = "over"
        /\ k > quAddress[c] => wkAt[<<c, k>>] = "none"

\* C: the address whose answer the run waits for or has taken, if there is one; L: those given up.
PlacedAt(c, L, C) ==
    /\ Cardinality(L) <= quLost[c] /\ Sent(c) \subseteq L \cup C
    /\ C \subseteq {quAddress[c]}
    /\ quAt[c] = "remote" => C = {quAddress[c]}
    /\ quAt[c] \notin {"remote", "ran", "over"} => C = {}
    /\ quAt[c] \in {"ran", "over"} /\ C # {} => quResult[c] # "none" /\ quResult[c] = wkAnswer[<<c, quAddress[c]>>]
    /\ quAt[c] \notin {"ran", "over"} => quResult[c] = "none"
    /\ quEffects[c] = IF ~quKind[c].changes THEN 0
                      ELSE Cardinality(Oks(c)) + (IF C = {} /\ quResult[c] = "ok" THEN 1 ELSE 0)

PlacesInv ==
    \A c \in Clicks :
        /\ \E L, C \in SUBSET (1..Addresses) : PlacedAt(c, L, C)
        /\ quStatus[c] # "none" => quAt[c] = "over"
        /\ quStatus[c] # "none" => (quStatus[c] = "SUCCESS" <=> quResult[c] = "ok")

QueryInv == QueryTypes /\ AskedInv /\ WorkerInv /\ PlacesInv

LEMMA JobsOf ==
    /\ \A j \in Jobs : j[1] \in Clicks /\ j[2] \in 1..Addresses /\ j = <<j[1], j[2]>>
    /\ \A c \in Clicks, k \in 1..Addresses : <<c, k>> \in Jobs
    /\ Clicks \cap Jobs = {} /\ Addresses \in Nat
  BY QueryAssumption DEF Jobs

LEMMA EffectTypes ==
    ASSUME QueryTypes, NEW c \in Clicks, NEW outcome, Effect(c, outcome)
    PROVE  /\ quEffects' \in [Clicks -> Nat]
           /\ quEffects'[c] = IF outcome = "ok" /\ quKind[c].changes THEN quEffects[c] + 1 ELSE quEffects[c]
           /\ \A d \in Clicks : d # c => quEffects'[d] = quEffects[d]
  <1>1. quEffects \in [Clicks -> Nat]
    BY DEF QueryTypes
  <1>2. CASE outcome = "ok" /\ quKind[c].changes
    <2>1. quEffects' = [quEffects EXCEPT ![c] = quEffects[c] + 1]
      BY <1>2 DEF Effect
    <2> QED
      BY <1>1, <1>2, <2>1
  <1>3. CASE ~(outcome = "ok" /\ quKind[c].changes)
    <2>1. quEffects' = [quEffects EXCEPT ![c] = quEffects[c]]
      BY <1>3 DEF Effect
    <2> QED
      BY <1>1, <1>3, <2>1
  <1> QED
    BY <1>2, <1>3

LEMMA LeaveTypes ==
    ASSUME QueryTypes, NEW j \in Jobs, NEW answer \in {"ok", "failed", "cancelled"}, Leave(j, answer)
    PROVE  /\ wkAt' \in [Jobs -> WorkerPlaces] /\ wkEntry' \in [Clicks -> SUBSET Jobs]
           /\ wkAnswer' \in [Jobs -> {"none", "ok", "failed", "cancelled"}]
           /\ wkAt'[j] = "over" /\ wkAnswer'[j] = answer
           /\ \A i \in Jobs : i # j => wkAt'[i] = wkAt[i] /\ wkAnswer'[i] = wkAnswer[i]
           /\ \A c \in Clicks : wkEntry'[c] \subseteq wkEntry[c]
  <1>1. wkAt' \in [Jobs -> WorkerPlaces] /\ wkAt'[j] = "over" /\ \A i \in Jobs : i # j => wkAt'[i] = wkAt[i]
    BY DEF Leave, QueryTypes, WorkerPlaces
  <1>2. /\ wkAnswer' \in [Jobs -> {"none", "ok", "failed", "cancelled"}] /\ wkAnswer'[j] = answer
        /\ \A i \in Jobs : i # j => wkAnswer'[i] = wkAnswer[i]
    BY DEF Leave, QueryTypes
  <1>3. wkEntry' \in [Clicks -> SUBSET Jobs] /\ \A c \in Clicks : wkEntry'[c] \subseteq wkEntry[c]
    BY DEF Leave, QueryTypes
  <1> QED
    BY <1>1, <1>2, <1>3

LEMMA RemoteAddress ==
    ASSUME PlacesInv, NEW c \in Clicks, quAt[c] = "remote"
    PROVE  quAddress[c] \in 1..Addresses
  <1>1. PICK L, C \in SUBSET (1..Addresses) : PlacedAt(c, L, C)
    BY DEF PlacesInv
  <1> QED
    BY <1>1 DEF PlacedAt

\* What is added up over the runs only bounds how often a run gives up.
LEMMA GiveUpSays ==
    ASSUME NEW c \in Clicks, GiveUp(c)
    PROVE  /\ quAt[c] = "remote" /\ quLost' = [quLost EXCEPT ![c] = @ + 1] /\ quAt' = [quAt EXCEPT ![c] = "trying"]
           /\ UNCHANGED <<quKind, quAddress, quCursor, quAsked, quActive, quResult, quStatus, quForward,
                          wkAt, wkEntry, wkAsked, wkAnswer, quHit, quEffects>>
  BY DEF GiveUp

LEMMA QueryTypesStep == QueryTypes /\ PlacesInv /\ [QueryNext]_queryVars => QueryTypes'
  <1> SUFFICES ASSUME QueryTypes, PlacesInv, [QueryNext]_queryVars PROVE QueryTypes'
    OBVIOUS
  <1>1. CASE UNCHANGED queryVars
    BY <1>1 DEF queryVars, QueryTypes
  <1>2. ASSUME NEW c \in Clicks, Submit(c) PROVE QueryTypes'
    BY <1>2 DEF Submit, QueryTypes, QueryPlaces
  <1>3. ASSUME NEW c \in Clicks, Register(c) PROVE QueryTypes'
    <2>1. quAt' \in [Clicks -> QueryPlaces] /\ quStatus' \in [Clicks -> {"none", "SUCCESS", "CANCELLED", "FAILED"}]
      BY <1>3 DEF Register, QueryTypes, QueryPlaces
    <2> QED
      BY <1>3, <2>1 DEF Register, QueryTypes
  <1>4. ASSUME NEW c \in Clicks, Dispatch(c) PROVE QueryTypes'
    <2>1. quAddress' = [quAddress EXCEPT ![c] = quAddress[c] + 1] /\ quAddress[c] \in 0..Addresses /\ quAddress[c] < Addresses
      BY <1>4 DEF Dispatch, QueryTypes
    <2>2. quAddress[c] + 1 \in 1..Addresses /\ quAddress[c] + 1 \in 0..Addresses
      BY <2>1, JobsOf
    <2>3. quAddress' \in [Clicks -> 0..Addresses]
      BY <2>1, <2>2 DEF QueryTypes
    <2>4. wkAt' \in [Jobs -> WorkerPlaces] /\ quAt' \in [Clicks -> QueryPlaces]
      BY <1>4, <2>2, JobsOf DEF Dispatch, QueryTypes, WorkerPlaces, QueryPlaces
    <2> QED
      BY <1>4, <2>3, <2>4 DEF Dispatch, QueryTypes
  <1>5. ASSUME NEW c \in Clicks, TakeAnswer(c) PROVE QueryTypes'
    <2>1. quAt' \in [Clicks -> QueryPlaces]
      BY <1>5 DEF TakeAnswer, QueryTypes, QueryPlaces
    <2>2. wkAnswer[<<c, quAddress[c]>>] \in QueryResults
      <3>1. <<c, quAddress[c]>> \in Jobs
        BY <1>5, RemoteAddress, JobsOf DEF TakeAnswer
      <3> QED
        BY <3>1 DEF QueryTypes, QueryResults
    <2>3. quResult' \in [Clicks -> QueryResults]
      BY <1>5, <2>2 DEF TakeAnswer, QueryTypes
    <2> QED
      BY <1>5, <2>1, <2>3 DEF TakeAnswer, QueryTypes
  <1>6. ASSUME NEW c \in Clicks, GiveUp(c) PROVE QueryTypes'
    <2>1. quAt' \in [Clicks -> QueryPlaces] /\ quLost' \in [Clicks -> Nat]
      BY <1>6, GiveUpSays DEF QueryTypes, QueryPlaces
    <2> QED
      BY <1>6, <2>1, GiveUpSays DEF QueryTypes
  <1>7. ASSUME NEW c \in Clicks, TryRay(c) PROVE QueryTypes'
    <2>1. quAt' \in [Clicks -> QueryPlaces] /\ quResult' \in [Clicks -> QueryResults]
      BY <1>7 DEF TryRay, QueryTypes, QueryPlaces, QueryResults
    <2> QED
      BY <1>7, <2>1 DEF TryRay, QueryTypes
  <1>8. ASSUME NEW c \in Clicks, StartLocal(c) PROVE QueryTypes'
    <2>1. quAt' \in [Clicks -> QueryPlaces] /\ quCursor' \in [Clicks -> {"none", "own", "shared"}]
      BY <1>8 DEF StartLocal, CursorFor, QueryTypes, QueryPlaces
    <2> QED
      BY <1>8, <2>1 DEF StartLocal, QueryTypes
  <1>9. ASSUME NEW c \in Clicks, TakeConnection(c) PROVE QueryTypes'
    BY <1>9 DEF TakeConnection, QueryTypes, QueryPlaces
  <1>10. ASSUME NEW c \in Clicks, FinishLocal(c) PROVE QueryTypes'
    <2>1. PICK outcome \in {"ok", "error", "interrupted"} :
            /\ Effect(c, outcome)
            /\ quResult' = [quResult EXCEPT ![c] =
                  CASE outcome = "error" -> "raised" [] outcome = "interrupted" -> "cancelled" [] OTHER -> outcome]
      BY <1>10 DEF FinishLocal, Outcomes
    <2>2. quResult' \in [Clicks -> QueryResults] /\ quAt' \in [Clicks -> QueryPlaces] /\ quHit' \subseteq Clicks \cup Jobs
      BY <1>10, <2>1 DEF FinishLocal, QueryTypes, QueryPlaces, QueryResults
    <2>3. quEffects' \in [Clicks -> Nat]
      BY <2>1, EffectTypes
    <2> QED
      BY <1>10, <2>2, <2>3 DEF FinishLocal, QueryTypes
  <1>11. ASSUME NEW c \in Clicks, Report(c) PROVE QueryTypes'
    <2>1. quAt' \in [Clicks -> QueryPlaces] /\ quStatus' \in [Clicks -> {"none", "SUCCESS", "CANCELLED", "FAILED"}]
      BY <1>11 DEF Report, Status, QueryTypes, QueryPlaces
    <2> QED
      BY <1>11, <2>1 DEF Report, QueryTypes
  <1>12. ASSUME NEW c \in Clicks, Cancel(c) PROVE QueryTypes'
    <2>1. quAsked' \in [Clicks -> BOOLEAN] /\ quForward' \subseteq Clicks
      BY <1>12 DEF Cancel, QueryTypes
    <2>2. quHit' \subseteq Clicks \cup Jobs
      BY <1>12 DEF Cancel, Interrupted, SharedInStudio, QueryTypes
    <2> QED
      BY <1>12, <2>1, <2>2 DEF Cancel, QueryTypes
  <1>13. ASSUME NEW c \in Clicks, Forward(c) PROVE QueryTypes'
    <2>1. quForward' \subseteq Clicks /\ wkAsked' \subseteq Jobs /\ quHit' \subseteq Clicks \cup Jobs
      BY <1>13 DEF Forward, SharedInWorker, QueryTypes
    <2> QED
      BY <1>13, <2>1 DEF Forward, QueryTypes
  <1>14. ASSUME NEW j \in Jobs, Enter(j) PROVE QueryTypes'
    <2>1. wkAt' \in [Jobs -> WorkerPlaces] /\ wkEntry' \in [Clicks -> SUBSET Jobs]
      BY <1>14 DEF Enter, QueryTypes, WorkerPlaces
    <2> QED
      BY <1>14, <2>1 DEF Enter, QueryTypes
  <1>15. ASSUME NEW j \in Jobs, StartOnWorker(j) PROVE QueryTypes'
    <2>1. CASE Leave(j, "cancelled")
      BY <1>15, <2>1, LeaveTypes DEF StartOnWorker, QueryTypes
    <2>2. CASE ~Leave(j, "cancelled")
      <3>1. wkAt' \in [Jobs -> WorkerPlaces] /\ UNCHANGED <<wkEntry, wkAnswer>>
        BY <1>15, <2>2 DEF StartOnWorker, QueryTypes, WorkerPlaces
      <3> QED
        BY <1>15, <3>1 DEF StartOnWorker, QueryTypes
    <2> QED
      BY <2>1, <2>2
  <1>16. ASSUME NEW j \in Jobs, TakeWorkersConnection(j) PROVE QueryTypes'
    BY <1>16 DEF TakeWorkersConnection, QueryTypes, WorkerPlaces
  <1>17. ASSUME NEW j \in Jobs, FinishOnWorker(j) PROVE QueryTypes'
    <2>1. PICK outcome : Effect(j[1], outcome) /\ \E answer \in {"ok", "failed", "cancelled"} : Leave(j, answer)
      BY <1>17 DEF FinishOnWorker
    <2>2. quEffects' \in [Clicks -> Nat]
      BY <2>1, EffectTypes, JobsOf
    <2>3. quHit' \subseteq Clicks \cup Jobs
      BY <1>17 DEF FinishOnWorker, QueryTypes
    <2> QED
      BY <1>17, <2>1, <2>2, <2>3, LeaveTypes DEF FinishOnWorker, QueryTypes
  <1> QED
    BY <1>1, <1>2, <1>3, <1>4, <1>5, <1>6, <1>7, <1>8, <1>9, <1>10, <1>11, <1>12, <1>13, <1>14, <1>15, <1>16, <1>17 DEF QueryNext

-----------------------------------------------------------------------------
(* Who asked for what is stopped. *)

LEMMA AskedKept ==
    ASSUME QueryTypes, AskedInv, quKind' = quKind,
           \A c \in Clicks :
               /\ quAsked[c] => quAsked'[c]
               /\ c \in quForward' => quAsked'[c]
               /\ quCursor'[c] = "shared" => quKind[c].shared
               /\ \A j \in wkEntry'[c] : j[1] = c
               /\ c \in quHit' => c \in quHit \/ Explained(c)'
               /\ quResult'[c] = "cancelled" => quResult[c] = "cancelled" \/ Explained(c)'
               /\ quStatus'[c] = "CANCELLED" => quStatus[c] = "CANCELLED" \/ Explained(c)',
           \A j \in Jobs :
               /\ j \in wkAsked' => j \in wkAsked \/ quAsked'[j[1]]
               /\ j \in quHit' => j \in quHit \/ Explained(j[1])'
               /\ wkAnswer'[j] = "cancelled" => wkAnswer[j] = "cancelled" \/ Explained(j[1])'
    PROVE  AskedInv'
  <1>1. \A c \in Clicks : Explained(c) => Explained(c)'
    BY DEF Explained
  <1>2. ASSUME NEW c \in Clicks
        PROVE  /\ c \in quForward' => quAsked'[c]
               /\ quCursor'[c] = "shared" => quKind'[c].shared
               /\ \A j \in wkEntry'[c] : j[1] = c
               /\ c \in quHit' \/ quResult'[c] = "cancelled" \/ quStatus'[c] = "CANCELLED" => Explained(c)'
    BY <1>1 DEF AskedInv
  <1>3. ASSUME NEW j \in Jobs
        PROVE  /\ j \in wkAsked' => quAsked'[j[1]]
               /\ j \in quHit' \/ wkAnswer'[j] = "cancelled" => Explained(j[1])'
    <2>1. j[1] \in Clicks
      BY JobsOf
    <2> QED
      BY <1>1, <2>1 DEF AskedInv
  <1> QED
    BY <1>2, <1>3 DEF AskedInv

\* The steps that stop nothing and answer nothing.
LEMMA AskedUntouched ==
    ASSUME QueryTypes, AskedInv,
           UNCHANGED <<quKind, quAsked, quCursor, quForward, wkEntry, wkAsked, wkAnswer, quHit>>,
           \A c \in Clicks : /\ quResult'[c] = "cancelled" => quResult[c] = "cancelled" \/ Explained(c)
                             /\ quStatus'[c] = "CANCELLED" => quStatus[c] = "CANCELLED" \/ Explained(c)
    PROVE  AskedInv'
  <1>1. \A c \in Clicks : Explained(c)' <=> Explained(c)
    BY DEF Explained
  <1>2. \A c \in Clicks : (c \in quForward => quAsked[c]) /\ (quCursor[c] = "shared" => quKind[c].shared)
                          /\ \A j \in wkEntry[c] : j[1] = c
    BY DEF AskedInv
  <1> QED
    BY <1>1, <1>2, AskedKept

LEMMA AskedInvStep == QueryTypes /\ PlacesInv /\ AskedInv /\ [QueryNext]_queryVars => AskedInv'
  <1> SUFFICES ASSUME QueryTypes, PlacesInv, AskedInv, [QueryNext]_queryVars PROVE AskedInv'
    OBVIOUS
  <1>0. /\ \A c \in Clicks : /\ (c \in quForward => quAsked[c]) /\ (quCursor[c] = "shared" => quKind[c].shared)
                             /\ \A j \in wkEntry[c] : j[1] = c
                             /\ c \in quHit \/ quResult[c] = "cancelled" \/ quStatus[c] = "CANCELLED" => Explained(c)
        /\ \A j \in Jobs : /\ j \in wkAsked => quAsked[j[1]]
                           /\ j \in quHit \/ wkAnswer[j] = "cancelled" => Explained(j[1])
    BY DEF AskedInv
  <1>1. CASE UNCHANGED queryVars
    BY <1>1, AskedUntouched DEF queryVars
  <1>2. ASSUME NEW c \in Clicks, Submit(c) \/ Dispatch(c) \/ TakeConnection(c) PROVE AskedInv'
    BY <1>2, AskedUntouched DEF Submit, Dispatch, TakeConnection
  <1>3. ASSUME NEW c \in Clicks, Register(c) PROVE AskedInv'
    <2>1. \A d \in Clicks : quStatus'[d] = "CANCELLED" => quStatus[d] = "CANCELLED"
      BY <1>3 DEF Register, QueryTypes
    <2> QED
      BY <1>3, <2>1, AskedUntouched DEF Register
  <1>4. ASSUME NEW c \in Clicks, TakeAnswer(c) PROVE AskedInv'
    <2>1. <<c, quAddress[c]>> \in Jobs /\ <<c, quAddress[c]>>[1] = c
      BY <1>4, RemoteAddress, JobsOf DEF TakeAnswer
    <2>2. wkAnswer[<<c, quAddress[c]>>] = "cancelled" => Explained(c)
      BY <1>0, <2>1
    <2>3. \A d \in Clicks : quResult'[d] = "cancelled" => quResult[d] = "cancelled" \/ Explained(d)
      BY <1>4, <2>2 DEF TakeAnswer, QueryTypes
    <2> QED
      BY <1>4, <2>3, AskedUntouched DEF TakeAnswer
  <1>5. ASSUME NEW c \in Clicks, GiveUp(c) PROVE AskedInv'
    BY <1>5, GiveUpSays, AskedUntouched
  <1>6. ASSUME NEW c \in Clicks, TryRay(c) PROVE AskedInv'
    <2>1. \A d \in Clicks : quResult'[d] = "cancelled" => quResult[d] = "cancelled"
      BY <1>6 DEF TryRay, QueryTypes
    <2> QED
      BY <1>6, <2>1, AskedUntouched DEF TryRay
  <1>7. ASSUME NEW c \in Clicks, StartLocal(c) PROVE AskedInv'
    <2>1. \A d \in Clicks : quCursor'[d] = "shared" => quKind[d].shared
      BY <1>0, <1>7 DEF StartLocal, CursorFor, QueryTypes
    <2> QED
      BY <1>0, <1>7, <2>1, AskedKept DEF StartLocal
  <1>8. ASSUME NEW c \in Clicks, FinishLocal(c) PROVE AskedInv'
    <2>1. PICK outcome \in Outcomes(c) :
            quResult' = [quResult EXCEPT ![c] =
                  CASE outcome = "error" -> "raised" [] outcome = "interrupted" -> "cancelled" [] OTHER -> outcome]
      BY <1>8 DEF FinishLocal
    <2>2. outcome = "interrupted" => Explained(c)
      BY <1>0, <2>1 DEF Outcomes
    <2>3. outcome \in {"ok", "error", "interrupted"}
      BY <2>1 DEF Outcomes
    <2>4. \A d \in Clicks : quResult'[d] = "cancelled" => quResult[d] = "cancelled" \/ Explained(d)
      BY <2>1, <2>2, <2>3 DEF QueryTypes
    <2>5. \A d \in Clicks : Explained(d)' <=> Explained(d)
      BY <1>8 DEF FinishLocal, Explained
    <2> QED
      BY <1>0, <1>8, <2>4, <2>5, AskedKept DEF FinishLocal
  <1>9. ASSUME NEW c \in Clicks, Report(c) PROVE AskedInv'
    <2>1. Status(c) = "CANCELLED" => quResult[c] = "cancelled" \/ quAsked[c]
      BY DEF Status
    <2>2. Status(c) = "CANCELLED" => Explained(c)
      BY <1>0, <2>1 DEF Explained
    <2>3. \A d \in Clicks : quStatus'[d] = "CANCELLED" => quStatus[d] = "CANCELLED" \/ Explained(d)
      BY <1>9, <2>2 DEF Report, QueryTypes
    <2> QED
      BY <1>9, <2>3, AskedUntouched DEF Report
  <1>10. ASSUME NEW c \in Clicks, Cancel(c) PROVE AskedInv'
    <2>1. quAsked' = [quAsked EXCEPT ![c] = TRUE] /\ quKind' = quKind
      BY <1>10 DEF Cancel
    <2>2. quAsked'[c] /\ \A d \in Clicks : quAsked[d] => quAsked'[d]
      BY <2>1 DEF QueryTypes
    <2>3. ASSUME NEW d \in Clicks, quKind[c].shared, quKind[d].shared PROVE Explained(d)'
      BY <2>1, <2>2, <2>3 DEF Explained
    <2>4. \A x \in Interrupted(c) : x \in Clicks /\ Explained(x)'
      <3>1. CASE quCursor[c] = "shared"
        <4>1. Interrupted(c) = {d \in Clicks : quAt[d] = "running" /\ quCursor[d] = "shared"} /\ quKind[c].shared
          BY <1>0, <3>1 DEF Interrupted, SharedInStudio
        <4> QED
          BY <1>0, <2>3, <4>1
      <3>2. CASE quCursor[c] # "shared"
        <4>1. Interrupted(c) \subseteq {c}
          BY <3>2 DEF Interrupted
        <4> QED
          BY <2>2, <4>1 DEF Explained
      <3> QED
        BY <3>1, <3>2
    <2>5. \A d \in Clicks : /\ d \in quHit' => d \in quHit \/ Explained(d)'
                            /\ d \in quForward' => quAsked'[d]
      BY <1>10, <2>2, <2>4 DEF Cancel
    <2>6. \A j \in Jobs : j \in quHit' => j \in quHit
      BY <1>10, <2>4, JobsOf DEF Cancel
    <2> QED
      BY <1>0, <1>10, <2>1, <2>2, <2>5, <2>6, AskedKept DEF Cancel
  <1>11. ASSUME NEW c \in Clicks, Forward(c) PROVE AskedInv'
    <2>1. c \in quForward /\ quAsked[c] /\ UNCHANGED <<quAsked, quKind>> /\ quForward' = {}
      BY <1>0, <1>11 DEF Forward
    <2>2. \A d \in Clicks : Explained(d)' <=> Explained(d)
      BY <2>1 DEF Explained
    <2>3. \A d \in Clicks : d = c \/ (quKind[c].shared /\ quKind[d].shared) => Explained(d)
      BY <2>1 DEF Explained
    <2>4. \A j \in Jobs : j \in wkEntry[c] \/ (quKind[c].shared /\ j \in SharedInWorker) => Explained(j[1])
      BY <1>0, <2>3, JobsOf DEF SharedInWorker
    <2>5. wkEntry[c] \subseteq Jobs /\ SharedInWorker \subseteq Jobs
      BY DEF QueryTypes, SharedInWorker
    <2>6. \A d \in Clicks : d \in quHit' => d \in quHit
      BY <1>11, <2>5, JobsOf DEF Forward
    <2>7. \A j \in Jobs : (j \in quHit' => j \in quHit \/ Explained(j[1])) /\ (j \in wkAsked' => j \in wkAsked \/ quAsked[j[1]])
      BY <1>0, <1>11, <2>1, <2>4 DEF Forward
    <2> QED
      BY <1>0, <1>11, <2>1, <2>2, <2>6, <2>7, JobsOf, AskedKept DEF Forward
  <1>12. ASSUME NEW j \in Jobs, Enter(j) PROVE AskedInv'
    <2>1. \A c \in Clicks : \A i \in wkEntry'[c] : i[1] = c
      BY <1>0, <1>12, JobsOf DEF Enter, QueryTypes
    <2> QED
      BY <1>0, <1>12, <2>1, AskedKept DEF Enter
  <1>13. ASSUME NEW j \in Jobs, SaysCancelled(j) PROVE Explained(j[1])
    <2>1. PICK i \in wkEntry[j[1]] : i \in wkAsked
      BY <1>13 DEF SaysCancelled
    <2>2. i[1] = j[1] /\ i \in Jobs
      BY <1>0, <2>1, JobsOf DEF QueryTypes
    <2> QED
      BY <1>0, <2>1, <2>2 DEF Explained
  <1>14. ASSUME NEW j \in Jobs, NEW answer \in {"ok", "failed", "cancelled"}, Leave(j, answer),
                answer = "cancelled" => Explained(j[1]), quHit' \subseteq quHit,
                UNCHANGED <<quAt, quKind, quAddress, quCursor, quAsked, quActive, quResult, quStatus, quForward, wkAsked, quLost>>
         PROVE  AskedInv'
    <2>1. \A i \in Jobs : wkAnswer'[i] = "cancelled" => wkAnswer[i] = "cancelled" \/ Explained(i[1])
      BY <1>14, LeaveTypes
    <2>2. \A c \in Clicks : \A i \in wkEntry'[c] : i[1] = c
      BY <1>0, <1>14, LeaveTypes
    <2>3. \A c \in Clicks : Explained(c)' <=> Explained(c)
      BY <1>14 DEF Explained
    <2> QED
      BY <1>0, <1>14, <2>1, <2>2, <2>3, JobsOf, AskedKept
  <1>15. ASSUME NEW j \in Jobs, StartOnWorker(j) PROVE AskedInv'
    <2>1. CASE SaysCancelled(j)
      BY <1>13, <1>14, <1>15, <2>1 DEF StartOnWorker
    <2>2. CASE ~SaysCancelled(j)
      BY <1>15, <2>2, AskedUntouched DEF StartOnWorker
    <2> QED
      BY <2>1, <2>2
  <1>16. ASSUME NEW j \in Jobs, TakeWorkersConnection(j) PROVE AskedInv'
    BY <1>16, AskedUntouched DEF TakeWorkersConnection
  <1>17. ASSUME NEW j \in Jobs, FinishOnWorker(j) PROVE AskedInv'
    <2>1. PICK outcome \in Outcomes(j) :
            Leave(j, IF outcome = "ok" THEN "ok"
                     ELSE IF outcome = "interrupted" \/ SaysCancelled(j) THEN "cancelled" ELSE "failed")
      BY <1>17 DEF FinishOnWorker
    <2>2. outcome = "interrupted" => Explained(j[1])
      BY <1>0, <2>1 DEF Outcomes
    <2>3. PICK answer \in {"ok", "failed", "cancelled"} : Leave(j, answer) /\ (answer = "cancelled" => Explained(j[1]))
      BY <1>13, <2>1, <2>2
    <2> QED
      BY <1>14, <1>17, <2>3 DEF FinishOnWorker
  <1> QED
    BY <1>1, <1>2, <1>3, <1>4, <1>5, <1>6, <1>7, <1>8, <1>9, <1>10, <1>11, <1>12, <1>15, <1>16, <1>17 DEF QueryNext

-----------------------------------------------------------------------------
(* Where a run's change can have been made. *)

LEMMA SmallSets ==
    /\ \A S \in SUBSET (1..Addresses) : IsFiniteSet(S) /\ Cardinality(S) \in Nat
    /\ \A S \in SUBSET (1..Addresses), T \in SUBSET (1..Addresses) : S \subseteq T => Cardinality(S) <= Cardinality(T)
    /\ \A S \in SUBSET (1..Addresses), k \in 1..Addresses : Cardinality(S \cup {k}) <= Cardinality(S) + 1
    /\ \A S \in SUBSET (1..Addresses) : \A k \in (1..Addresses) \ S : Cardinality(S \cup {k}) = Cardinality(S) + 1
  <1>1. \A S \in SUBSET (1..Addresses) : IsFiniteSet(S)
    BY JobsOf, FS_Interval, FS_Subset
  <1>2. \A S \in SUBSET (1..Addresses) : Cardinality(S) \in Nat
    BY <1>1, FS_CardinalityType
  <1>3. \A S \in SUBSET (1..Addresses), T \in SUBSET (1..Addresses) : S \subseteq T => Cardinality(S) <= Cardinality(T)
    BY <1>1, FS_Subset
  <1>4. ASSUME NEW S \in SUBSET (1..Addresses), NEW k \in 1..Addresses
        PROVE  Cardinality(S \cup {k}) <= Cardinality(S) + 1 /\ (k \notin S => Cardinality(S \cup {k}) = Cardinality(S) + 1)
    <2>1. IsFiniteSet(S) /\ Cardinality(S) \in Nat
      BY <1>1, <1>2
    <2>2. Cardinality(S \cup {k}) = IF k \in S THEN Cardinality(S) ELSE Cardinality(S) + 1
      BY <2>1, FS_AddElement
    <2> QED
      BY <2>1, <2>2
  <1> QED
    BY <1>1, <1>2, <1>3, <1>4

LEMMA WorkerInvStep == QueryTypes /\ WorkerInv /\ [QueryNext]_queryVars => WorkerInv'
  <1> SUFFICES ASSUME QueryTypes, WorkerInv, [QueryNext]_queryVars PROVE WorkerInv'
    OBVIOUS
  <1>1. ASSUME UNCHANGED <<wkAt, wkAnswer, quAddress>> PROVE WorkerInv'
    BY <1>1 DEF WorkerInv
  <1>2. ASSUME NEW c \in Clicks, Dispatch(c) PROVE WorkerInv'
    <2>1. quAddress[c] \in 0..Addresses /\ quAddress[c] < Addresses /\ quAddress' = [quAddress EXCEPT ![c] = quAddress[c] + 1]
      BY <1>2 DEF Dispatch, QueryTypes
    <2>2. quAddress[c] + 1 \in 1..Addresses /\ quAddress[c] \in Nat
      BY <2>1, JobsOf
    <2> DEFINE j == <<c, quAddress[c] + 1>>
    <2>3. j \in Jobs /\ wkAt[j] = "none" /\ wkAnswer' = wkAnswer
      BY <1>2, <2>2, JobsOf DEF WorkerInv, Dispatch
    <2>4. wkAt' = wkAt \/ wkAt' = [wkAt EXCEPT ![j] = "received"]
      BY <1>2 DEF Dispatch
    <2> SUFFICES ASSUME NEW d \in Clicks, NEW k \in 1..Addresses
                 PROVE  /\ wkAnswer'[<<d, k>>] # "none" <=> wkAt'[<<d, k>>] = "over"
                        /\ k > quAddress'[d] => wkAt'[<<d, k>>] = "none"
      BY DEF WorkerInv
    <2>5. <<d, k>> \in Jobs /\ (wkAnswer[<<d, k>>] # "none" <=> wkAt[<<d, k>>] = "over")
          /\ (k > quAddress[d] => wkAt[<<d, k>>] = "none")
      BY JobsOf DEF WorkerInv
    <2>6. wkAnswer'[<<d, k>>] # "none" <=> wkAt'[<<d, k>>] = "over"
      BY <2>3, <2>4, <2>5 DEF QueryTypes
    <2>7. CASE d = c
      <3>1. k > quAddress'[d] => k > quAddress[d] /\ k # quAddress[c] + 1
        BY <2>1, <2>2, <2>7 DEF QueryTypes
      <3>2. k # quAddress[c] + 1 => <<d, k>> # j
        OBVIOUS
      <3> QED
        BY <2>4, <2>5, <2>6, <3>1, <3>2 DEF QueryTypes
    <2>8. CASE d # c
      <3>1. quAddress'[d] = quAddress[d] /\ <<d, k>> # j
        BY <2>1, <2>8 DEF QueryTypes
      <3> QED
        BY <2>4, <2>5, <2>6, <3>1 DEF QueryTypes
    <2> QED
      BY <2>7, <2>8
  \* A request that is there goes on.
  <1>3. ASSUME NEW j \in Jobs, wkAt[j] # "none", NEW at, wkAt' = [wkAt EXCEPT ![j] = at], quAddress' = quAddress,
               \/ at # "over" /\ wkAt[j] # "over" /\ wkAnswer' = wkAnswer
               \/ at = "over" /\ wkAnswer'[j] # "none" /\ \A i \in Jobs : i # j => wkAnswer'[i] = wkAnswer[i]
        PROVE  WorkerInv'
    <2> SUFFICES ASSUME NEW d \in Clicks, NEW k \in 1..Addresses
                 PROVE  /\ wkAnswer'[<<d, k>>] # "none" <=> wkAt'[<<d, k>>] = "over"
                        /\ k > quAddress'[d] => wkAt'[<<d, k>>] = "none"
      BY DEF WorkerInv
    <2>1. <<d, k>> \in Jobs /\ (wkAnswer[<<d, k>>] # "none" <=> wkAt[<<d, k>>] = "over")
          /\ (k > quAddress[d] => wkAt[<<d, k>>] = "none")
      BY JobsOf DEF WorkerInv
    <2>2. wkAt'[<<d, k>>] = IF <<d, k>> = j THEN at ELSE wkAt[<<d, k>>]
      BY <1>3, <2>1 DEF QueryTypes
    <2> QED
      BY <1>3, <2>1, <2>2
  <1>4. ASSUME NEW j \in Jobs, Enter(j) PROVE WorkerInv'
    BY <1>3, <1>4 DEF Enter
  <1>5. ASSUME NEW j \in Jobs, NEW answer \in {"ok", "failed", "cancelled"}, Leave(j, answer), wkAt[j] # "none",
               quAddress' = quAddress
        PROVE  WorkerInv'
    <2>1. wkAnswer'[j] # "none" /\ \A i \in Jobs : i # j => wkAnswer'[i] = wkAnswer[i]
      BY <1>5, LeaveTypes
    <2> QED
      BY <1>3, <1>5, <2>1 DEF Leave
  <1>6. ASSUME NEW j \in Jobs, StartOnWorker(j) PROVE WorkerInv'
    <2>1. CASE Leave(j, "cancelled")
      BY <1>5, <1>6, <2>1 DEF StartOnWorker
    <2>2. CASE ~Leave(j, "cancelled")
      <3>1. PICK at \in {"waiting", "running"} : wkAt' = [wkAt EXCEPT ![j] = at]
        BY <1>6, <2>2 DEF StartOnWorker
      <3> QED
        BY <1>3, <1>6, <2>2, <3>1 DEF StartOnWorker
    <2> QED
      BY <2>1, <2>2
  <1>7. ASSUME NEW j \in Jobs, TakeWorkersConnection(j) PROVE WorkerInv'
    BY <1>3, <1>7 DEF TakeWorkersConnection
  <1>8. ASSUME NEW j \in Jobs, FinishOnWorker(j) PROVE WorkerInv'
    <2>1. \E answer \in {"ok", "failed", "cancelled"} : Leave(j, answer)
      BY <1>8 DEF FinishOnWorker
    <2> QED
      BY <1>5, <1>8, <2>1 DEF FinishOnWorker
  <1>9. ASSUME NEW c \in Clicks, ~Dispatch(c),
               \/ Submit(c) \/ Register(c) \/ TakeAnswer(c) \/ GiveUp(c) \/ TryRay(c) \/ StartLocal(c) \/ TakeConnection(c)
               \/ FinishLocal(c) \/ Report(c) \/ Cancel(c) \/ Forward(c)
        PROVE  WorkerInv'
    <2>1. UNCHANGED <<wkAt, wkAnswer, quAddress>>
      BY <1>9, GiveUpSays DEF Submit, Register, TakeAnswer, TryRay, StartLocal, TakeConnection, FinishLocal, Report, Cancel, Forward
    <2> QED
      BY <1>1, <2>1
  <1>10. CASE UNCHANGED queryVars
    BY <1>1, <1>10 DEF queryVars
  <1> QED
    BY <1>2, <1>4, <1>6, <1>7, <1>8, <1>9, <1>10 DEF QueryNext

\* A run whose own requests and place do not change.
LEMMA PlaceStays ==
    ASSUME QueryTypes, NEW c \in Clicks, NEW L, NEW C, PlacedAt(c, L, C), quKind' = quKind,
           quAt'[c] = quAt[c], quAddress'[c] = quAddress[c], quResult'[c] = quResult[c], quLost'[c] = quLost[c],
           quEffects'[c] = quEffects[c], Sent(c)' = Sent(c), Oks(c)' = Oks(c),
           quAt[c] \in {"ran", "over"} /\ C # {} => wkAnswer'[<<c, quAddress[c]>>] = wkAnswer[<<c, quAddress[c]>>]
    PROVE  PlacedAt(c, L, C)'
  BY DEF PlacedAt

LEMMA SameWork ==
    ASSUME NEW c \in Clicks,
           \A k \in 1..Addresses : (wkAt'[<<c, k>>] = "none" <=> wkAt[<<c, k>>] = "none") /\ wkAnswer'[<<c, k>>] = wkAnswer[<<c, k>>]
    PROVE  Sent(c)' = Sent(c) /\ Oks(c)' = Oks(c)
  BY DEF Sent, Oks

\* One run and its own requests change, and stay explained.
LEMMA PlacesKept ==
    ASSUME QueryTypes, PlacesInv, NEW c \in Clicks, quKind' = quKind,
           \A d \in Clicks : d # c =>
               /\ quAt'[d] = quAt[d] /\ quAddress'[d] = quAddress[d] /\ quResult'[d] = quResult[d]
               /\ quStatus'[d] = quStatus[d] /\ quLost'[d] = quLost[d] /\ quEffects'[d] = quEffects[d],
           \A d \in Clicks, k \in 1..Addresses : d # c =>
               (wkAt'[<<d, k>>] = "none" <=> wkAt[<<d, k>>] = "none") /\ wkAnswer'[<<d, k>>] = wkAnswer[<<d, k>>],
           \E L, C \in SUBSET (1..Addresses) : PlacedAt(c, L, C)',
           quStatus'[c] # "none" => quAt'[c] = "over" /\ (quStatus'[c] = "SUCCESS" <=> quResult'[c] = "ok")
    PROVE  PlacesInv'
  <1> SUFFICES ASSUME NEW d \in Clicks
               PROVE  /\ \E L, C \in SUBSET (1..Addresses) : PlacedAt(d, L, C)'
                      /\ quStatus'[d] # "none" => quAt'[d] = "over"
                      /\ quStatus'[d] # "none" => (quStatus'[d] = "SUCCESS" <=> quResult'[d] = "ok")
    BY DEF PlacesInv
  <1>1. CASE d = c
    BY <1>1
  <1>2. CASE d # c
    <2>1. PICK L, C \in SUBSET (1..Addresses) : PlacedAt(d, L, C)
      BY DEF PlacesInv
    <2>2. Sent(d)' = Sent(d) /\ Oks(d)' = Oks(d)
      BY <1>2, SameWork
    <2>3. quAt[d] \in {"ran", "over"} /\ C # {} => wkAnswer'[<<d, quAddress[d]>>] = wkAnswer[<<d, quAddress[d]>>]
      BY <1>2, <2>1 DEF PlacedAt
    <2>4. PlacedAt(d, L, C)'
      BY <1>2, <2>1, <2>2, <2>3, PlaceStays
    <2> QED
      BY <1>2, <2>1, <2>4 DEF PlacesInv
  <1> QED
    BY <1>1, <1>2

LEMMA DispatchPlaces ==
    ASSUME QueryTypes, WorkerInv, PlacesInv, NEW c \in Clicks, Dispatch(c)
    PROVE  PlacesInv'
  <1>1. PICK L, C \in SUBSET (1..Addresses) : PlacedAt(c, L, C)
    BY DEF PlacesInv
  <1>0. quAddress[c] + 1 \in 1..Addresses
    BY JobsOf DEF Dispatch, QueryTypes
  <1> PICK k \in 1..Addresses : k = quAddress[c] + 1
    BY <1>0
  <1>2. /\ quAt[c] = "trying" /\ k \in 1..Addresses /\ quAddress'[c] = k
        /\ \A d \in Clicks : d # c => quAddress'[d] = quAddress[d]
    BY JobsOf DEF Dispatch, QueryTypes
  <1>3. C = {} /\ quStatus[c] = "none" /\ quResult[c] = "none" /\ Sent(c) \subseteq L /\ Cardinality(L) <= quLost[c]
    BY <1>1, <1>2 DEF PlacedAt, PlacesInv
  <1>4. Oks(c)' = Oks(c) /\ UNCHANGED <<quKind, quResult, quStatus, quLost, quEffects, wkAnswer>>
    BY DEF Dispatch, Oks
  <1>5. \E M, D \in SUBSET (1..Addresses) : PlacedAt(c, M, D)'
    <2>1. CASE UNCHANGED <<quAt, wkAt>>
      <3>1. Sent(c)' = Sent(c)
        BY <2>1 DEF Sent
      <3>2. PlacedAt(c, L, {})'
        BY <1>1, <1>2, <1>3, <1>4, <2>1, <3>1 DEF PlacedAt
      <3> QED
        BY <3>2
    <2>2. CASE quAt' = [quAt EXCEPT ![c] = "remote"] /\ wkAt' = [wkAt EXCEPT ![<<c, k>>] = "received"]
      <3>1. quAt'[c] = "remote" /\ \A i \in 1..Addresses : i # k => wkAt'[<<c, i>>] = wkAt[<<c, i>>]
        BY <2>2, JobsOf DEF QueryTypes
      <3>2. Sent(c)' \subseteq L \cup {k}
        BY <1>3, <3>1 DEF Sent
      <3>3. quEffects'[c] = IF ~quKind'[c].changes THEN 0 ELSE Cardinality(Oks(c)') + 0
        BY <1>1, <1>3, <1>4 DEF PlacedAt
      <3>4. PlacedAt(c, L, {k})'
        BY <1>2, <1>3, <1>4, <3>1, <3>2, <3>3 DEF PlacedAt
      <3>5. {k} \in SUBSET (1..Addresses)
        BY <1>2
      <3> QED
        BY <3>4, <3>5
    <2> QED
      BY <2>1, <2>2 DEF Dispatch
  <1>6. \A d \in Clicks : d # c => quAt'[d] = quAt[d]
    BY DEF Dispatch, QueryTypes
  <1>7. \A d \in Clicks, i \in 1..Addresses : d # c => wkAt'[<<d, i>>] = wkAt[<<d, i>>]
    BY JobsOf DEF Dispatch, QueryTypes
  <1> QED
    BY <1>2, <1>3, <1>4, <1>5, <1>6, <1>7, PlacesKept

LEMMA TakeAnswerPlaces ==
    ASSUME QueryTypes, WorkerInv, PlacesInv, NEW c \in Clicks, TakeAnswer(c)
    PROVE  PlacesInv'
  <1>1. PICK L, C \in SUBSET (1..Addresses) : PlacedAt(c, L, C)
    BY DEF PlacesInv
  <1>2. /\ quAt[c] = "remote" /\ wkAnswer[<<c, quAddress[c]>>] # "none" /\ quAt'[c] = "ran"
        /\ quResult'[c] = wkAnswer[<<c, quAddress[c]>>]
        /\ \A d \in Clicks : d # c => quAt'[d] = quAt[d] /\ quResult'[d] = quResult[d]
        /\ UNCHANGED <<quKind, quAddress, quStatus, quLost, quEffects, wkAt, wkAnswer>>
    BY DEF TakeAnswer, QueryTypes
  <1>3. C = {quAddress[c]} /\ quStatus[c] = "none"
    BY <1>1, <1>2 DEF PlacedAt, PlacesInv
  <1>4. Sent(c)' = Sent(c) /\ Oks(c)' = Oks(c)
    BY <1>2 DEF Sent, Oks
  <1>5. PlacedAt(c, L, C)'
    BY <1>1, <1>2, <1>3, <1>4 DEF PlacedAt
  <1> QED
    BY <1>1, <1>2, <1>3, <1>5, PlacesKept

\* The request given up is counted, and its answer comes too late.
LEMMA GiveUpPlaces ==
    ASSUME QueryTypes, WorkerInv, PlacesInv, NEW c \in Clicks, GiveUp(c)
    PROVE  PlacesInv'
  <1>1. PICK L, C \in SUBSET (1..Addresses) : PlacedAt(c, L, C)
    BY DEF PlacesInv
  <1>0. quAddress[c] \in 1..Addresses
    BY RemoteAddress DEF GiveUp
  <1> PICK a \in 1..Addresses : a = quAddress[c]
    BY <1>0
  <1> DEFINE M == L \cup {a}
  <1>2. /\ quAt[c] = "remote" /\ quAt'[c] = "trying" /\ quLost'[c] = quLost[c] + 1 /\ quLost[c] \in Nat
        /\ \A d \in Clicks : d # c => quAt'[d] = quAt[d] /\ quLost'[d] = quLost[d]
        /\ UNCHANGED <<quKind, quAddress, quResult, quStatus, quEffects, wkAt, wkAnswer>>
    BY GiveUpSays DEF QueryTypes
  <1>3. C = {a} /\ quStatus[c] = "none" /\ quResult[c] = "none" /\ a \in 1..Addresses
    BY <1>1, <1>2 DEF PlacedAt, PlacesInv
  <1>4. Sent(c)' = Sent(c) /\ Oks(c)' = Oks(c)
    BY <1>2 DEF Sent, Oks
  <1>5. M \in SUBSET (1..Addresses) /\ Cardinality(M) <= quLost'[c]
    <2>1. Cardinality(M) <= Cardinality(L) + 1 /\ Cardinality(L) <= quLost[c]
      BY <1>1, <1>3, SmallSets DEF PlacedAt
    <2>2. Cardinality(L) \in Nat /\ M \in SUBSET (1..Addresses) /\ Cardinality(M) \in Nat
      BY <1>1, <1>3, SmallSets
    <2> QED
      BY <1>2, <2>1, <2>2
  <1>6. quEffects'[c] = IF ~quKind'[c].changes THEN 0 ELSE Cardinality(Oks(c)') + 0
    BY <1>1, <1>2, <1>3, <1>4 DEF PlacedAt
  <1>7. PlacedAt(c, M, {})'
    BY <1>1, <1>2, <1>3, <1>4, <1>5, <1>6 DEF PlacedAt
  <1>8. \E N, D \in SUBSET (1..Addresses) : PlacedAt(c, N, D)'
    BY <1>5, <1>7
  <1> HIDE DEF M
  <1> QED
    BY <1>2, <1>3, <1>8, PlacesKept

\* What a run does on the studio's side once no worker has it.
LEMMA LocalPlaces ==
    ASSUME QueryTypes, WorkerInv, PlacesInv, NEW c \in Clicks,
           quAt[c] \in {"new", "governing", "trying", "local", "waiting", "running"},
           quAt' = [quAt EXCEPT ![c] = quAt'[c]],
           UNCHANGED <<quKind, quAddress, quLost, wkAt, wkAnswer>>,
           \A d \in Clicks : d # c => quResult'[d] = quResult[d] /\ quStatus'[d] = quStatus[d] /\ quEffects'[d] = quEffects[d],
           quAt'[c] \notin {"ran", "over"} => quResult'[c] = "none",
           quAt'[c] # "remote",
           quEffects'[c] = IF quResult'[c] = "ok" /\ quKind[c].changes THEN quEffects[c] + 1 ELSE quEffects[c],
           quStatus'[c] # "none" => quAt'[c] = "over" /\ (quStatus'[c] = "SUCCESS" <=> quResult'[c] = "ok")
    PROVE  PlacesInv'
  <1>1. PICK L, C \in SUBSET (1..Addresses) : PlacedAt(c, L, C)
    BY DEF PlacesInv
  <1>2. C = {} /\ quResult[c] = "none"
    BY <1>1 DEF PlacedAt
  <1>3. Sent(c)' = Sent(c) /\ Oks(c)' = Oks(c)
    BY DEF Sent, Oks
  <1>4. quEffects[c] = IF ~quKind[c].changes THEN 0 ELSE Cardinality(Oks(c)) + 0
    BY <1>1, <1>2 DEF PlacedAt
  <1>5. Cardinality(Oks(c)) \in Nat
    BY SmallSets DEF Oks
  <1>6. quEffects'[c] = IF ~quKind'[c].changes THEN 0 ELSE Cardinality(Oks(c)') + (IF quResult'[c] = "ok" THEN 1 ELSE 0)
    BY <1>3, <1>4, <1>5
  <1>7. PlacedAt(c, L, C)'
    BY <1>1, <1>2, <1>3, <1>6 DEF PlacedAt
  <1>8. \A d \in Clicks : d # c => quAt'[d] = quAt[d]
    BY DEF QueryTypes
  <1> QED
    BY <1>1, <1>7, <1>8, PlacesKept

\* A request that ends without a change, or makes one that is counted among its run's.
LEMMA AnswerPlaces ==
    ASSUME QueryTypes, WorkerInv, PlacesInv, NEW j \in Jobs, NEW answer \in {"ok", "failed", "cancelled"},
           Leave(j, answer), wkAt[j] \notin {"none", "over"},
           UNCHANGED <<quAt, quKind, quAddress, quResult, quStatus, quLost>>,
           \A d \in Clicks : d # j[1] => quEffects'[d] = quEffects[d],
           quEffects'[j[1]] = IF answer = "ok" /\ quKind[j[1]].changes THEN quEffects[j[1]] + 1 ELSE quEffects[j[1]]
    PROVE  PlacesInv'
  <1>0. PICK c \in Clicks, k \in 1..Addresses : j = <<c, k>> /\ j[1] = c
    BY JobsOf
  <1>1. PICK L, C \in SUBSET (1..Addresses) : PlacedAt(c, L, C)
    BY DEF PlacesInv
  <1>2. /\ wkAt'[j] = "over" /\ wkAnswer'[j] = answer /\ wkAnswer[j] = "none"
        /\ \A i \in Jobs : i # j => wkAt'[i] = wkAt[i] /\ wkAnswer'[i] = wkAnswer[i]
    BY <1>0, LeaveTypes DEF WorkerInv
  <1>3. /\ \A i \in 1..Addresses : i # k => wkAt'[<<c, i>>] = wkAt[<<c, i>>] /\ wkAnswer'[<<c, i>>] = wkAnswer[<<c, i>>]
        /\ wkAt'[<<c, k>>] = "over" /\ wkAt[<<c, k>>] # "none" /\ wkAnswer'[<<c, k>>] = answer /\ wkAnswer[<<c, k>>] = "none"
    BY <1>0, <1>2, JobsOf
  <1>4. Sent(c)' = Sent(c)
    BY <1>3 DEF Sent
  <1>5. Oks(c)' = (IF answer = "ok" THEN Oks(c) \cup {k} ELSE Oks(c)) /\ k \notin Oks(c)
    BY <1>3 DEF Oks
  <1>6. Cardinality(Oks(c)) \in Nat /\ Cardinality(Oks(c)') = Cardinality(Oks(c)) + (IF answer = "ok" THEN 1 ELSE 0)
    <2>1. Oks(c) \in SUBSET (1..Addresses) /\ Cardinality(Oks(c)) \in Nat
      BY SmallSets DEF Oks
    <2>2. Cardinality(Oks(c) \cup {k}) = Cardinality(Oks(c)) + 1
      BY <1>5, <2>1, SmallSets
    <2> QED
      BY <1>5, <2>1, <2>2
  <1>7. quEffects[c] = IF ~quKind[c].changes THEN 0
                       ELSE Cardinality(Oks(c)) + (IF C = {} /\ quResult[c] = "ok" THEN 1 ELSE 0)
    BY <1>1 DEF PlacedAt
  <1>8. quEffects'[c] = IF ~quKind'[c].changes THEN 0
                        ELSE Cardinality(Oks(c)') + (IF C = {} /\ quResult'[c] = "ok" THEN 1 ELSE 0)
    BY <1>0, <1>6, <1>7
  <1>9. quAt[c] \in {"ran", "over"} /\ C # {} => wkAnswer'[<<c, quAddress[c]>>] = wkAnswer[<<c, quAddress[c]>>]
    BY <1>1, <1>3 DEF PlacedAt
  <1>10. PlacedAt(c, L, C)'
    BY <1>1, <1>4, <1>8, <1>9 DEF PlacedAt
  <1>11. \A d \in Clicks, i \in 1..Addresses : d # c =>
           wkAt'[<<d, i>>] = wkAt[<<d, i>>] /\ wkAnswer'[<<d, i>>] = wkAnswer[<<d, i>>]
    BY <1>0, <1>2, JobsOf
  <1>12. \E M, D \in SUBSET (1..Addresses) : PlacedAt(c, M, D)'
    BY <1>1, <1>10
  <1>13. quStatus'[c] # "none" => quAt'[c] = "over" /\ (quStatus'[c] = "SUCCESS" <=> quResult'[c] = "ok")
    BY DEF PlacesInv
  <1> QED
    BY <1>0, <1>11, <1>12, <1>13, PlacesKept

\* The steps in which no run moves and no request is sent or answered.
LEMMA PlacesUntouched ==
    ASSUME QueryTypes, PlacesInv,
           UNCHANGED <<quAt, quKind, quAddress, quResult, quStatus, quLost, quEffects, wkAnswer>>,
           \A j \in Jobs : wkAt'[j] = "none" <=> wkAt[j] = "none"
    PROVE  PlacesInv'
  <1> SUFFICES ASSUME NEW d \in Clicks
               PROVE  /\ \E L, C \in SUBSET (1..Addresses) : PlacedAt(d, L, C)'
                      /\ quStatus'[d] # "none" => quAt'[d] = "over"
                      /\ quStatus'[d] # "none" => (quStatus'[d] = "SUCCESS" <=> quResult'[d] = "ok")
    BY DEF PlacesInv
  <1>1. PICK L, C \in SUBSET (1..Addresses) : PlacedAt(d, L, C)
    BY DEF PlacesInv
  <1>2. Sent(d)' = Sent(d) /\ Oks(d)' = Oks(d)
    BY SameWork, JobsOf
  <1>3. PlacedAt(d, L, C)'
    BY <1>1, <1>2, PlaceStays
  <1> QED
    BY <1>1, <1>3 DEF PlacesInv

LEMMA PlacesInvStep == QueryTypes /\ WorkerInv /\ PlacesInv /\ [QueryNext]_queryVars => PlacesInv'
  <1> SUFFICES ASSUME QueryTypes, WorkerInv, PlacesInv, [QueryNext]_queryVars PROVE PlacesInv'
    OBVIOUS
  <1>0. ASSUME NEW c \in Clicks, quAt[c] # "over" PROVE quStatus[c] = "none"
    BY <1>0 DEF PlacesInv
  <1>a. ASSUME NEW c \in Clicks, quAt[c] \in {"new", "governing", "trying", "local", "waiting", "running"}
        PROVE  quResult[c] = "none"
    BY <1>a DEF PlacesInv, PlacedAt
  <1>1. CASE UNCHANGED queryVars
    BY <1>1, PlacesUntouched DEF queryVars
  <1>2. ASSUME NEW c \in Clicks, Submit(c) \/ StartLocal(c) \/ TakeConnection(c) PROVE PlacesInv'
    <2>1. /\ quAt[c] \in {"new", "local", "waiting"}
          /\ UNCHANGED <<quKind, quAddress, quLost, wkAt, wkAnswer, quResult, quStatus, quEffects>>
      BY <1>2 DEF Submit, StartLocal, TakeConnection
    <2>2. PICK at \in {"governing", "waiting", "running"} : quAt' = [quAt EXCEPT ![c] = at]
      BY <1>2 DEF Submit, StartLocal, TakeConnection
    <2>3. quAt'[c] = at /\ quAt' = [quAt EXCEPT ![c] = quAt'[c]]
      BY <2>2 DEF QueryTypes
    <2> QED
      BY <1>0, <1>a, <2>1, <2>3, LocalPlaces
  <1>3. ASSUME NEW c \in Clicks, Register(c) PROVE PlacesInv'
    <2>1. quAt[c] = "governing" /\ UNCHANGED <<quKind, quAddress, quLost, wkAt, wkAnswer, quResult, quEffects>>
      BY <1>3 DEF Register
    <2>2. PICK at \in {"over", "trying"} :
              quAt' = [quAt EXCEPT ![c] = at]
              /\ quStatus' = IF at = "over" THEN [quStatus EXCEPT ![c] = "FAILED"] ELSE quStatus
      BY <1>3 DEF Register
    <2>3. /\ quAt'[c] = at /\ quAt' = [quAt EXCEPT ![c] = quAt'[c]]
          /\ quStatus'[c] = (IF at = "over" THEN "FAILED" ELSE quStatus[c]) /\ \A d \in Clicks : d # c => quStatus'[d] = quStatus[d]
      BY <2>2 DEF QueryTypes
    <2>4. quResult[c] = "none" /\ quStatus[c] = "none"
      BY <1>0, <1>a, <2>1
    <2> QED
      BY <2>1, <2>3, <2>4, LocalPlaces
  <1>4. ASSUME NEW c \in Clicks, Dispatch(c) PROVE PlacesInv'
    BY <1>4, DispatchPlaces
  <1>5. ASSUME NEW c \in Clicks, TakeAnswer(c) PROVE PlacesInv'
    BY <1>5, TakeAnswerPlaces
  <1>6. ASSUME NEW c \in Clicks, GiveUp(c) PROVE PlacesInv'
    BY <1>6, GiveUpPlaces
  <1>7. ASSUME NEW c \in Clicks, TryRay(c) PROVE PlacesInv'
    <2>1. quAt[c] = "trying" /\ UNCHANGED <<quKind, quAddress, quLost, wkAt, wkAnswer, quStatus, quEffects>>
      BY <1>7 DEF TryRay
    <2>2. quResult[c] = "none" /\ quStatus[c] = "none"
      BY <1>0, <1>a, <2>1
    <2>3. CASE ~quKind[c].changes /\ quAt' = [quAt EXCEPT ![c] = "ran"] /\ quResult' = [quResult EXCEPT ![c] = "ok"]
      <3>1. quAt'[c] = "ran" /\ quAt' = [quAt EXCEPT ![c] = quAt'[c]] /\ \A d \in Clicks : d # c => quResult'[d] = quResult[d]
        BY <2>3 DEF QueryTypes
      <3> QED
        BY <2>1, <2>2, <2>3, <3>1, LocalPlaces
    <2>4. CASE quAt' = [quAt EXCEPT ![c] = "local"] /\ UNCHANGED quResult
      <3>1. quAt'[c] = "local" /\ quAt' = [quAt EXCEPT ![c] = quAt'[c]]
        BY <2>4 DEF QueryTypes
      <3> QED
        BY <2>1, <2>2, <2>4, <3>1, LocalPlaces
    <2> QED
      BY <1>7, <2>3, <2>4 DEF TryRay
  <1>8. ASSUME NEW c \in Clicks, FinishLocal(c) PROVE PlacesInv'
    <2>1. PICK outcome \in {"ok", "error", "interrupted"} :
            /\ Effect(c, outcome)
            /\ quResult' = [quResult EXCEPT ![c] =
                  CASE outcome = "error" -> "raised" [] outcome = "interrupted" -> "cancelled" [] OTHER -> outcome]
      BY <1>8 DEF FinishLocal, Outcomes
    <2>2. quAt[c] = "running" /\ quAt' = [quAt EXCEPT ![c] = "ran"]
          /\ UNCHANGED <<quKind, quAddress, quLost, wkAt, wkAnswer, quStatus>>
      BY <1>8 DEF FinishLocal
    <2>3. quAt'[c] = "ran" /\ quAt' = [quAt EXCEPT ![c] = quAt'[c]]
      BY <2>2 DEF QueryTypes
    <2>4. (quResult'[c] = "ok" <=> outcome = "ok") /\ \A d \in Clicks : d # c => quResult'[d] = quResult[d]
      BY <2>1 DEF QueryTypes
    <2>5. /\ quEffects'[c] = IF quResult'[c] = "ok" /\ quKind[c].changes THEN quEffects[c] + 1 ELSE quEffects[c]
          /\ \A d \in Clicks : d # c => quEffects'[d] = quEffects[d]
      BY <2>1, <2>4, EffectTypes
    <2>6. quStatus[c] = "none"
      BY <1>0, <2>2
    <2> QED
      BY <2>2, <2>3, <2>4, <2>5, <2>6, LocalPlaces
  <1>9. ASSUME NEW c \in Clicks, Report(c) PROVE PlacesInv'
    <2>1. PICK L, C \in SUBSET (1..Addresses) : PlacedAt(c, L, C)
      BY DEF PlacesInv
    <2>2. /\ quAt[c] = "ran" /\ quAt'[c] = "over" /\ \A d \in Clicks : d # c => quAt'[d] = quAt[d] /\ quStatus'[d] = quStatus[d]
          /\ quStatus'[c] = Status(c)
          /\ UNCHANGED <<quKind, quAddress, quLost, wkAt, wkAnswer, quResult, quEffects>>
      BY <1>9 DEF Report, QueryTypes
    <2>3. Status(c) = "SUCCESS" <=> quResult[c] = "ok"
      BY DEF Status
    <2>4. Sent(c)' = Sent(c) /\ Oks(c)' = Oks(c)
      BY <2>2 DEF Sent, Oks
    <2>5. PlacedAt(c, L, C)'
      BY <2>1, <2>2, <2>4 DEF PlacedAt
    <2> QED
      BY <2>1, <2>2, <2>3, <2>5, PlacesKept
  <1>10. ASSUME NEW c \in Clicks, Cancel(c) \/ Forward(c) PROVE PlacesInv'
    <2>1. UNCHANGED <<quAt, quKind, quAddress, quResult, quStatus, quLost, quEffects, wkAt, wkAnswer>>
      BY <1>10 DEF Cancel, Forward
    <2> QED
      BY <2>1, PlacesUntouched
  <1>11. ASSUME NEW j \in Jobs, Enter(j) \/ TakeWorkersConnection(j) PROVE PlacesInv'
    <2>1. PICK at \in {"entered", "running"} : wkAt' = [wkAt EXCEPT ![j] = at]
      BY <1>11 DEF Enter, TakeWorkersConnection
    <2>2. wkAt[j] # "none" /\ UNCHANGED <<quAt, quKind, quAddress, quResult, quStatus, quLost, quEffects, wkAnswer>>
      BY <1>11 DEF Enter, TakeWorkersConnection
    <2>3. \A i \in Jobs : wkAt'[i] = "none" <=> wkAt[i] = "none"
      BY <2>1, <2>2 DEF QueryTypes
    <2> QED
      BY <2>2, <2>3, PlacesUntouched
  <1>12. ASSUME NEW j \in Jobs, StartOnWorker(j) PROVE PlacesInv'
    <2>1. wkAt[j] = "entered" /\ UNCHANGED <<quAt, quKind, quAddress, quResult, quStatus, quLost, quEffects>>
      BY <1>12 DEF StartOnWorker
    <2>2. CASE Leave(j, "cancelled")
      BY <2>1, <2>2, AnswerPlaces
    <2>3. CASE ~Leave(j, "cancelled")
      <3>1. PICK at \in {"waiting", "running"} : wkAt' = [wkAt EXCEPT ![j] = at] /\ wkAnswer' = wkAnswer
        BY <1>12, <2>3 DEF StartOnWorker
      <3>2. \A i \in Jobs : wkAt'[i] = "none" <=> wkAt[i] = "none"
        BY <2>1, <3>1 DEF QueryTypes
      <3> QED
        BY <2>1, <3>1, <3>2, PlacesUntouched
    <2> QED
      BY <2>2, <2>3
  <1>13. ASSUME NEW j \in Jobs, FinishOnWorker(j) PROVE PlacesInv'
    <2>1. PICK outcome \in Outcomes(j), answer \in {"ok", "failed", "cancelled"} :
            Effect(j[1], outcome) /\ Leave(j, answer) /\ (answer = "ok" <=> outcome = "ok")
      <3>1. PICK outcome \in Outcomes(j) :
            /\ Effect(j[1], outcome)
            /\ Leave(j, IF outcome = "ok" THEN "ok"
                        ELSE IF outcome = "interrupted" \/ SaysCancelled(j) THEN "cancelled" ELSE "failed")
        BY <1>13 DEF FinishOnWorker
      <3> QED
        BY <3>1
    <2>2. wkAt[j] = "running" /\ UNCHANGED <<quAt, quKind, quAddress, quResult, quStatus, quLost>>
      BY <1>13 DEF FinishOnWorker
    <2>3. /\ \A d \in Clicks : d # j[1] => quEffects'[d] = quEffects[d]
          /\ quEffects'[j[1]] = IF answer = "ok" /\ quKind[j[1]].changes THEN quEffects[j[1]] + 1 ELSE quEffects[j[1]]
      BY <2>1, EffectTypes, JobsOf
    <2> QED
      BY <2>1, <2>2, <2>3, AnswerPlaces
  <1> QED
    BY <1>1, <1>2, <1>3, <1>4, <1>5, <1>6, <1>7, <1>8, <1>9, <1>10, <1>11, <1>12, <1>13 DEF QueryNext

LEMMA QueryInitHolds == QueryInit => QueryInv
  <1> SUFFICES ASSUME QueryInit PROVE QueryInv
    OBVIOUS
  <1>1. QueryTypes
    BY QueryAssumption DEF QueryInit, QueryTypes, QueryPlaces, QueryResults, WorkerPlaces
  <1>2. AskedInv
    BY JobsOf DEF QueryInit, AskedInv
  <1>3. WorkerInv
    BY JobsOf DEF QueryInit, WorkerInv
  <1>4. ASSUME NEW c \in Clicks PROVE PlacedAt(c, {}, {})
    <2>1. Sent(c) = {} /\ Oks(c) = {}
      BY JobsOf DEF QueryInit, Sent, Oks
    <2>2. Cardinality({}) = 0
      BY FS_EmptySet
    <2> QED
      BY <2>1, <2>2 DEF QueryInit, PlacedAt
  <1>5. PlacesInv
    <2>1. \A c \in Clicks : quStatus[c] = "none"
      BY DEF QueryInit
    <2> QED
      BY <1>4, <2>1 DEF PlacesInv
  <1> QED
    BY <1>1, <1>2, <1>3, <1>5 DEF QueryInv

LEMMA QueryInvariant == QuerySpec => []QueryInv
  <1>1. QueryInv /\ [QueryNext]_queryVars => QueryInv'
    BY QueryTypesStep, AskedInvStep, WorkerInvStep, PlacesInvStep DEF QueryInv
  <1> QED
    BY <1>1, QueryInitHolds, PTL DEF QuerySpec

LEMMA AnsweredSent ==
    ASSUME WorkerInv, NEW c \in Clicks
    PROVE  Oks(c) \subseteq Sent(c)
  BY DEF WorkerInv, Oks, Sent

LEMMA PlacesExplain ==
    ASSUME QueryTypes, WorkerInv, NEW c \in Clicks, NEW L \in SUBSET (1..Addresses), NEW C \in SUBSET (1..Addresses),
           PlacedAt(c, L, C), quAt[c] = "over"
    PROVE  /\ quResult[c] # "ok" => quEffects[c] <= quLost[c]
           /\ quEffects[c] <= quLost[c] + 1
           /\ quResult[c] = "ok" /\ quKind[c].changes => quEffects[c] >= 1
  <1>1. /\ Cardinality(L) <= quLost[c] /\ Sent(c) \subseteq L \cup C /\ C \subseteq {quAddress[c]}
        /\ C # {} => quResult[c] = wkAnswer[<<c, quAddress[c]>>]
        /\ quEffects[c] = IF ~quKind[c].changes THEN 0
                          ELSE Cardinality(Oks(c)) + (IF C = {} /\ quResult[c] = "ok" THEN 1 ELSE 0)
    BY DEF PlacedAt
  <1>2. /\ Oks(c) \in SUBSET (1..Addresses) /\ Cardinality(L) \in Nat /\ Cardinality(Oks(c)) \in Nat
        /\ quLost[c] \in Nat /\ quEffects[c] \in Nat
    BY SmallSets DEF Oks, QueryTypes
  <1>3. CASE quResult[c] # "ok" \/ C = {}
    <2>1. Oks(c) \subseteq L
      <3>1. C = {} \/ (C = {quAddress[c]} /\ quAddress[c] \notin Oks(c))
        BY <1>1, <1>3 DEF Oks
      <3>2. Oks(c) \subseteq L \cup C
        BY <1>1, AnsweredSent
      <3> QED
        BY <3>1, <3>2
    <2>2. Cardinality(Oks(c)) <= Cardinality(L)
      BY <1>2, <2>1, SmallSets
    <2> QED
      BY <1>1, <1>2, <1>3, <2>2
  <1>4. CASE quResult[c] = "ok" /\ C # {}
    <2>1. C = {quAddress[c]} /\ quAddress[c] \in 1..Addresses /\ quAddress[c] \in Oks(c)
      BY <1>1, <1>4 DEF Oks
    <2>2. Oks(c) \subseteq L \cup {quAddress[c]} /\ L \cup {quAddress[c]} \in SUBSET (1..Addresses)
      BY <1>1, <2>1, AnsweredSent
    <2>3. Cardinality(Oks(c)) <= Cardinality(L) + 1
      <3>1. /\ Cardinality(Oks(c)) <= Cardinality(L \cup {quAddress[c]}) /\ Cardinality(L \cup {quAddress[c]}) <= Cardinality(L) + 1
            /\ Cardinality(L \cup {quAddress[c]}) \in Nat
        BY <1>2, <2>1, <2>2, SmallSets
      <3> QED
        BY <1>2, <3>1
    <2>4. Cardinality(Oks(c)) >= 1
      <3>1. {quAddress[c]} \in SUBSET (1..Addresses) /\ {quAddress[c]} \subseteq Oks(c) /\ Cardinality({quAddress[c]}) = 1
        BY <2>1, FS_Singleton
      <3>2. Cardinality({quAddress[c]}) <= Cardinality(Oks(c))
        BY <1>2, <3>1, SmallSets
      <3> QED
        BY <1>2, <3>1, <3>2
    <2>5. (quEffects[c] = 0 /\ ~quKind[c].changes) \/ quEffects[c] = Cardinality(Oks(c))
      <3>1. quEffects[c] = IF ~quKind[c].changes THEN 0
                           ELSE Cardinality(Oks(c)) + (IF C = {} /\ quResult[c] = "ok" THEN 1 ELSE 0)
        BY <1>1
      <3>2. (IF C = {} /\ quResult[c] = "ok" THEN 1 ELSE 0) = 0
        BY <1>4
      <3>3. Cardinality(Oks(c)) + 0 = Cardinality(Oks(c))
        BY <1>2
      <3> QED
        BY <3>1, <3>2, <3>3
    <2> QED
      BY <1>1, <1>2, <1>4, <2>3, <2>4, <2>5
  <1> QED
    BY <1>3, <1>4

\* The history of queries says of a statement what became of it: one reported as failed or cancelled has changed
\* nothing and one that succeeded has made its change once, but for what the requests that execute_sql gave up
\* may have done; and a statement is cancelled only by its own cancellation or by one that hits the connection it shares.
THEOREM StatementsAreExplained == QuerySpec => []StatementsExplained
  <1>1. QueryInv => StatementsExplained
    <2> SUFFICES ASSUME QueryInv PROVE StatementsExplained
      OBVIOUS
    <2>1. EffectsExplained
      <3> SUFFICES ASSUME NEW c \in Clicks, quStatus[c] # "none"
                   PROVE  /\ quEffects[c] - quLost[c] <= (IF quStatus[c] = "SUCCESS" THEN 1 ELSE 0)
                          /\ quStatus[c] = "SUCCESS" /\ quKind[c].changes => quEffects[c] >= 1
        BY DEF EffectsExplained
      <3>1. quAt[c] = "over" /\ (quStatus[c] = "SUCCESS" <=> quResult[c] = "ok") /\ WorkerInv /\ QueryTypes
        BY DEF QueryInv, PlacesInv
      <3>2. PICK L, C \in SUBSET (1..Addresses) : PlacedAt(c, L, C)
        BY DEF QueryInv, PlacesInv
      <3>3. /\ quResult[c] # "ok" => quEffects[c] <= quLost[c]
            /\ quEffects[c] <= quLost[c] + 1
            /\ quResult[c] = "ok" /\ quKind[c].changes => quEffects[c] >= 1
        BY <3>1, <3>2, PlacesExplain
      <3>4. quEffects[c] \in Nat /\ quLost[c] \in Nat
        BY <3>1 DEF QueryTypes
      <3> QED
        BY <3>1, <3>3, <3>4
    <2>2. CancelsExplained
      BY DEF QueryInv, AskedInv, Explained, CancelsExplained
    <2> QED
      BY <2>1, <2>2 DEF StatementsExplained
  <1> QED
    BY <1>1, QueryInvariant, PTL


-----------------------------------------------------------------------------
(* Traces.                                                                 *)
(*                                                                         *)
(* The spans of a thread's trace are on its stack, the first of them at    *)
(* the bottom, and those that ended there ended below others (StackOf); a  *)
(* block that began a trace is open only while the trace is (BlocksOpen).  *)
(* What is to be stored is closed and whole, and until it is stored, one   *)
(* caller has it (RowsInv).                                                *)

TraceOps    == {"none", "log", "read", "rate", "delete"}
TracePlaces == {"idle", "called", "seeding", "ready", "asking", "asked"}
TraceCalls  == [op : TraceOps, trace : Traces \cup {NoSpan}, spans : SUBSET Spans, stored : BOOLEAN]

ContextTypes ==
    /\ scTrace \in [Contexts -> Spans \cup {NoSpan}] /\ scStack \in [Contexts -> Seq(Spans)]
    /\ scRecorded \in [Contexts -> SUBSET Spans] /\ spOpen \in [Tasks -> Seq(Spans)]
    /\ spTrace \in [Spans -> Spans \cup {NoSpan}] /\ spParent \in [Spans -> Spans \cup {NoSpan}]
    /\ spGiven \subseteq Spans /\ spEnded \subseteq Begun /\ spLate \subseteq Begun /\ spUneven \subseteq Spans

TableTypes ==
    /\ trAt \in [TraceCallers -> TracePlaces]
    /\ trCall \in [TraceCallers -> TraceCalls]
    /\ tbTraces \subseteq Traces /\ tbRated \subseteq Traces /\ tbSpans \in [Spans -> SUBSET Spans]
    /\ trRated \subseteq Traces /\ trDeleted \subseteq Traces /\ trRepeated \subseteq Traces \cup {NoSpan} /\ trReseeded \in BOOLEAN

InTrace(t, trace) == {s \in Spans : trace[s] = t}
ClosedTraces == {t \in Begun : \A h \in Contexts : scTrace[h] # t}

\* The numbers of spans are drawn in order.
BegunInv ==
    /\ Cardinality(Begun) \in Nat /\ Begun = 1..Cardinality(Begun)
    /\ \A s \in Begun : spTrace[s] \in Begun

StackOf(h) ==
    /\ scTrace[h] = NoSpan => scStack[h] = <<>>
    /\ scTrace[h] # NoSpan =>
           /\ scTrace[h] \in Begun /\ spTrace[scTrace[h]] = scTrace[h]
           /\ Len(scStack[h]) > 0 /\ scStack[h][1] = scTrace[h]
           /\ scRecorded[h] = InTrace(scTrace[h], spTrace)
    /\ \A i \in 1..Len(scStack[h]) :
           /\ scStack[h][i] \in Begun /\ spTrace[scStack[h][i]] = scTrace[h]
           /\ scStack[h][i] \in spEnded => scStack[h][i] \in spUneven
           /\ \A j \in 1..Len(scStack[h]) : scStack[h][i] = scStack[h][j] => i = j

StacksInv ==
    /\ \A h \in Contexts : StackOf(h)
    /\ \A h, g \in Contexts : scTrace[h] # NoSpan /\ scTrace[h] = scTrace[g] => h = g

BlocksOpen ==
    \A k \in Tasks : \A i \in 1..Len(spOpen[k]) :
        /\ spOpen[k][i] \in Begun
        /\ spTrace[spOpen[k][i]] = spOpen[k][i] => scTrace[Home[k]] = spOpen[k][i]
        /\ \A l \in Tasks : \A j \in 1..Len(spOpen[l]) : spOpen[k][i] = spOpen[l][j] => k = l /\ i = j

\* The second half of TracesAreTrees.
ParentsInv ==
    \A s \in Begun \ spGiven :
        /\ IF spParent[s] = NoSpan THEN spTrace[s] = s ELSE spParent[s] \in Begun /\ spTrace[spParent[s]] = spTrace[s]
        /\ s \in spLate => spParent[s] \in spUneven

SpansInv == ContextTypes /\ BegunInv /\ StacksInv /\ BlocksOpen /\ ParentsInv

\* The caller may still store the trace it was given first.
Claims(c) == trCall[c].op = "log" /\ ~trCall[c].stored /\ trAt[c] \in {"called", "seeding", "ready", "asking"}

RowsInv ==
    /\ \A c \in TraceCallers : trCall[c].op = "log" =>
           trCall[c].trace \in ClosedTraces /\ trCall[c].spans = InTrace(trCall[c].trace, spTrace)
    /\ \A t \in tbTraces \cap Spans : t \in ClosedTraces /\ tbSpans[t] = InTrace(t, spTrace)
    /\ \A t \in trDeleted \cap Spans : t \in ClosedTraces
    /\ trRated \subseteq tbTraces
    /\ tbTraces = {} => trDeleted \cap Demo = {}
    /\ \A c \in TraceCallers : Claims(c) /\ trCall[c].trace \notin trRepeated =>
           /\ trCall[c].trace \notin tbTraces \cup trDeleted
           /\ \A d \in TraceCallers : Claims(d) /\ trCall[d].trace = trCall[c].trace => d = c
    /\ RowsExplained

TracingInv == SpansInv /\ TableTypes /\ RowsInv

LEMMA TracingSets ==
    /\ Spans \subseteq Nat /\ 0 \notin Spans /\ NoSpan = 0 /\ NoSpan \notin Spans /\ MaxSpans \in Nat
    /\ \A k \in Tasks : Home[k] \in Contexts /\ k \in TraceCallers
    /\ Spans \cap Demo = {} /\ Spans \subseteq Traces /\ Demo \subseteq Traces /\ NoSpan \notin Traces /\ Demo # {}
    /\ Server \in TraceCallers /\ Server \notin Tasks
  BY TracingAssumption DEF Spans, NoSpan, Contexts, TraceCallers, Traces

LEMMA BegunSpans == ASSUME ContextTypes PROVE Begun \subseteq Spans
  BY DEF Begun

LEMMA SpansUntouched == SpansInv /\ UNCHANGED contextVars => SpansInv'
  <1> SUFFICES ASSUME SpansInv, UNCHANGED contextVars PROVE SpansInv'
    OBVIOUS
  <1>1. UNCHANGED <<scTrace, scStack, scRecorded, spOpen, spTrace, spParent, spGiven, spEnded, spLate, spUneven>>
    BY DEF contextVars
  <1>2. Begun' = Begun /\ \A t : InTrace(t, spTrace') = InTrace(t, spTrace)
    BY <1>1 DEF Begun, InTrace
  <1>3. ContextTypes' /\ BegunInv'
    BY <1>1, <1>2 DEF SpansInv, ContextTypes, BegunInv
  <1>4. StacksInv'
    BY <1>1, <1>2 DEF SpansInv, StacksInv, StackOf
  <1>5. BlocksOpen'
    BY <1>1, <1>2 DEF SpansInv, BlocksOpen
  <1>6. ParentsInv'
    BY <1>1, <1>2 DEF SpansInv, ParentsInv
  <1> QED
    BY <1>3, <1>4, <1>5, <1>6 DEF SpansInv

\* A span begins: number s of trace t, on a thread whose stack was st for it, under p.
Begins(k, given, s, t, p, st) ==
    /\ s = Cardinality(Begun) + 1
    /\ \/ scTrace[Home[k]] = NoSpan /\ t = s /\ st = <<>>
       \/ scTrace[Home[k]] = t /\ t # NoSpan /\ st = scStack[Home[k]]
    /\ p = IF given # NoSpan THEN given ELSE IF st = <<>> THEN NoSpan ELSE Last(st)
    /\ scTrace' = [scTrace EXCEPT ![Home[k]] = t]
    /\ scStack' = [scStack EXCEPT ![Home[k]] = Append(st, s)]
    /\ scRecorded' = [scRecorded EXCEPT ![Home[k]] = (IF t = s THEN {} ELSE @) \cup {s}]
    /\ spTrace' = [spTrace EXCEPT ![s] = t] /\ spParent' = [spParent EXCEPT ![s] = p]
    /\ spOpen' = [spOpen EXCEPT ![k] = Append(@, s)]
    /\ spGiven' = IF given = NoSpan THEN spGiven ELSE spGiven \cup {s}
    /\ spLate' = IF given = NoSpan /\ p \in spEnded THEN spLate \cup {s} ELSE spLate
    /\ UNCHANGED <<spEnded, spUneven>>

LEMMA Extended ==
    ASSUME NEW S, NEW q \in Seq(S), NEW x \in S
    PROVE  /\ Append(q, x) \in Seq(S) /\ Len(Append(q, x)) = Len(q) + 1 /\ Append(q, x)[Len(q) + 1] = x
           /\ Len(q) \in Nat /\ \A i \in 1..Len(q) : Append(q, x)[i] = q[i]
  OBVIOUS

LEMMA Shortened ==
    ASSUME NEW S, NEW q \in Seq(S), q # <<>>
    PROVE  /\ Len(q) \in Nat /\ Len(q) > 0 /\ Last(q) \in S /\ Last(q) = q[Len(q)]
           /\ Front(q) \in Seq(S) /\ Len(Front(q)) = Len(q) - 1 /\ \A i \in 1..Len(q) - 1 : Front(q)[i] = q[i]
  <1>1. Len(q) \in Nat /\ Len(q) > 0 /\ q[Len(q)] \in S
    OBVIOUS
  <1>2. Len(q) - 1 \in Nat /\ Len(q) - 1 <= Len(q)
    BY <1>1
  <1>3. Front(q) = SubSeq(q, 1, Len(q) - 1)
    BY DEF Front
  <1>4. SubSeq(q, 1, Len(q) - 1) \in Seq(S) /\ Len(SubSeq(q, 1, Len(q) - 1)) = Len(q) - 1
        /\ \A i \in 1..Len(q) - 1 : SubSeq(q, 1, Len(q) - 1)[i] = q[i]
    <2>0. \A n \in Nat : \A i \in 1..n - 1 : i \in 1..n /\ 1 + i - 1 = i
      OBVIOUS
    <2>a. \A i \in 1..Len(q) : q[i] \in S
      OBVIOUS
    <2>1. \A i \in 1..Len(q) - 1 : q[i] \in S /\ 1 + i - 1 = i
      BY <1>1, <2>0, <2>a
    <2>2. \A n \in Nat : n > 0 => n - 1 \in Int /\ (n - 1) - 1 + 1 = n - 1 /\ (IF 1 <= n - 1 THEN (n - 1) - 1 + 1 ELSE 0) = n - 1
      OBVIOUS
    <2> QED
      <3>1. Len(q) - 1 \in Int /\ (Len(q) - 1) - 1 + 1 = Len(q) - 1 /\ (IF 1 <= Len(q) - 1 THEN (Len(q) - 1) - 1 + 1 ELSE 0) = Len(q) - 1
        BY <1>1, <2>2
      <3>2. /\ SubSeq(q, 1, Len(q) - 1) \in Seq(S)
            /\ Len(SubSeq(q, 1, Len(q) - 1)) = IF 1 <= Len(q) - 1 THEN (Len(q) - 1) - 1 + 1 ELSE 0
            /\ \A i \in 1..(Len(q) - 1) - 1 + 1 : SubSeq(q, 1, Len(q) - 1)[i] = q[1 + i - 1]
        BY <2>1, <3>1, SubSeqProperties
      <3> QED
        BY <2>1, <3>1, <3>2
  <1> QED
    BY <1>1, <1>3, <1>4 DEF Last

LEMMA NextSpan ==
    ASSUME ContextTypes, BegunInv, NEW s \in Spans, s = Cardinality(Begun) + 1
    PROVE  s \notin Begun
  BY TracingSets DEF BegunInv

LEMMA BeginSays ==
    ASSUME SpansInv, NEW k \in Tasks, NEW given \in Spans \cup {NoSpan}, BeginSpan(k, given)
    PROVE  \E s \in Spans, t \in Spans, p \in Spans \cup {NoSpan}, st \in Seq(Spans) :
               s \notin Begun /\ Begins(k, given, s, t, p, st)
  <1> PICK h \in Contexts : h = Home[k]
    BY TracingSets
  <1>1. PICK s \in Spans : s = Cardinality(Begun) + 1
    BY DEF BeginSpan
  <1>2. s \notin Begun /\ s # NoSpan
    BY <1>1, NextSpan, TracingSets DEF SpansInv
  <1>3. CASE scTrace[h] = NoSpan
    <2>1. PICK p \in Spans \cup {NoSpan} : p = IF given # NoSpan THEN given ELSE NoSpan
      OBVIOUS
    <2>2. scTrace' = [scTrace EXCEPT ![h] = s] /\ scTrace'[h] = s
      BY <1>1, <1>3 DEF BeginSpan, SpansInv, ContextTypes
    <2>3. Begins(k, given, s, s, p, <<>>)
      BY <1>1, <1>3, <2>1, <2>2 DEF BeginSpan, Begins, NewStack
    <2>4. <<>> \in Seq(Spans)
      OBVIOUS
    <2> QED
      BY <1>2, <2>1, <2>3, <2>4
  <1>4. CASE scTrace[h] # NoSpan
    <2>1. PICK t \in Spans, st \in Seq(Spans) : t = scTrace[h] /\ st = scStack[h]
      BY <1>4 DEF SpansInv, ContextTypes
    <2>2. st # <<>>
      BY <1>4, <2>1 DEF SpansInv, StacksInv, StackOf
    <2>3. Last(st) \in Spans
      BY <2>1, <2>2, Shortened
    <2>4. PICK p \in Spans \cup {NoSpan} : p = IF given # NoSpan THEN given ELSE Last(st)
      BY <2>3
    <2>5. scTrace' = scTrace /\ scTrace' = [scTrace EXCEPT ![h] = t] /\ scTrace'[h] = t
      BY <1>1, <1>4, <2>1 DEF BeginSpan, SpansInv, ContextTypes
    <2>6. t # s
      BY <1>2, <1>4, <2>1 DEF SpansInv, StacksInv, StackOf
    <2>7. Begins(k, given, s, t, p, st)
      BY <1>1, <1>4, <2>1, <2>2, <2>4, <2>5, <2>6, TracingSets DEF BeginSpan, Begins
    <2> QED
      BY <1>2, <2>7
  <1> QED
    BY <1>3, <1>4

\* The numbers of the spans, and the traces, after number s was given to trace t.
LEMMA BeginsBegun ==
    ASSUME ContextTypes, BegunInv, NEW s \in Spans, s = Cardinality(Begun) + 1, s \notin Begun,
           NEW t \in Spans, t = s \/ t \in Begun, spTrace' = [spTrace EXCEPT ![s] = t]
    PROVE  /\ Begun' = Begun \cup {s} /\ BegunInv'
           /\ \A x \in Spans : spTrace'[x] = IF x = s THEN t ELSE spTrace[x]
  <1> USE TracingSets
  <1>1. spTrace \in [Spans -> Spans \cup {NoSpan}]
    BY DEF ContextTypes
  <1>2. Begun' = Begun \cup {s} /\ Begun \subseteq Spans
    BY <1>1 DEF Begun
  <1>3. \A x \in Spans : spTrace'[x] = IF x = s THEN t ELSE spTrace[x]
    BY <1>1
  <1>4. t \in Begun'
    BY <1>2
  <1>5. BegunInv'
    <2>1. Cardinality(Begun) \in Nat /\ Begun = 1..Cardinality(Begun)
      BY DEF BegunInv
    <2>2. Begun' = 1..(Cardinality(Begun) + 1)
      BY <1>1, <1>2, <2>1
    <2>3. Cardinality(Begun') = Cardinality(Begun) + 1
      BY <2>1, <2>2, FS_Interval
    <2>4. \A x \in Begun' : spTrace'[x] \in Begun'
      BY <1>2, <1>3, <1>4 DEF BegunInv
    <2> QED
      BY <2>1, <2>2, <2>3, <2>4 DEF BegunInv
  <1> QED
    BY <1>2, <1>3, <1>5

LEMMA UnbegunApart ==
    ASSUME ContextTypes, BegunInv, NEW s \in Spans, s \notin Begun
    PROVE  spTrace[s] = NoSpan /\ \A x \in Spans : spTrace[x] # s
  <1>1. spTrace[s] = NoSpan
    BY DEF Begun
  <1>2. \A x \in Spans : spTrace[x] # s
    BY TracingSets DEF BegunInv, Begun
  <1> QED
    BY <1>1, <1>2

LEMMA BeginsSays ==
    ASSUME SpansInv, NEW k \in Tasks, NEW given, NEW s \in Spans, NEW t \in Spans, NEW p, NEW st,
           s \notin Begun, Begins(k, given, s, t, p, st)
    PROVE  (t = s /\ st = <<>> /\ scTrace[Home[k]] = NoSpan) \/ (scTrace[Home[k]] = t /\ t \in Begun /\ t # s /\ st = scStack[Home[k]])
  <1>1. Home[k] \in Contexts
    BY TracingSets
  <1>2. scTrace[Home[k]] # NoSpan => scTrace[Home[k]] \in Begun
    BY <1>1 DEF SpansInv, StacksInv, StackOf
  <1> QED
    BY <1>2 DEF Begins

LEMMA BeginsNumbers ==
    ASSUME SpansInv, NEW k \in Tasks, NEW given, NEW s \in Spans, NEW t \in Spans, NEW p, NEW st,
           s \notin Begun, Begins(k, given, s, t, p, st)
    PROVE  /\ Begun' = Begun \cup {s} /\ BegunInv'
           /\ \A x \in Spans : spTrace'[x] = IF x = s THEN t ELSE spTrace[x]
  <1>1. t = s \/ t \in Begun
    BY BeginsSays
  <1>2. s = Cardinality(Begun) + 1 /\ spTrace' = [spTrace EXCEPT ![s] = t]
    BY DEF Begins
  <1> QED
    BY <1>1, <1>2, BeginsBegun DEF SpansInv

LEMMA BeginsTypes ==
    ASSUME SpansInv, NEW k \in Tasks, NEW given \in Spans \cup {NoSpan}, NEW s \in Spans, NEW t \in Spans,
           NEW p \in Spans \cup {NoSpan}, NEW st \in Seq(Spans),
           s \notin Begun, Begins(k, given, s, t, p, st)
    PROVE  ContextTypes'
  <1> PICK h \in Contexts : h = Home[k]
    BY TracingSets
  <1>1. scTrace' \in [Contexts -> Spans \cup {NoSpan}] /\ scRecorded' \in [Contexts -> SUBSET Spans]
    BY DEF Begins, SpansInv, ContextTypes
  <1>2. scStack' \in [Contexts -> Seq(Spans)] /\ spOpen' \in [Tasks -> Seq(Spans)]
    <2>1. Append(st, s) \in Seq(Spans) /\ Append(spOpen[k], s) \in Seq(Spans)
      BY Extended DEF SpansInv, ContextTypes
    <2> QED
      BY <2>1 DEF Begins, SpansInv, ContextTypes
  <1>3. spTrace' \in [Spans -> Spans \cup {NoSpan}] /\ spParent' \in [Spans -> Spans \cup {NoSpan}]
    BY DEF Begins, SpansInv, ContextTypes
  <1>4. spGiven' \subseteq Spans /\ spEnded' \subseteq Begun' /\ spLate' \subseteq Begun' /\ spUneven' \subseteq Spans
    <2>1. Begun' = Begun \cup {s}
      BY BeginsNumbers
    <2> QED
      BY <2>1 DEF Begins, SpansInv, ContextTypes
  <1> QED
    BY <1>1, <1>2, <1>3, <1>4 DEF ContextTypes

LEMMA BeginsStacks ==
    ASSUME SpansInv, NEW k \in Tasks, NEW given \in Spans \cup {NoSpan}, NEW s \in Spans, NEW t \in Spans,
           NEW p \in Spans \cup {NoSpan}, NEW st \in Seq(Spans),
           s \notin Begun, Begins(k, given, s, t, p, st)
    PROVE  StacksInv'
  <1> PICK h \in Contexts : h = Home[k]
    BY TracingSets
  <1>1. /\ scTrace'[h] = t /\ scStack'[h] = Append(st, s) /\ scRecorded'[h] = (IF t = s THEN {} ELSE scRecorded[h]) \cup {s}
        /\ \A g \in Contexts : g # h => scTrace'[g] = scTrace[g] /\ scStack'[g] = scStack[g] /\ scRecorded'[g] = scRecorded[g]
        /\ UNCHANGED <<spEnded, spUneven>>
    BY DEF Begins, SpansInv, ContextTypes
  <1>2. /\ Begun' = Begun \cup {s} /\ spTrace'[s] = t /\ \A x \in Begun : spTrace'[x] = spTrace[x]
        /\ \A x \in Spans : x # s => spTrace'[x] = spTrace[x]
        /\ spTrace[s] = NoSpan /\ \A x \in Spans : spTrace[x] # s
    <2>0. Begun' = Begun \cup {s}
      BY BeginsNumbers
    <2>1. \A x \in Spans : spTrace'[x] = IF x = s THEN t ELSE spTrace[x]
      BY DEF Begins, SpansInv, ContextTypes
    <2>2. Begun \subseteq Spans /\ ContextTypes /\ BegunInv
      BY BegunSpans DEF SpansInv
    <2>3. spTrace[s] = NoSpan /\ \A x \in Spans : spTrace[x] # s
      BY <2>2, UnbegunApart
    <2> QED
      BY <2>0, <2>1, <2>2, <2>3
  <1>a. InTrace(t, spTrace') = InTrace(t, spTrace) \cup {s} /\ (t = s => InTrace(t, spTrace) = {})
    BY <1>2 DEF InTrace
  <1>b. \A u \in Spans : u # t => InTrace(u, spTrace') = InTrace(u, spTrace)
    BY <1>2, TracingSets DEF InTrace
  <1>3. (t = s /\ st = <<>>) \/ (scTrace[h] = t /\ t \in Begun /\ t # s /\ st = scStack[h])
    BY BeginsSays
  <1>4. \A g \in Contexts : g # h => scTrace[g] # t
    <2>1. \A g \in Contexts : scTrace[g] # NoSpan => scTrace[g] \in Begun
      BY DEF SpansInv, StacksInv, StackOf
    <2> QED
      BY <1>3, <2>1, TracingSets DEF SpansInv, StacksInv
  <1>5. /\ \A g, f \in Contexts : scTrace'[g] # NoSpan /\ scTrace'[g] = scTrace'[f] => g = f
    BY <1>1, <1>4 DEF SpansInv, StacksInv
  <1>6. ASSUME NEW g \in Contexts, g # h PROVE StackOf(g)'
    <2>1. StackOf(g) /\ scTrace[g] # t /\ scTrace'[g] = scTrace[g] /\ scStack'[g] = scStack[g] /\ scRecorded'[g] = scRecorded[g]
      BY <1>1, <1>4, <1>6 DEF SpansInv, StacksInv
    <2>2. scTrace[g] # NoSpan => InTrace(scTrace[g], spTrace') = InTrace(scTrace[g], spTrace)
      <3>1. scTrace[g] # NoSpan => scTrace[g] \in Spans
        BY DEF SpansInv, ContextTypes
      <3> QED
        BY <1>b, <2>1, <3>1
    <2>3. \A x \in Begun : x \in Begun' /\ spTrace'[x] = spTrace[x]
      BY <1>2
    <2> QED
      BY <1>1, <2>1, <2>2, <2>3 DEF StackOf
  <1>7. StackOf(h)'
    <2> DEFINE q == Append(st, s)
    <2>1. q \in Seq(Spans) /\ Len(q) = Len(st) + 1 /\ q[Len(st) + 1] = s /\ Len(st) \in Nat /\ \A i \in 1..Len(st) : q[i] = st[i]
      BY Extended
    <2>2. /\ Len(q) > 0 /\ q[1] = t
      <3>1. CASE t = s /\ st = <<>>
        BY <2>1, <3>1
      <3>2. CASE scTrace[h] = t /\ t \in Begun /\ t # s /\ st = scStack[h]
        <4>1. Len(st) > 0 /\ st[1] = t
          BY <3>2, TracingSets DEF SpansInv, StacksInv, StackOf
        <4> QED
          BY <2>1, <4>1
      <3> QED
        BY <1>3, <3>1, <3>2
    <2>3. t \in Begun' /\ spTrace'[t] = t /\ t # NoSpan
      BY <1>2, <1>3, TracingSets DEF SpansInv, StacksInv, StackOf
    <2>4. (IF t = s THEN {} ELSE scRecorded[h]) \cup {s} = InTrace(t, spTrace')
      BY <1>a, <1>3, TracingSets DEF SpansInv, StacksInv, StackOf
    <2>5. \A i \in 1..Len(st) : /\ st[i] \in Begun /\ spTrace[st[i]] = t
                                /\ st[i] \in spEnded => st[i] \in spUneven
                                /\ \A j \in 1..Len(st) : st[i] = st[j] => i = j
      BY <1>3 DEF SpansInv, StacksInv, StackOf
    <2>6. s \notin spEnded
      BY DEF SpansInv, ContextTypes
    <2>7. ASSUME NEW i \in 1..Len(q)
          PROVE  /\ q[i] \in Begun' /\ spTrace'[q[i]] = t
                 /\ q[i] \in spEnded => q[i] \in spUneven
                 /\ \A j \in 1..Len(q) : q[i] = q[j] => i = j
      BY <1>2, <2>1, <2>5, <2>6
    <2> HIDE DEF q
    <2>8. scStack'[h] = q
      BY <1>1 DEF q
    <2> QED
      BY <1>1, <2>2, <2>3, <2>4, <2>7, <2>8 DEF StackOf
  <1> QED
    BY <1>5, <1>6, <1>7 DEF StacksInv

LEMMA BeginsBlocks ==
    ASSUME SpansInv, NEW k \in Tasks, NEW given \in Spans \cup {NoSpan}, NEW s \in Spans, NEW t \in Spans,
           NEW p \in Spans \cup {NoSpan}, NEW st \in Seq(Spans),
           s \notin Begun, Begins(k, given, s, t, p, st)
    PROVE  BlocksOpen'
  <1> PICK h \in Contexts : h = Home[k]
    BY TracingSets
  <1>1. /\ scTrace'[h] = t /\ (scTrace[h] = NoSpan \/ scTrace[h] = t) /\ \A g \in Contexts : g # h => scTrace'[g] = scTrace[g]
        /\ spOpen'[k] = Append(spOpen[k], s) /\ \A l \in Tasks : l # k => spOpen'[l] = spOpen[l]
        /\ spOpen[k] \in Seq(Spans)
    BY DEF Begins, SpansInv, ContextTypes
  <1>2. /\ Begun' = Begun \cup {s} /\ spTrace'[s] = t /\ \A x \in Begun : spTrace'[x] = spTrace[x]
    <2>0. Begun' = Begun \cup {s}
      BY BeginsNumbers
    <2>1. \A x \in Spans : spTrace'[x] = IF x = s THEN t ELSE spTrace[x]
      BY DEF Begins, SpansInv, ContextTypes
    <2>2. Begun \subseteq Spans
      BY BegunSpans DEF SpansInv
    <2> QED
      BY <2>0, <2>1, <2>2
  <1> DEFINE q == Append(spOpen[k], s)
             n == Len(spOpen[k])
  <1>3. Len(q) = n + 1 /\ q[n + 1] = s /\ n \in Nat /\ \A i \in 1..n : q[i] = spOpen[k][i]
    BY <1>1, Extended
  <1>4. \A l \in Tasks : \A i \in 1..Len(spOpen[l]) :
          /\ spOpen[l][i] \in Begun
          /\ spTrace[spOpen[l][i]] = spOpen[l][i] => scTrace[Home[l]] = spOpen[l][i]
          /\ \A m \in Tasks : \A j \in 1..Len(spOpen[m]) : spOpen[l][i] = spOpen[m][j] => l = m /\ i = j
    BY DEF SpansInv, BlocksOpen
  \* What is open after the step was open, or is s.
  <1>5. ASSUME NEW l \in Tasks, NEW i \in 1..Len(spOpen'[l])
        PROVE  \/ i \in 1..Len(spOpen[l]) /\ spOpen'[l][i] = spOpen[l][i]
               \/ l = k /\ i = n + 1 /\ spOpen'[l][i] = s
    <2>0. spOpen'[k] = q /\ \A m \in Tasks : m # k => spOpen'[m] = spOpen[m]
      BY <1>1
    <2>1. CASE l # k
      BY <2>0, <2>1
    <2>2. CASE l = k
      <3> HIDE DEF q
      <3>1. i \in 1..(n + 1) /\ spOpen'[l][i] = q[i]
        BY <2>0, <2>2, <1>3
      <3> HIDE DEF n
      <3>2. i \in 1..n \/ i = n + 1
        BY <3>1, <1>3
      <3> QED
        BY <3>1, <3>2, <2>2, <1>3 DEF n
    <2> QED
      BY <2>1, <2>2
  <1> HIDE DEF q, n
  <1> SUFFICES ASSUME NEW l \in Tasks, NEW i \in 1..Len(spOpen'[l])
               PROVE  /\ spOpen'[l][i] \in Begun'
                      /\ spTrace'[spOpen'[l][i]] = spOpen'[l][i] => scTrace'[Home[l]] = spOpen'[l][i]
                      /\ \A m \in Tasks : \A j \in 1..Len(spOpen'[m]) : spOpen'[l][i] = spOpen'[m][j] => l = m /\ i = j
    BY DEF BlocksOpen
  <1>6. spOpen'[l][i] \in Begun'
    BY <1>2, <1>4, <1>5
  <1>7. spTrace'[spOpen'[l][i]] = spOpen'[l][i] => scTrace'[Home[l]] = spOpen'[l][i]
    <2>1. CASE i \in 1..Len(spOpen[l]) /\ spOpen'[l][i] = spOpen[l][i]
      <3>1. spTrace[spOpen[l][i]] = spOpen[l][i] => scTrace[Home[l]] = spOpen[l][i] /\ scTrace[Home[l]] # NoSpan
        BY <1>4, <2>1, TracingSets, BegunSpans DEF SpansInv
      <3>2. scTrace[Home[l]] # NoSpan => scTrace'[Home[l]] = scTrace[Home[l]]
        BY <1>1, TracingSets
      <3> QED
        BY <1>2, <1>4, <2>1, <3>1, <3>2
    <2>2. CASE l = k /\ i = n + 1 /\ spOpen'[l][i] = s
      BY <1>1, <1>2, <2>2
    <2> QED
      BY <1>5, <2>1, <2>2
  <1>8. \A m \in Tasks : \A j \in 1..Len(spOpen'[m]) : spOpen'[l][i] = spOpen'[m][j] => l = m /\ i = j
    BY <1>4, <1>5
  <1> QED
    BY <1>6, <1>7, <1>8

LEMMA BeginsParents ==
    ASSUME SpansInv, NEW k \in Tasks, NEW given \in Spans \cup {NoSpan}, NEW s \in Spans, NEW t \in Spans,
           NEW p \in Spans \cup {NoSpan}, NEW st \in Seq(Spans),
           s \notin Begun, Begins(k, given, s, t, p, st)
    PROVE  ParentsInv'
  <1> PICK h \in Contexts : h = Home[k]
    BY TracingSets
  <1>1. /\ Begun' = Begun \cup {s} /\ spTrace'[s] = t /\ \A x \in Begun : spTrace'[x] = spTrace[x]
    <2>0. Begun' = Begun \cup {s}
      BY BeginsNumbers
    <2>1. \A x \in Spans : spTrace'[x] = IF x = s THEN t ELSE spTrace[x]
      BY DEF Begins, SpansInv, ContextTypes
    <2>2. Begun \subseteq Spans
      BY BegunSpans DEF SpansInv
    <2> QED
      BY <2>0, <2>1, <2>2
  <1>2. /\ spParent'[s] = p /\ \A x \in Spans : x # s => spParent'[x] = spParent[x]
        /\ spUneven' = spUneven /\ \A x \in Spans : x # s => (x \in spGiven' <=> x \in spGiven) /\ (x \in spLate' <=> x \in spLate)
        /\ given # NoSpan => s \in spGiven'
        /\ s \in spLate' => p \in spEnded
    BY DEF Begins, SpansInv, ContextTypes
  <1>3. ASSUME given = NoSpan
        PROVE  /\ IF p = NoSpan THEN t = s ELSE p \in Begun /\ spTrace[p] = t
               /\ p \in spEnded => p \in spUneven
    <2>1. CASE t = s /\ st = <<>>
      <3>1. p = NoSpan /\ NoSpan \notin spEnded
        BY <1>3, <2>1, TracingSets, BegunSpans DEF Begins, SpansInv, ContextTypes
      <3> QED
        BY <2>1, <3>1
    <2>2. CASE scTrace[h] = t /\ t # NoSpan /\ st = scStack[h]
      <3>1. st # <<>> /\ StackOf(h)
        BY <2>2 DEF SpansInv, StacksInv, StackOf
      <3>2. p = Last(st)
        BY <1>3, <3>1 DEF Begins
      <3>3. Last(st) = st[Len(st)] /\ Len(st) \in 1..Len(st)
        BY <3>1, Shortened DEF Last
      <3>4. p \in Begun /\ spTrace[p] = t /\ (p \in spEnded => p \in spUneven)
        BY <2>2, <3>1, <3>2, <3>3 DEF StackOf
      <3> QED
        BY <3>4, TracingSets, BegunSpans DEF SpansInv
    <2> QED
      BY <2>1, <2>2 DEF Begins
  <1> SUFFICES ASSUME NEW x \in Begun' \ spGiven'
               PROVE  /\ IF spParent'[x] = NoSpan THEN spTrace'[x] = x
                         ELSE spParent'[x] \in Begun' /\ spTrace'[spParent'[x]] = spTrace'[x]
                      /\ x \in spLate' => spParent'[x] \in spUneven'
    BY DEF ParentsInv
  <1>5. CASE x = s
    BY <1>1, <1>2, <1>3, <1>5
  <1>6. CASE x # s
    <2>1. x \in Begun \ spGiven /\ x \in Spans /\ spParent'[x] = spParent[x]
      BY <1>1, <1>2, <1>6, BegunSpans DEF SpansInv
    <2> QED
      BY <1>1, <1>2, <1>6, <2>1 DEF SpansInv, ParentsInv
  <1> QED
    BY <1>5, <1>6

LEMMA BeginKept ==
    ASSUME SpansInv, NEW k \in Tasks, NEW given \in Spans \cup {NoSpan}, BeginSpan(k, given)
    PROVE  SpansInv' /\ \A u \in Spans : u \in ClosedTraces => u \in ClosedTraces' /\ InTrace(u, spTrace') = InTrace(u, spTrace)
  <1>1. PICK s \in Spans, t \in Spans, p \in Spans \cup {NoSpan}, st \in Seq(Spans) :
            s \notin Begun /\ Begins(k, given, s, t, p, st)
    BY BeginSays
  <1>2. ContextTypes' /\ StacksInv' /\ BlocksOpen' /\ ParentsInv'
    BY <1>1, BeginsTypes, BeginsStacks, BeginsBlocks, BeginsParents
  <1>3. Begun' = Begun \cup {s} /\ BegunInv'
    BY <1>1, BeginsNumbers
  <1>4. SpansInv'
    BY <1>2, <1>3 DEF SpansInv
  <1>5. ASSUME NEW u \in Spans, u \in ClosedTraces
        PROVE  u \in ClosedTraces' /\ InTrace(u, spTrace') = InTrace(u, spTrace)
    <2>1. u # t
      <3>1. t = s \/ scTrace[Home[k]] = t
        BY <1>1, BeginsSays
      <3> QED
        BY <1>1, <1>5, <3>1, TracingSets DEF ClosedTraces
    <2>2. \A h \in Contexts : scTrace'[h] # u
      BY <1>1, <1>5, <2>1 DEF Begins, SpansInv, ContextTypes, ClosedTraces
    <2>3. u \in ClosedTraces'
      BY <1>3, <1>5, <2>2 DEF ClosedTraces
    <2>4. \A x \in Spans : spTrace'[x] = IF x = s THEN t ELSE spTrace[x]
      BY <1>1 DEF Begins, SpansInv, ContextTypes
    <2>5. spTrace[s] # u
      BY <1>1, TracingSets DEF Begun
    <2>6. \A x \in Spans : spTrace'[x] = u <=> spTrace[x] = u
      BY <2>1, <2>4, <2>5
    <2> QED
      BY <2>3, <2>6 DEF InTrace
  <1> QED
    BY <1>4, <1>5

\* A span ends: s, the last of the blocks task k is in; it was on top of its thread's stack or not.
Ends(k, s, top) ==
    /\ Len(spOpen[k]) > 0 /\ s = spOpen[k][Len(spOpen[k])]
    /\ top <=> Len(scStack[Home[k]]) > 0 /\ scStack[Home[k]][Len(scStack[Home[k]])] = s
    /\ spOpen' = [spOpen EXCEPT ![k] = Front(@)] /\ spEnded' = spEnded \cup {s}
    /\ spUneven' = IF top THEN spUneven ELSE spUneven \cup {s}
    /\ scTrace' = IF spTrace[s] = s THEN [scTrace EXCEPT ![Home[k]] = NoSpan] ELSE scTrace
    /\ scStack' = IF spTrace[s] = s THEN [scStack EXCEPT ![Home[k]] = <<>>]
                  ELSE [scStack EXCEPT ![Home[k]] = IF top THEN Front(@) ELSE @]
    /\ scRecorded' = IF spTrace[s] = s THEN [scRecorded EXCEPT ![Home[k]] = {}] ELSE scRecorded
    /\ UNCHANGED <<spTrace, spParent, spGiven, spLate>>

LEMMA EndSays ==
    ASSUME SpansInv, NEW k \in Tasks, EndSpan(k)
    PROVE  \E s \in Spans, top \in BOOLEAN :
               /\ s \in Begun /\ Ends(k, s, top) /\ (spTrace[s] = s => scTrace[Home[k]] = s)
               /\ IF spTrace[s] = s
                  THEN /\ trAt' = [trAt EXCEPT ![k] = "called"]
                       /\ trCall' = [trCall EXCEPT ![k] =
                                        [op |-> "log", trace |-> s, spans |-> scRecorded[Home[k]], stored |-> FALSE]]
                  ELSE UNCHANGED <<trAt, trCall>>
  <1> PICK h \in Contexts : h = Home[k]
    BY TracingSets
  <1>1. PICK q \in Seq(Spans), st \in Seq(Spans) : q = spOpen[k] /\ st = scStack[h]
    BY DEF SpansInv, ContextTypes
  <1>2. q # <<>>
    BY <1>1 DEF EndSpan
  <1>3. PICK s \in Spans : s = Last(q)
    BY <1>2, Shortened
  <1>4. Len(q) > 0 /\ s = q[Len(q)] /\ Len(q) \in 1..Len(q)
    BY <1>2, <1>3, Shortened
  <1>5. s \in Begun /\ (spTrace[s] = s => scTrace[h] = s)
    BY <1>1, <1>4 DEF SpansInv, BlocksOpen
  <1>6. PICK top \in BOOLEAN : top <=> st # <<>> /\ Last(st) = s
    OBVIOUS
  <1>7. (st # <<>> <=> Len(st) > 0) /\ Last(st) = st[Len(st)]
    BY DEF Last
  <1>8. Ends(k, s, top)
    BY <1>1, <1>3, <1>4, <1>6, <1>7 DEF EndSpan, Ends, NewStack
  <1>9. IF spTrace[s] = s
        THEN /\ trAt' = [trAt EXCEPT ![k] = "called"]
             /\ trCall' = [trCall EXCEPT ![k] = [op |-> "log", trace |-> s, spans |-> scRecorded[h], stored |-> FALSE]]
        ELSE UNCHANGED <<trAt, trCall>>
    BY <1>1, <1>3, <1>5 DEF EndSpan
  <1> QED
    BY <1>5, <1>8, <1>9

LEMMA EndsTypes ==
    ASSUME SpansInv, NEW k \in Tasks, NEW s \in Begun, NEW top, Ends(k, s, top)
    PROVE  Begun' = Begun /\ ContextTypes' /\ BegunInv' /\ ParentsInv'
  <1> PICK h \in Contexts : h = Home[k]
    BY TracingSets
  <1>1. Begun' = Begun
    BY DEF Ends, Begun
  <1>2. spOpen[k] \in Seq(Spans) /\ Len(spOpen[k]) > 0 /\ scStack[h] \in Seq(Spans) /\ s \in Spans
    BY BegunSpans DEF Ends, SpansInv, ContextTypes
  <1>3. Front(spOpen[k]) \in Seq(Spans) /\ (top => Front(scStack[h]) \in Seq(Spans)) /\ <<>> \in Seq(Spans)
    <2>1. spOpen[k] # <<>> /\ (top => scStack[h] # <<>>)
      BY <1>2 DEF Ends
    <2> QED
      BY <1>2, <2>1, Shortened
  <1>4. spOpen' \in [Tasks -> Seq(Spans)]
    BY <1>3 DEF Ends, SpansInv, ContextTypes
  <1>5. scStack' \in [Contexts -> Seq(Spans)]
    BY <1>2, <1>3 DEF Ends, SpansInv, ContextTypes
  <1>6. scTrace' \in [Contexts -> Spans \cup {NoSpan}] /\ scRecorded' \in [Contexts -> SUBSET Spans]
    BY DEF Ends, SpansInv, ContextTypes
  <1>7. ContextTypes'
    BY <1>1, <1>2, <1>4, <1>5, <1>6 DEF Ends, SpansInv, ContextTypes
  <1>8. BegunInv'
    BY <1>1 DEF Ends, SpansInv, BegunInv
  <1>9. ParentsInv'
    BY <1>1 DEF Ends, SpansInv, ParentsInv
  <1> QED
    BY <1>1, <1>7, <1>8, <1>9

LEMMA EndsStacks ==
    ASSUME SpansInv, NEW k \in Tasks, NEW s \in Begun, NEW top, Ends(k, s, top), spTrace[s] = s => scTrace[Home[k]] = s
    PROVE  StacksInv'
  <1> PICK h \in Contexts : h = Home[k]
    BY TracingSets
  <1>1. /\ Begun' = Begun /\ UNCHANGED spTrace /\ s \in Spans /\ s # NoSpan /\ spTrace[s] # NoSpan
    BY BegunSpans, TracingSets DEF Ends, Begun, SpansInv
  <1>2. /\ \A g \in Contexts : g # h => scTrace'[g] = scTrace[g] /\ scStack'[g] = scStack[g] /\ scRecorded'[g] = scRecorded[g]
        /\ IF spTrace[s] = s THEN scTrace'[h] = NoSpan /\ scStack'[h] = <<>>
           ELSE scTrace' = scTrace /\ scRecorded' = scRecorded /\ scStack'[h] = IF top THEN Front(scStack[h]) ELSE scStack[h]
        /\ spEnded' = spEnded \cup {s} /\ spUneven' = IF top THEN spUneven ELSE spUneven \cup {s}
        /\ top => Len(scStack[h]) > 0 /\ scStack[h][Len(scStack[h])] = s
    BY DEF Ends, SpansInv, ContextTypes
  <1>3. \A g, f \in Contexts : scTrace'[g] # NoSpan /\ scTrace'[g] = scTrace'[f] => g = f
    BY <1>2 DEF SpansInv, StacksInv
  <1>4. \A g \in Contexts : \A i \in 1..Len(scStack[g]) :
          /\ scStack[g][i] \in Begun /\ spTrace[scStack[g][i]] = scTrace[g]
          /\ scStack[g][i] \in spEnded => scStack[g][i] \in spUneven
          /\ \A j \in 1..Len(scStack[g]) : scStack[g][i] = scStack[g][j] => i = j
    BY DEF SpansInv, StacksInv, StackOf
  <1>5. /\ scStack[h] \in Seq(Spans) /\ Len(scStack[h]) \in Nat
    BY DEF SpansInv, ContextTypes
  <1>6. ASSUME NEW g \in Contexts, g # h PROVE StackOf(g)'
    <2>1. StackOf(g) /\ scTrace'[g] = scTrace[g] /\ scStack'[g] = scStack[g] /\ scRecorded'[g] = scRecorded[g]
      BY <1>2, <1>6 DEF SpansInv, StacksInv
    <2>2. ASSUME NEW i \in 1..Len(scStack[g]), scStack[g][i] \in spEnded' PROVE scStack[g][i] \in spUneven'
      <3>1. CASE scStack[g][i] = s
        <4>1. spTrace[s] = scTrace[g] /\ scTrace[g] # NoSpan
          BY <1>1, <1>4, <3>1
        <4>2. scTrace[h] # scTrace[g]
          BY <1>6, <4>1 DEF SpansInv, StacksInv
        <4>3. spTrace[s] # s
          BY <4>1, <4>2
        <4>4. ~top
          <5>1. top => Len(scStack[h]) \in 1..Len(scStack[h])
            BY <1>2, <1>5
          <5>2. top => spTrace[s] = scTrace[h]
            BY <1>2, <1>4, <5>1
          <5> QED
            BY <4>1, <4>2, <5>2
        <4> QED
          BY <1>2, <3>1, <4>4
      <3>2. CASE scStack[g][i] # s
        BY <1>2, <1>4, <2>2, <3>2
      <3> QED
        BY <3>1, <3>2
    <2> QED
      BY <1>1, <2>1, <2>2 DEF StackOf
  <1>7. StackOf(h)'
    <2>1. CASE spTrace[s] = s
      <3>1. scTrace'[h] = NoSpan /\ scStack'[h] = <<>> /\ Len(scStack'[h]) = 0
        BY <1>2, <2>1
      <3>2. 1..0 = {}
        OBVIOUS
      <3> QED
        BY <3>1, <3>2 DEF StackOf
    <2>2. CASE spTrace[s] # s /\ ~top
      <3>1. StackOf(h) /\ scTrace' = scTrace /\ scRecorded' = scRecorded /\ scStack'[h] = scStack[h] /\ spUneven' = spUneven \cup {s}
        BY <1>2, <2>2 DEF SpansInv, StacksInv
      <3> QED
        BY <1>1, <1>2, <3>1 DEF StackOf
    <2>3. CASE spTrace[s] # s /\ top
      <3>1. StackOf(h) /\ scTrace' = scTrace /\ scRecorded' = scRecorded /\ spUneven' = spUneven /\ scStack'[h] = Front(scStack[h])
        BY <1>2, <2>3 DEF SpansInv, StacksInv
      <3>2. PICK st \in Seq(Spans), n \in Nat : st = scStack[h] /\ n = Len(st) /\ n > 0 /\ st[n] = s
        BY <1>2, <1>5, <2>3
      <3>3. st # <<>>
        BY <3>2
      <3>4. PICK q \in Seq(Spans) : q = Front(st) /\ Len(q) = n - 1 /\ \A i \in 1..n - 1 : q[i] = st[i]
        <4>1. Front(st) \in Seq(Spans) /\ Len(Front(st)) = Len(st) - 1 /\ \A i \in 1..Len(st) - 1 : Front(st)[i] = st[i]
          BY <3>3, Shortened
        <4> QED
          BY <3>2, <4>1
      <3>5. scTrace[h] # NoSpan /\ st[1] = scTrace[h] /\ spTrace[scTrace[h]] = scTrace[h]
        BY <3>1, <3>2, <3>3 DEF StackOf
      <3>6. n # 1
        BY <2>3, <3>2, <3>5
      <3>7. Len(q) > 0 /\ q[1] = scTrace[h]
        <4>1. n - 1 > 0 /\ 1 \in 1..n - 1
          <5>1. \A m \in Nat : m > 0 /\ m # 1 => m - 1 > 0 /\ 1 \in 1..m - 1
            OBVIOUS
          <5> QED
            BY <3>2, <3>6, <5>1
        <4> QED
          BY <3>4, <3>5, <4>1
      <3>8. \A i \in 1..Len(q) : i \in 1..n /\ i # n /\ q[i] = st[i] /\ n \in 1..n
        BY <3>2, <3>4
      <3>9. ASSUME NEW i \in 1..Len(q)
            PROVE  /\ q[i] \in Begun /\ spTrace[q[i]] = scTrace[h] /\ (q[i] \in spEnded' => q[i] \in spUneven')
                   /\ \A j \in 1..Len(q) : q[i] = q[j] => i = j
        <4>1. q[i] # s
          BY <1>4, <3>2, <3>8
        <4> QED
          BY <1>2, <1>4, <3>1, <3>2, <3>8, <4>1
      <3>10. scTrace'[h] = scTrace[h] /\ scRecorded'[h] = scRecorded[h] /\ scStack'[h] = q /\ scTrace[h] # NoSpan
        BY <3>1, <3>2, <3>4, <3>5
      <3>11. scTrace[h] \in Begun' /\ spTrace'[scTrace[h]] = scTrace[h] /\ scRecorded[h] = InTrace(scTrace[h], spTrace')
        BY <1>1, <3>1, <3>5 DEF StackOf
      <3>12. \A i \in 1..Len(q) :
               /\ q[i] \in Begun' /\ spTrace'[q[i]] = scTrace[h] /\ (q[i] \in spEnded' => q[i] \in spUneven')
               /\ \A j \in 1..Len(q) : q[i] = q[j] => i = j
        BY <1>1, <3>9
      <3> QED
        BY <3>7, <3>10, <3>11, <3>12 DEF StackOf
    <2> QED
      BY <2>1, <2>2, <2>3
  <1> QED
    BY <1>3, <1>6, <1>7 DEF StacksInv

LEMMA EndsBlocks ==
    ASSUME SpansInv, NEW k \in Tasks, NEW s \in Begun, NEW top, Ends(k, s, top), spTrace[s] = s => scTrace[Home[k]] = s
    PROVE  BlocksOpen'
  <1> PICK h \in Contexts : h = Home[k]
    BY TracingSets
  <1>1. PICK q \in Seq(Spans), n \in Nat : q = spOpen[k] /\ n = Len(q) /\ n > 0 /\ q[n] = s
    BY DEF Ends, SpansInv, ContextTypes
  <1>2. Len(Front(q)) = n - 1 /\ \A i \in 1..n - 1 : Front(q)[i] = q[i]
    <2>1. q # <<>>
      BY <1>1
    <2>2. Len(Front(q)) = Len(q) - 1 /\ \A i \in 1..Len(q) - 1 : Front(q)[i] = q[i]
      BY <2>1, Shortened
    <2> QED
      BY <1>1, <2>2
  <1>3. spOpen'[k] = Front(q) /\ \A l \in Tasks : l # k => spOpen'[l] = spOpen[l]
    BY <1>1 DEF Ends, SpansInv, ContextTypes
  <1>4. n \in 1..n /\ \A i \in 1..n - 1 : i \in 1..n /\ i # n
    BY <1>1
  \* What is open after the step was open, and is not s.
  <1>5. ASSUME NEW l \in Tasks, NEW i \in 1..Len(spOpen'[l])
        PROVE  i \in 1..Len(spOpen[l]) /\ spOpen'[l][i] = spOpen[l][i] /\ (l # k \/ i # n)
    BY <1>1, <1>2, <1>3, <1>4
  <1>6. \A l \in Tasks : \A i \in 1..Len(spOpen[l]) :
          /\ spOpen[l][i] \in Begun
          /\ spTrace[spOpen[l][i]] = spOpen[l][i] => scTrace[Home[l]] = spOpen[l][i]
          /\ \A m \in Tasks : \A j \in 1..Len(spOpen[m]) : spOpen[l][i] = spOpen[m][j] => l = m /\ i = j
    BY DEF SpansInv, BlocksOpen
  <1>7. /\ Begun' = Begun /\ spTrace' = spTrace /\ \A g \in Contexts : scTrace'[g] = scTrace[g] \/ (g = h /\ spTrace[s] = s)
    BY EndsTypes DEF Ends, SpansInv, ContextTypes
  <1>8. ASSUME NEW l \in Tasks, NEW i \in 1..Len(spOpen'[l]), spTrace[spOpen[l][i]] = spOpen[l][i]
        PROVE  scTrace'[Home[l]] = spOpen[l][i]
    <2>1. i \in 1..Len(spOpen[l]) /\ scTrace[Home[l]] = spOpen[l][i] /\ Home[l] \in Contexts
      BY <1>5, <1>6, <1>8, TracingSets
    <2>2. spOpen[l][i] # s
      <3>1. n \in 1..Len(spOpen[k]) /\ spOpen[k][n] = s
        BY <1>1, <1>4
      <3>2. spOpen[l][i] = spOpen[k][n] => l = k /\ i = n
        BY <1>6, <2>1, <3>1
      <3> QED
        BY <1>5, <3>1, <3>2
    <2> QED
      BY <1>7, <2>1, <2>2
  <1>9. \A l \in Tasks : \A i \in 1..Len(spOpen'[l]) :
          /\ spOpen'[l][i] \in Begun /\ (spTrace[spOpen'[l][i]] = spOpen'[l][i] => scTrace'[Home[l]] = spOpen'[l][i])
    BY <1>5, <1>6, <1>8
  <1>10. \A l \in Tasks : \A i \in 1..Len(spOpen'[l]) :
            \A m \in Tasks : \A j \in 1..Len(spOpen'[m]) : spOpen'[l][i] = spOpen'[m][j] => l = m /\ i = j
    <2> SUFFICES ASSUME NEW l \in Tasks, NEW i \in 1..Len(spOpen'[l]), NEW m \in Tasks, NEW j \in 1..Len(spOpen'[m]),
                        spOpen'[l][i] = spOpen'[m][j]
                 PROVE  l = m /\ i = j
      OBVIOUS
    <2>1. i \in 1..Len(spOpen[l]) /\ spOpen'[l][i] = spOpen[l][i]
      BY <1>5
    <2>2. j \in 1..Len(spOpen[m]) /\ spOpen'[m][j] = spOpen[m][j]
      BY <1>5
    <2>3. spOpen[l][i] = spOpen[m][j]
      BY <2>1, <2>2
    <2>4. \A u \in Tasks : \A x \in 1..Len(spOpen[u]) : spOpen[l][i] = spOpen[u][x] => l = u /\ i = x
      BY <2>1 DEF SpansInv, BlocksOpen
    <2> QED
      BY <2>2, <2>3, <2>4
  <1> QED
    BY <1>7, <1>9, <1>10 DEF BlocksOpen

\* The end of a span leaves what was closed as it was, and closes the trace the span began.
LEMMA EndKept ==
    ASSUME SpansInv, NEW k \in Tasks, NEW s \in Begun, NEW top, Ends(k, s, top), spTrace[s] = s => scTrace[Home[k]] = s
    PROVE  /\ SpansInv'
           /\ \A u \in Spans : u \in ClosedTraces => u \in ClosedTraces' /\ InTrace(u, spTrace') = InTrace(u, spTrace)
           /\ spTrace[s] = s => s \in ClosedTraces' /\ s \notin ClosedTraces /\ scRecorded[Home[k]] = InTrace(s, spTrace')
  <1> PICK h \in Contexts : h = Home[k]
    BY TracingSets
  <1>1. Begun' = Begun /\ ContextTypes' /\ BegunInv' /\ ParentsInv' /\ StacksInv' /\ BlocksOpen'
    BY EndsTypes, EndsStacks, EndsBlocks
  <1>2. UNCHANGED spTrace /\ \A g \in Contexts : scTrace'[g] = IF spTrace[s] = s /\ g = h THEN NoSpan ELSE scTrace[g]
    BY DEF Ends, SpansInv, ContextTypes
  <1>3. s \in Spans /\ s # NoSpan /\ NoSpan \notin Spans
    BY BegunSpans, TracingSets DEF SpansInv
  <1>4. \A u \in Spans : u \in ClosedTraces => u \in ClosedTraces' /\ InTrace(u, spTrace') = InTrace(u, spTrace)
    BY <1>1, <1>2, <1>3 DEF ClosedTraces
  <1>5. ASSUME spTrace[s] = s PROVE s \in ClosedTraces' /\ s \notin ClosedTraces /\ scRecorded[h] = InTrace(s, spTrace')
    <2>1. scTrace[h] = s
      BY <1>5
    <2>2. \A g \in Contexts : g # h => scTrace[g] # s
      BY <1>3, <2>1 DEF SpansInv, StacksInv
    <2>3. scRecorded[h] = InTrace(s, spTrace)
      BY <1>3, <2>1 DEF SpansInv, StacksInv, StackOf
    <2> QED
      BY <1>1, <1>2, <1>3, <1>5, <2>1, <2>2, <2>3 DEF ClosedTraces
  <1> QED
    BY <1>1, <1>4, <1>5 DEF SpansInv

\* Nothing is stored or deleted, and whoever has a trace to store had it: the rows are still explained.
LEMMA RowsFollow ==
    ASSUME TableTypes, RowsInv, UNCHANGED tableVars, SpansInv,
           \A u \in Spans : u \in ClosedTraces => u \in ClosedTraces' /\ InTrace(u, spTrace') = InTrace(u, spTrace),
           \A c \in TraceCallers : trCall'[c].op = "log" => trCall'[c] = trCall[c] /\ (Claims(c)' => Claims(c))
    PROVE  RowsInv'
  <1>1. UNCHANGED <<tbTraces, tbSpans, tbRated, trRated, trDeleted, trRepeated, trReseeded>>
    BY DEF tableVars
  <1>2. \A u : u \in ClosedTraces => u \in Spans
    BY BegunSpans DEF ClosedTraces, SpansInv
  <1>3. \A c \in TraceCallers : Claims(c)' => Claims(c) /\ trCall'[c] = trCall[c]
    BY DEF Claims
  <1>4. \A c \in TraceCallers : trCall'[c].op = "log" =>
           trCall'[c].trace \in ClosedTraces' /\ trCall'[c].spans = InTrace(trCall'[c].trace, spTrace')
    BY <1>2 DEF RowsInv
  <1>5. /\ \A t \in tbTraces' \cap Spans : t \in ClosedTraces' /\ tbSpans'[t] = InTrace(t, spTrace')
        /\ \A t \in trDeleted' \cap Spans : t \in ClosedTraces'
    BY <1>1 DEF RowsInv
  <1>6. RowsExplained' /\ trRated' \subseteq tbTraces' /\ (tbTraces' = {} => trDeleted' \cap Demo = {})
    BY <1>1 DEF RowsInv, RowsExplained
  <1>7. \A c \in TraceCallers : Claims(c)' /\ trCall'[c].trace \notin trRepeated' =>
           /\ trCall'[c].trace \notin tbTraces' \cup trDeleted'
           /\ \A d \in TraceCallers : Claims(d)' /\ trCall'[d].trace = trCall'[c].trace => d = c
    BY <1>1, <1>3 DEF RowsInv
  <1> QED
    BY <1>4, <1>5, <1>6, <1>7 DEF RowsInv

LEMMA BeginSpanKept ==
    ASSUME TracingInv, NEW k \in Tasks, NEW given \in Spans \cup {NoSpan}, BeginSpan(k, given)
    PROVE  TracingInv'
  <1>1. SpansInv' /\ \A u \in Spans : u \in ClosedTraces => u \in ClosedTraces' /\ InTrace(u, spTrace') = InTrace(u, spTrace)
    BY BeginKept DEF TracingInv
  <1>2. UNCHANGED <<tableVars, trAt, trCall>>
    BY DEF BeginSpan
  <1>3. TableTypes'
    BY <1>2 DEF TracingInv, TableTypes, tableVars
  <1>4. RowsInv'
    BY <1>1, <1>2, RowsFollow DEF TracingInv, Claims
  <1> QED
    BY <1>1, <1>3, <1>4 DEF TracingInv

LEMMA EndSpanKept ==
    ASSUME TracingInv, NEW k \in Tasks, EndSpan(k)
    PROVE  TracingInv'
  <1>1. PICK s \in Spans, top \in BOOLEAN :
            /\ s \in Begun /\ Ends(k, s, top) /\ (spTrace[s] = s => scTrace[Home[k]] = s)
            /\ IF spTrace[s] = s
               THEN /\ trAt' = [trAt EXCEPT ![k] = "called"]
                    /\ trCall' = [trCall EXCEPT ![k] =
                                     [op |-> "log", trace |-> s, spans |-> scRecorded[Home[k]], stored |-> FALSE]]
               ELSE UNCHANGED <<trAt, trCall>>
    BY EndSays DEF TracingInv
  <1>2. /\ SpansInv'
        /\ \A u \in Spans : u \in ClosedTraces => u \in ClosedTraces' /\ InTrace(u, spTrace') = InTrace(u, spTrace)
        /\ spTrace[s] = s => s \in ClosedTraces' /\ s \notin ClosedTraces /\ scRecorded[Home[k]] = InTrace(s, spTrace')
    BY <1>1, EndKept DEF TracingInv
  <1>3. UNCHANGED tableVars
    BY DEF EndSpan
  <1>4. UNCHANGED <<tbTraces, tbSpans, tbRated, trRated, trDeleted, trRepeated, trReseeded>>
    BY <1>3 DEF tableVars
  <1>5. CASE spTrace[s] # s
    <2>1. TableTypes'
      BY <1>1, <1>4, <1>5 DEF TracingInv, TableTypes
    <2>2. RowsInv'
      BY <1>1, <1>2, <1>3, <1>5, RowsFollow DEF TracingInv, Claims
    <2> QED
      BY <1>2, <2>1, <2>2 DEF TracingInv
  <1>6. CASE spTrace[s] = s
    <2>1. k \in TraceCallers /\ s \in Traces
      BY TracingSets
    <2>2. PICK call : call = [op |-> "log", trace |-> s, spans |-> InTrace(s, spTrace'), stored |-> FALSE]
      OBVIOUS
    <2>3. /\ trAt' = [trAt EXCEPT ![k] = "called"] /\ trCall' = [trCall EXCEPT ![k] = call]
          /\ trAt \in [TraceCallers -> TracePlaces]
          /\ trCall \in [TraceCallers -> TraceCalls]
      BY <1>1, <1>2, <1>6, <2>2 DEF TracingInv, TableTypes
    <2>4. call \in TraceCalls
      BY <2>1, <2>2 DEF TraceCalls, TraceOps, InTrace
    <2>5. TableTypes'
      <3>1. trAt' \in [TraceCallers -> TracePlaces]
        BY <2>3 DEF TracePlaces
      <3>2. trCall' \in [TraceCallers -> TraceCalls]
        BY <2>3, <2>4
      <3> QED
        BY <1>4, <3>1, <3>2 DEF TracingInv, TableTypes
    <2>6. /\ trCall'[k] = call /\ \A c \in TraceCallers : c # k => trCall'[c] = trCall[c] /\ (Claims(c)' <=> Claims(c))
      BY <2>1, <2>3 DEF Claims
    <2>7. call.op = "log" /\ call.trace = s /\ call.spans = InTrace(s, spTrace')
      BY <2>2
    <2>8. \A u : u \in ClosedTraces => u \in Spans
      BY BegunSpans DEF ClosedTraces, TracingInv, SpansInv
    <2>9. \A c \in TraceCallers : Claims(c) => trCall[c].trace \in ClosedTraces
      BY DEF Claims, TracingInv, RowsInv
    <2>10. s \notin tbTraces \cup trDeleted
      BY <1>2, <1>6 DEF TracingInv, RowsInv
    <2>11. \A c \in TraceCallers : trCall'[c].op = "log" =>
             trCall'[c].trace \in ClosedTraces' /\ trCall'[c].spans = InTrace(trCall'[c].trace, spTrace')
      BY <1>2, <1>6, <2>6, <2>7, <2>8 DEF TracingInv, RowsInv
    <2>12. /\ \A t \in tbTraces' \cap Spans : t \in ClosedTraces' /\ tbSpans'[t] = InTrace(t, spTrace')
           /\ \A t \in trDeleted' \cap Spans : t \in ClosedTraces'
      BY <1>2, <1>4 DEF TracingInv, RowsInv
    <2>13. RowsExplained' /\ trRated' \subseteq tbTraces' /\ (tbTraces' = {} => trDeleted' \cap Demo = {})
      BY <1>4 DEF TracingInv, RowsInv, RowsExplained
    <2>14. \A c \in TraceCallers : Claims(c)' /\ trCall'[c].trace \notin trRepeated' =>
             /\ trCall'[c].trace \notin tbTraces' \cup trDeleted'
             /\ \A d \in TraceCallers : Claims(d)' /\ trCall'[d].trace = trCall'[c].trace => d = c
      <3>1. \A c \in TraceCallers : c # k /\ Claims(c)' => Claims(c) /\ trCall'[c] = trCall[c] /\ trCall'[c].trace # s
        BY <1>2, <1>6, <2>6, <2>9
      <3>2. trCall'[k].trace = s
        BY <2>6, <2>7
      <3> QED
        BY <1>4, <2>10, <3>1, <3>2 DEF TracingInv, RowsInv
    <2>15. RowsInv'
      BY <2>11, <2>12, <2>13, <2>14 DEF RowsInv
    <2> QED
      BY <1>2, <2>5, <2>15 DEF TracingInv
  <1> QED
    BY <1>5, <1>6

LEMMA TracesUntouched ==
    ASSUME TracingInv, UNCHANGED contextVars
    PROVE  SpansInv' /\ ClosedTraces' = ClosedTraces /\ \A u : InTrace(u, spTrace') = InTrace(u, spTrace)
  <1>1. SpansInv'
    BY SpansUntouched DEF TracingInv
  <1>2. Begun' = Begun /\ spTrace' = spTrace /\ scTrace' = scTrace
    BY DEF contextVars, Begun
  <1> QED
    BY <1>1, <1>2 DEF ClosedTraces

\* A caller goes on, or its call is over, or it makes one that stores nothing.
LEMMA CallMoves ==
    ASSUME TracingInv, UNCHANGED <<contextVars, tableVars>>, NEW c \in TraceCallers, NEW place \in TracePlaces, NEW call,
           trAt' = [trAt EXCEPT ![c] = place], trCall' = [trCall EXCEPT ![c] = call],
           \/ call = trCall[c] /\ trAt[c] \in {"called", "seeding", "ready", "asking"}
           \/ call \in TraceCalls /\ call.op # "log"
    PROVE  TracingInv'
  <1>1. SpansInv' /\ ClosedTraces' = ClosedTraces /\ \A u : InTrace(u, spTrace') = InTrace(u, spTrace)
    BY TracesUntouched
  <1>2. trAt \in [TraceCallers -> TracePlaces] /\ trCall \in [TraceCallers -> TraceCalls]
    BY DEF TracingInv, TableTypes
  <1>3. trAt' \in [TraceCallers -> TracePlaces] /\ trCall' \in [TraceCallers -> TraceCalls]
    BY <1>2
  <1>4. TableTypes'
    BY <1>3 DEF TracingInv, TableTypes, tableVars
  <1>5. trCall'[c] = call /\ \A d \in TraceCallers : d # c => trCall'[d] = trCall[d] /\ trAt'[d] = trAt[d]
    BY <1>2
  <1>6. \A d \in TraceCallers : trCall'[d].op = "log" => trCall'[d] = trCall[d] /\ (Claims(d)' => Claims(d))
    BY <1>5 DEF Claims
  <1>7. RowsInv'
    BY <1>1, <1>6, RowsFollow DEF TracingInv
  <1> QED
    BY <1>1, <1>4, <1>7 DEF TracingInv

LEMMA CallStays ==
    ASSUME NEW c \in TraceCallers, trCall \in [TraceCallers -> TraceCalls], UNCHANGED trCall
    PROVE  trCall' = [trCall EXCEPT ![c] = trCall[c]]
  OBVIOUS

LEMMA NoRequestFits == NoRequest \in TraceCalls /\ NoRequest.op # "log"
  BY DEF NoRequest, TraceCalls, TraceOps

LEMMA QuietCalls ==
    ASSUME TracingInv, NEW c \in TraceCallers,
           \/ \E op \in {"read", "rate", "delete"}, t \in Traces : Ask(c, op, t)
           \/ CountTraces(c) \/ GetTrace(c) \/ SeedingFails(c) \/ CallFails(c)
    PROVE  TracingInv'
  <1> USE NoRequestFits DEF TracePlaces
  <1>0. trCall \in [TraceCallers -> TraceCalls]
    BY DEF TracingInv, TableTypes
  <1>1. ASSUME NEW op \in {"read", "rate", "delete"}, NEW t \in Traces, Ask(c, op, t) PROVE TracingInv'
    <2>1. PICK call : call = [op |-> op, trace |-> t, spans |-> {}, stored |-> FALSE]
      OBVIOUS
    <2>2. call \in TraceCalls /\ call.op # "log"
      BY <2>1 DEF TraceCalls, TraceOps
    <2>3. UNCHANGED <<contextVars, tableVars>> /\ trAt' = [trAt EXCEPT ![c] = "called"] /\ trCall' = [trCall EXCEPT ![c] = call]
      BY <1>1, <2>1 DEF Ask
    <2> QED
      BY <2>2, <2>3, CallMoves
  <1>2. ASSUME CountTraces(c) PROVE TracingInv'
    <2>1. PICK place \in {"seeding", "ready"} : trAt' = [trAt EXCEPT ![c] = place]
      BY <1>2 DEF CountTraces
    <2>2. UNCHANGED <<contextVars, tableVars>> /\ trCall' = [trCall EXCEPT ![c] = trCall[c]] /\ trAt[c] = "called"
      BY <1>0, <1>2, CallStays DEF CountTraces
    <2> QED
      BY <2>1, <2>2, CallMoves
  <1>3. ASSUME GetTrace(c) PROVE TracingInv'
    <2>1. UNCHANGED <<contextVars, tableVars>> /\ trAt' = [trAt EXCEPT ![c] = "idle"] /\ trCall' = [trCall EXCEPT ![c] = NoRequest]
      BY <1>3 DEF GetTrace
    <2> QED
      BY <2>1, CallMoves
  <1>4. ASSUME SeedingFails(c) PROVE TracingInv'
    <2>1. UNCHANGED <<contextVars, tableVars>> /\ trAt' = [trAt EXCEPT ![c] = "ready"] /\ trAt[c] = "seeding"
      BY <1>4 DEF SeedingFails
    <2>2. trCall' = [trCall EXCEPT ![c] = trCall[c]]
      BY <1>0, <1>4, CallStays DEF SeedingFails
    <2> QED
      BY <2>1, <2>2, CallMoves
  <1>5. ASSUME CallFails(c) PROVE TracingInv'
    <2>1. UNCHANGED <<contextVars, tableVars>> /\ trAt[c] = "ready"
      BY <1>5 DEF CallFails
    <2>2. ASSUME c = Server PROVE TracingInv'
      <3>1. trAt' = [trAt EXCEPT ![c] = "idle"] /\ trCall' = [trCall EXCEPT ![c] = NoRequest]
        BY <1>5, <2>2 DEF CallFails
      <3> QED
        BY <2>1, <3>1, CallMoves
    <2>3. ASSUME c # Server PROVE TracingInv'
      <3>1. trAt' = [trAt EXCEPT ![c] = "asking"] /\ trCall' = [trCall EXCEPT ![c] = trCall[c]]
        BY <1>0, <1>5, <2>3, CallStays DEF CallFails
      <3> QED
        BY <2>1, <3>1, CallMoves
    <2> QED
      BY <2>2, <2>3
  <1> QED
    BY <1>1, <1>2, <1>3, <1>4, <1>5

LEMMA SeedTracesKept ==
    ASSUME TracingInv, NEW c \in TraceCallers, SeedTraces(c)
    PROVE  TracingInv'
  <1>1. SpansInv' /\ ClosedTraces' = ClosedTraces /\ \A u : InTrace(u, spTrace') = InTrace(u, spTrace)
    BY TracesUntouched DEF SeedTraces
  <1>2. TableTypes'
    BY TracingSets DEF SeedTraces, TracingInv, TableTypes, TracePlaces
  <1>3. /\ \A d \in TraceCallers : Claims(d)' => Claims(d)
        /\ UNCHANGED <<tbSpans, trRated, trDeleted, trRepeated, trCall>>
        /\ tbTraces' = tbTraces \cup Demo /\ tbRated' = tbRated \ Demo /\ (trReseeded' <=> trReseeded \/ tbTraces # {})
    BY DEF SeedTraces, TracingInv, TableTypes, Claims
  <1>4. \A d \in TraceCallers : Claims(d) => trCall[d].trace \in Spans
    BY BegunSpans DEF Claims, TracingInv, RowsInv, SpansInv, ClosedTraces
  <1>5. RowsExplained'
    <2> SUFFICES ASSUME NEW t \in Traces, t \notin trRepeated, ~(t \in Demo /\ trReseeded')
                 PROVE  (t \in trDeleted => t \notin tbTraces') /\ (t \in trRated \cap tbTraces' => t \in tbRated')
      BY <1>3 DEF RowsExplained
    <2>1. /\ ~(t \in Demo /\ trReseeded) /\ (t \in trDeleted => t \notin tbTraces) /\ (t \in trRated \cap tbTraces => t \in tbRated)
      BY <1>3 DEF TracingInv, RowsInv, RowsExplained
    <2>2. CASE t \in Demo
      BY <1>3, <2>2 DEF TracingInv, RowsInv
    <2>3. CASE t \notin Demo
      BY <1>3, <2>1, <2>3
    <2> QED
      BY <2>2, <2>3
  <1>6. /\ \A t \in tbTraces' \cap Spans : t \in ClosedTraces' /\ tbSpans'[t] = InTrace(t, spTrace')
        /\ \A t \in trDeleted' \cap Spans : t \in ClosedTraces'
        /\ trRated' \subseteq tbTraces' /\ tbTraces' # {}
    BY <1>1, <1>3, TracingSets DEF TracingInv, RowsInv
  <1>7. \A d \in TraceCallers : trCall'[d].op = "log" =>
          trCall'[d].trace \in ClosedTraces' /\ trCall'[d].spans = InTrace(trCall'[d].trace, spTrace')
    BY <1>1, <1>3 DEF TracingInv, RowsInv
  <1>8. \A d \in TraceCallers : Claims(d)' /\ trCall'[d].trace \notin trRepeated' =>
          /\ trCall'[d].trace \notin tbTraces' \cup trDeleted'
          /\ \A e \in TraceCallers : Claims(e)' /\ trCall'[e].trace = trCall'[d].trace => e = d
    BY <1>3, <1>4, TracingSets DEF TracingInv, RowsInv
  <1> QED
    BY <1>1, <1>2, <1>5, <1>6, <1>7, <1>8 DEF TracingInv, RowsInv

LEMMA LogTraceKept ==
    ASSUME TracingInv, NEW c \in TraceCallers, LogTrace(c)
    PROVE  TracingInv'
  <1>1. SpansInv' /\ ClosedTraces' = ClosedTraces /\ \A u : InTrace(u, spTrace') = InTrace(u, spTrace)
    BY TracesUntouched DEF LogTrace
  <1>2. trAt \in [TraceCallers -> TracePlaces] /\ trCall \in [TraceCallers -> TraceCalls] /\ tbSpans \in [Spans -> SUBSET Spans]
    BY DEF TracingInv, TableTypes
  <1>3. PICK t : t = trCall[c].trace
    OBVIOUS
  <1>4. t \in Spans /\ t \in Traces /\ t \in ClosedTraces /\ trCall[c].spans = InTrace(t, spTrace) /\ trCall[c].op = "log" /\ Claims(c)
    BY <1>3, BegunSpans, TracingSets DEF LogTrace, TracingInv, RowsInv, SpansInv, ClosedTraces, Claims
  <1>5. /\ UNCHANGED <<trRated, trDeleted, trRepeated, trReseeded>>
        /\ tbTraces' = tbTraces \cup {t} /\ tbRated' = tbRated \ {t} /\ tbSpans' = [tbSpans EXCEPT ![t] = InTrace(t, spTrace)]
        /\ trAt' = [trAt EXCEPT ![c] = "called"] /\ trCall' = [trCall EXCEPT ![c].stored = TRUE]
    BY <1>3, <1>4 DEF LogTrace
  <1>6. TableTypes'
    <2>1. trCall' \in [TraceCallers -> TraceCalls]
      BY <1>2, <1>5 DEF TraceCalls
    <2>2. trAt' \in [TraceCallers -> TracePlaces]
      BY <1>2, <1>5 DEF TracePlaces
    <2>3. tbSpans' \in [Spans -> SUBSET Spans]
      BY <1>2, <1>5 DEF InTrace
    <2> QED
      BY <1>4, <1>5, <2>1, <2>2, <2>3 DEF TracingInv, TableTypes
  <1>7. /\ \A d \in TraceCallers : trCall'[d].op = trCall[d].op /\ trCall'[d].trace = trCall[d].trace /\ trCall'[d].spans = trCall[d].spans
        /\ trCall'[c].stored /\ \A d \in TraceCallers : d # c => trCall'[d] = trCall[d] /\ trAt'[d] = trAt[d]
    BY <1>2, <1>5 DEF TraceCalls
  <1>8. \A d \in TraceCallers : Claims(d)' => d # c /\ Claims(d) /\ trCall'[d] = trCall[d]
    BY <1>7 DEF Claims
  <1>9. \A d \in TraceCallers : Claims(d)' /\ trCall'[d].trace \notin trRepeated' =>
          /\ trCall'[d].trace \notin tbTraces' \cup trDeleted'
          /\ \A e \in TraceCallers : Claims(e)' /\ trCall'[e].trace = trCall'[d].trace => e = d
    BY <1>3, <1>4, <1>5, <1>8 DEF TracingInv, RowsInv
  <1>10. \A d \in TraceCallers : trCall'[d].op = "log" =>
          trCall'[d].trace \in ClosedTraces' /\ trCall'[d].spans = InTrace(trCall'[d].trace, spTrace')
    BY <1>1, <1>7 DEF TracingInv, RowsInv
  <1>11. \A u \in tbTraces' \cap Spans : u \in ClosedTraces' /\ tbSpans'[u] = InTrace(u, spTrace')
    BY <1>1, <1>2, <1>4, <1>5 DEF TracingInv, RowsInv
  <1>12. /\ \A u \in trDeleted' \cap Spans : u \in ClosedTraces'
         /\ trRated' \subseteq tbTraces' /\ tbTraces' # {}
    BY <1>1, <1>5 DEF TracingInv, RowsInv
  <1>13. RowsExplained'
    <2> SUFFICES ASSUME NEW u \in Traces, u \notin trRepeated, ~(u \in Demo /\ trReseeded)
                 PROVE  (u \in trDeleted => u \notin tbTraces') /\ (u \in trRated \cap tbTraces' => u \in tbRated')
      BY <1>5 DEF RowsExplained
    <2>1. CASE u = t
      BY <1>3, <1>4, <1>5, <2>1 DEF TracingInv, RowsInv
    <2>2. CASE u # t
      BY <1>5, <2>2 DEF TracingInv, RowsInv, RowsExplained
    <2> QED
      BY <2>1, <2>2
  <1> QED
    BY <1>1, <1>6, <1>9, <1>10, <1>11, <1>12, <1>13 DEF TracingInv, RowsInv

\* What every step that ends a call with nothing to store leaves to show.
LEMMA CallEnds ==
    ASSUME TracingInv, UNCHANGED contextVars, NEW c \in TraceCallers,
           trAt' = [trAt EXCEPT ![c] = "idle"], trCall' = [trCall EXCEPT ![c] = NoRequest]
    PROVE  /\ SpansInv' /\ ClosedTraces' = ClosedTraces /\ \A u : InTrace(u, spTrace') = InTrace(u, spTrace)
           /\ trAt' \in [TraceCallers -> TracePlaces] /\ trCall' \in [TraceCallers -> TraceCalls]
           /\ \A d \in TraceCallers : Claims(d)' => Claims(d) /\ trCall'[d] = trCall[d]
           /\ \A d \in TraceCallers : trCall'[d].op = "log" =>
                 trCall'[d].trace \in ClosedTraces' /\ trCall'[d].spans = InTrace(trCall'[d].trace, spTrace')
  <1>1. SpansInv' /\ ClosedTraces' = ClosedTraces /\ \A u : InTrace(u, spTrace') = InTrace(u, spTrace)
    BY TracesUntouched
  <1>2. trAt \in [TraceCallers -> TracePlaces] /\ trCall \in [TraceCallers -> TraceCalls]
    BY DEF TracingInv, TableTypes
  <1>3. trAt' \in [TraceCallers -> TracePlaces] /\ trCall' \in [TraceCallers -> TraceCalls]
    BY <1>2, NoRequestFits DEF TracePlaces
  <1>4. trCall'[c].op # "log" /\ \A d \in TraceCallers : d # c => trCall'[d] = trCall[d] /\ trAt'[d] = trAt[d]
    BY <1>2, NoRequestFits
  <1>5. \A d \in TraceCallers : Claims(d)' => Claims(d) /\ trCall'[d] = trCall[d]
    BY <1>4 DEF Claims
  <1>6. \A d \in TraceCallers : trCall'[d].op = "log" =>
           trCall'[d].trace \in ClosedTraces' /\ trCall'[d].spans = InTrace(trCall'[d].trace, spTrace')
    BY <1>1, <1>4 DEF TracingInv, RowsInv
  <1> QED
    BY <1>1, <1>3, <1>5, <1>6

LEMMA DeleteTraceKept ==
    ASSUME TracingInv, NEW c \in TraceCallers, DeleteTrace(c)
    PROVE  TracingInv'
  <1>1. /\ SpansInv' /\ ClosedTraces' = ClosedTraces /\ \A u : InTrace(u, spTrace') = InTrace(u, spTrace)
        /\ trAt' \in [TraceCallers -> TracePlaces] /\ trCall' \in [TraceCallers -> TraceCalls]
        /\ \A d \in TraceCallers : Claims(d)' => Claims(d) /\ trCall'[d] = trCall[d]
        /\ \A d \in TraceCallers : trCall'[d].op = "log" =>
              trCall'[d].trace \in ClosedTraces' /\ trCall'[d].spans = InTrace(trCall'[d].trace, spTrace')
    BY CallEnds DEF DeleteTrace
  <1>2. PICK t : t = trCall[c].trace
    OBVIOUS
  <1>3. /\ UNCHANGED <<trRepeated, trReseeded>>
        /\ tbTraces' = tbTraces \ {t} /\ tbRated' = tbRated \ {t} /\ trRated' = trRated \ {t}
        /\ trDeleted' = IF tbTraces \subseteq {t} THEN (trDeleted \cup tbTraces) \ Demo ELSE trDeleted \cup (tbTraces \cap {t})
        /\ tbSpans' = IF t \in Spans THEN [tbSpans EXCEPT ![t] = {}] ELSE tbSpans
    BY <1>2 DEF DeleteTrace
  <1>4. tbSpans' \in [Spans -> SUBSET Spans] /\ \A u \in Spans : u # t => tbSpans'[u] = tbSpans[u]
    BY <1>3 DEF TracingInv, TableTypes
  <1>5. TableTypes'
    BY <1>1, <1>3, <1>4 DEF TracingInv, TableTypes
  <1>6. /\ trDeleted' \subseteq trDeleted \cup tbTraces /\ tbTraces' \subseteq tbTraces
        /\ tbTraces' = {} => trDeleted' \cap Demo = {}
    BY <1>3
  <1>7. /\ \A u \in tbTraces' \cap Spans : u \in ClosedTraces' /\ tbSpans'[u] = InTrace(u, spTrace')
        /\ \A u \in trDeleted' \cap Spans : u \in ClosedTraces'
        /\ trRated' \subseteq tbTraces'
    BY <1>1, <1>3, <1>4, <1>6 DEF TracingInv, RowsInv
  <1>8. \A d \in TraceCallers : Claims(d)' /\ trCall'[d].trace \notin trRepeated' =>
          /\ trCall'[d].trace \notin tbTraces' \cup trDeleted'
          /\ \A e \in TraceCallers : Claims(e)' /\ trCall'[e].trace = trCall'[d].trace => e = d
    BY <1>1, <1>3, <1>6 DEF TracingInv, RowsInv
  <1>9. RowsExplained'
    <2> SUFFICES ASSUME NEW u \in Traces, u \notin trRepeated, ~(u \in Demo /\ trReseeded)
                 PROVE  (u \in trDeleted' => u \notin tbTraces') /\ (u \in trRated' \cap tbTraces' => u \in tbRated')
      BY <1>3 DEF RowsExplained
    <2> QED
      BY <1>3 DEF TracingInv, RowsInv, RowsExplained
  <1> QED
    BY <1>1, <1>5, <1>6, <1>7, <1>8, <1>9 DEF TracingInv, RowsInv

LEMMA LogAssessmentKept ==
    ASSUME TracingInv, NEW c \in TraceCallers, LogAssessment(c)
    PROVE  TracingInv'
  <1>1. /\ SpansInv' /\ ClosedTraces' = ClosedTraces /\ \A u : InTrace(u, spTrace') = InTrace(u, spTrace)
        /\ trAt' \in [TraceCallers -> TracePlaces] /\ trCall' \in [TraceCallers -> TraceCalls]
        /\ \A d \in TraceCallers : Claims(d)' => Claims(d) /\ trCall'[d] = trCall[d]
        /\ \A d \in TraceCallers : trCall'[d].op = "log" =>
              trCall'[d].trace \in ClosedTraces' /\ trCall'[d].spans = InTrace(trCall'[d].trace, spTrace')
    BY CallEnds DEF LogAssessment
  <1>2. PICK t \in tbTraces : /\ UNCHANGED <<tbTraces, tbSpans, trDeleted, trRepeated, trReseeded>>
                              /\ tbRated' = tbRated \cup {t} /\ trRated' = trRated \cup {t}
    BY DEF LogAssessment
  <1>3. TableTypes'
    BY <1>1, <1>2 DEF TracingInv, TableTypes
  <1>4. /\ \A u \in tbTraces' \cap Spans : u \in ClosedTraces' /\ tbSpans'[u] = InTrace(u, spTrace')
        /\ \A u \in trDeleted' \cap Spans : u \in ClosedTraces'
        /\ trRated' \subseteq tbTraces' /\ (tbTraces' = {} => trDeleted' \cap Demo = {})
    BY <1>1, <1>2 DEF TracingInv, RowsInv
  <1>5. \A d \in TraceCallers : Claims(d)' /\ trCall'[d].trace \notin trRepeated' =>
          /\ trCall'[d].trace \notin tbTraces' \cup trDeleted'
          /\ \A e \in TraceCallers : Claims(e)' /\ trCall'[e].trace = trCall'[d].trace => e = d
    BY <1>1, <1>2 DEF TracingInv, RowsInv
  <1>6. RowsExplained'
    BY <1>2 DEF TracingInv, RowsInv, RowsExplained
  <1> QED
    BY <1>1, <1>3, <1>4, <1>5, <1>6 DEF TracingInv, RowsInv

LEMMA AskStudioKept ==
    ASSUME TracingInv, NEW k \in Tasks, AskStudio(k)
    PROVE  TracingInv'
  <1> PICK c \in TraceCallers : c = k /\ c # Server
    BY TracingSets
  <1>0. trAt \in [TraceCallers -> TracePlaces] /\ trCall \in [TraceCallers -> TraceCalls]
    BY DEF TracingInv, TableTypes
  <1>1. SpansInv' /\ ClosedTraces' = ClosedTraces /\ \A u : InTrace(u, spTrace') = InTrace(u, spTrace)
    BY TracesUntouched DEF AskStudio
  <1>2. ASSUME trAt' = [trAt EXCEPT ![k] = "idle"], trCall' = [trCall EXCEPT ![k] = NoRequest], UNCHANGED trRepeated PROVE TracingInv'
    <2>1. UNCHANGED <<contextVars, tableVars>>
      BY <1>2 DEF AskStudio, tableVars
    <2>2. "idle" \in TracePlaces
      BY DEF TracePlaces
    <2> QED
      BY <1>2, <2>1, <2>2, CallMoves, NoRequestFits
  <1>3. ASSUME Idle(Server), trCall' = [trCall EXCEPT ![Server] = [trCall[k] EXCEPT !.stored = FALSE]],
               trAt' = [trAt EXCEPT ![Server] = "called", ![k] = "asked"],
               trRepeated' = IF trCall[k].stored THEN trRepeated \cup {trCall[k].trace} ELSE trRepeated
        PROVE  TracingInv'
    <2>1. UNCHANGED <<tbTraces, tbSpans, tbRated, trRated, trDeleted, trReseeded>> /\ trAt[c] = "asking"
      BY DEF AskStudio
    <2>2. PICK call \in TraceCalls : call = [trCall[c] EXCEPT !.stored = FALSE]
      BY <1>0 DEF TraceCalls
    <2>3. call.op = trCall[c].op /\ call.trace = trCall[c].trace /\ call.spans = trCall[c].spans
      BY <1>0, <2>2 DEF TraceCalls
    <2>4. /\ Server \in TraceCallers /\ trCall'[Server] = call
          /\ \A d \in TraceCallers : d # Server => trCall'[d] = trCall[d]
          /\ trAt'[c] = "asked" /\ \A d \in TraceCallers : d # Server /\ d # c => trAt'[d] = trAt[d]
          /\ trCall' \in [TraceCallers -> TraceCalls]
      BY <1>0, <1>3, <2>2, TracingSets
    <2>5. trAt' \in [TraceCallers -> TracePlaces]
      BY <1>0, <1>3 DEF TracePlaces
    <2>6. trRepeated' \subseteq Traces \cup {NoSpan}
      BY <1>0, <1>3 DEF TracingInv, TableTypes, TraceCalls
    <2>7. TableTypes'
      BY <2>1, <2>4, <2>5, <2>6 DEF TracingInv, TableTypes
    <2>8. \A d \in TraceCallers : Claims(d)' => d = Server \/ (d # c /\ Claims(d) /\ trCall'[d] = trCall[d])
      BY <2>4 DEF Claims
    <2>9. Claims(Server)' => trCall[c].op = "log" /\ trCall'[Server].trace = trCall[c].trace
      BY <2>3, <2>4 DEF Claims
    <2>10. trCall[c].op = "log" => Claims(c) \/ trCall[c].trace \in trRepeated'
      BY <1>3, <2>1 DEF Claims
    <2>11. trRepeated \subseteq trRepeated'
      BY <1>3
    <2>12. \A d \in TraceCallers : Claims(d)' /\ trCall'[d].trace \notin trRepeated' =>
             /\ trCall'[d].trace \notin tbTraces' \cup trDeleted'
             /\ \A e \in TraceCallers : Claims(e)' /\ trCall'[e].trace = trCall'[d].trace => e = d
      BY <2>1, <2>8, <2>9, <2>10, <2>11 DEF TracingInv, RowsInv
    <2>13. \A d \in TraceCallers : trCall'[d].op = "log" =>
             trCall'[d].trace \in ClosedTraces' /\ trCall'[d].spans = InTrace(trCall'[d].trace, spTrace')
      BY <1>1, <2>3, <2>4 DEF TracingInv, RowsInv
    <2>14. /\ \A u \in tbTraces' \cap Spans : u \in ClosedTraces' /\ tbSpans'[u] = InTrace(u, spTrace')
           /\ \A u \in trDeleted' \cap Spans : u \in ClosedTraces'
           /\ trRated' \subseteq tbTraces' /\ (tbTraces' = {} => trDeleted' \cap Demo = {})
      BY <1>1, <2>1 DEF TracingInv, RowsInv
    <2>15. RowsExplained'
      BY <2>1, <2>11 DEF TracingInv, RowsInv, RowsExplained
    <2> QED
      BY <1>1, <2>7, <2>12, <2>13, <2>14, <2>15 DEF TracingInv, RowsInv
  <1> QED
    BY <1>2, <1>3 DEF AskStudio

LEMMA AnsweredKept ==
    ASSUME TracingInv, NEW k \in Tasks, Answered(k)
    PROVE  TracingInv'
  <1> k \in TraceCallers /\ "idle" \in TracePlaces
    BY TracingSets DEF TracePlaces
  <1>1. UNCHANGED <<contextVars, tableVars>> /\ trAt' = [trAt EXCEPT ![k] = "idle"] /\ trCall' = [trCall EXCEPT ![k] = NoRequest]
    BY DEF Answered
  <1> QED
    BY <1>1, CallMoves, NoRequestFits

LEMMA TracingStarts == TracingInit => TracingInv
  <1> SUFFICES ASSUME TracingInit PROVE TracingInv
    OBVIOUS
  <1>1. Begun = {} /\ \A s \in Spans : spTrace[s] = NoSpan
    BY DEF TracingInit, Begun
  <1>2. Cardinality(Begun) = 0 /\ 1..0 = {} /\ 0 \in Nat
    <2>1. Cardinality(Begun) = 0
      BY <1>1, FS_EmptySet
    <2> QED
      BY <2>1
  <1>3. <<>> \in Seq(Spans) /\ Len(<<>>) = 0
    OBVIOUS
  <1>4. ContextTypes
    BY <1>3, TracingSets DEF TracingInit, ContextTypes
  <1>5. StacksInv
    BY <1>2, <1>3 DEF TracingInit, StacksInv, StackOf
  <1>6. BegunInv /\ BlocksOpen /\ ParentsInv
    BY <1>1, <1>2, <1>3 DEF TracingInit, BegunInv, BlocksOpen, ParentsInv
  <1>7. TableTypes
    BY NoRequestFits, TracingSets DEF TracingInit, TableTypes, TracePlaces
  <1>8. RowsInv
    <2>1. \A c \in TraceCallers : trCall[c] = NoRequest
      BY DEF TracingInit
    <2>2. \A c \in TraceCallers : trCall[c].op # "log" /\ ~Claims(c)
      BY <2>1, NoRequestFits DEF Claims
    <2> QED
      BY <2>2 DEF TracingInit, RowsInv, RowsExplained
  <1> QED
    BY <1>4, <1>5, <1>6, <1>7, <1>8 DEF TracingInv, SpansInv

LEMMA TracingSteps == TracingInv /\ [TracingNext]_tracingVars => TracingInv'
  <1> SUFFICES ASSUME TracingInv, [TracingNext]_tracingVars PROVE TracingInv'
    OBVIOUS
  <1>1. ASSUME NEW k \in Tasks,
               \/ \E given \in Spans \cup {NoSpan} : BeginSpan(k, given)
               \/ EndSpan(k) \/ AskStudio(k) \/ Answered(k)
        PROVE  TracingInv'
    BY <1>1, BeginSpanKept, EndSpanKept, AskStudioKept, AnsweredKept
  <1>2. ASSUME NEW c \in TraceCallers,
               \/ \E op \in {"read", "rate", "delete"}, t \in Traces : Ask(c, op, t)
               \/ CountTraces(c) \/ SeedTraces(c) \/ LogTrace(c) \/ GetTrace(c) \/ DeleteTrace(c)
               \/ LogAssessment(c) \/ SeedingFails(c) \/ CallFails(c)
        PROVE  TracingInv'
    BY <1>2, QuietCalls, SeedTracesKept, LogTraceKept, DeleteTraceKept, LogAssessmentKept
  <1>3. ASSUME UNCHANGED tracingVars PROVE TracingInv'
    <2>1. UNCHANGED <<contextVars, tableVars, trAt, trCall>>
      BY <1>3 DEF tracingVars
    <2>2. SpansInv' /\ ClosedTraces' = ClosedTraces /\ \A u : InTrace(u, spTrace') = InTrace(u, spTrace)
      BY <2>1, TracesUntouched
    <2>3. TableTypes'
      BY <2>1 DEF TracingInv, TableTypes, tableVars
    <2>4. \A c \in TraceCallers : Claims(c)' => Claims(c)
      BY <2>1 DEF Claims
    <2>5. RowsInv'
      BY <2>1, <2>2, <2>4, RowsFollow DEF TracingInv
    <2> QED
      BY <2>2, <2>3, <2>5 DEF TracingInv
  <1> QED
    BY <1>1, <1>2, <1>3 DEF TracingNext

LEMMA TracingShows == TracingInv => TracesKept
  <1> SUFFICES ASSUME TracingInv PROVE TracesKept
    OBVIOUS
  <1>1. \A t \in tbTraces \cap Spans : tbSpans[t] = {s \in Spans : spTrace[s] = t}
    BY DEF TracingInv, RowsInv, InTrace
  <1>2. TracesAreTrees
    BY <1>1 DEF TracesAreTrees, TracingInv, SpansInv, ParentsInv
  <1> QED
    BY <1>2 DEF TracesKept, TracingInv, RowsInv

\* Traces are trees of their own, however the tasks of a thread take turns inside their blocks, and are
\* stored whole; a deleted trace comes back, or the feedback on one is lost, only where a trace was stored
\* twice or the demonstration traces were filled in again (start_span, log_trace_to_db and what call them).
THEOREM TracesAreKept == TracingSpec => []TracesKept
  <1>1. TracingInit => TracingInv
    BY TracingStarts
  <1>2. TracingInv /\ [TracingNext]_tracingVars => TracingInv'
    BY TracingSteps
  <1>3. TracingInv => TracesKept
    BY TracingShows
  <1> QED
    BY <1>1, <1>2, <1>3, PTL DEF TracingSpec

-----------------------------------------------------------------------------
(* The dbt project.                                                        *)
(*                                                                         *)
(* Whoever's dbt has not read old files has read what is there now         *)
(* (ManifestInv).  An entry without a file belongs to the deletion that is *)
(* under way (SchemaInv).  Of two that record runs at the same time both   *)
(* are excused, so whoever writes the file has the other recorded runs in  *)
(* its hands, and so has whoever has loaded it, unless a run has come into *)
(* the list since (HistoryInv).                                            *)

DbtPlaces == {"idle", "schema", "compile", "dbt", "insert", "slice", "assign", "save", "write", "list", "loaded"}

SchemaEntries == [layer : Layers, name : ModelNames]
SchemaTests   == [layer : Layers, name : ModelNames, test : DbtTests]
AskedTests    == [name : ModelNames, test : DbtTests]
SchemaChanges ==
    [op : {"enter", "remove"}, layer : Layers, name : ModelNames] \cup [op : {"describe"}, layer : Layers]
    \cup [op : {"test"}, layer : Layers, name : ModelNames, test : DbtTests]
    \cup [op : {"untest"}, layer : Layers, name : ModelNames, kind : {"plain", "relationships"}]

DbtTypes ==
    /\ btAt \in [DbtRunners -> DbtPlaces] /\ btParsed = [w \in DbtRunners |-> btParsed[w]]
    /\ btSql \subseteq [layer : Layers, name : ModelNames, deps : Bodies]
    /\ btEntries \subseteq SchemaEntries /\ btLoose \subseteq SchemaEntries
    /\ btTests \subseteq SchemaTests /\ btAsked \subseteq AskedTests /\ btLost \subseteq AskedTests
    /\ btDoing \in SchemaChanges \cup {NoChange} /\ (btDoing = NoChange <=> btAt[Editor] # "schema")
    /\ btRuns \in Seq(Nat) /\ btLog \in Seq(Nat) /\ btCopy \in [DbtRunners -> Seq(Nat)]
    /\ btRun \in [DbtRunners -> Nat] /\ btStarted \in Nat /\ btCut \in BOOLEAN

ManifestInv ==
    /\ ManifestExplained
    /\ btAt[Editor] = "schema" => btMissed
    /\ \A w \in DbtRunners : btAt[w] = "dbt" /\ w \notin btOld => btParsed[w] = Project

SchemaInv ==
    /\ \A a \in btAsked : a \in btLost \/ \E t \in btTests : t.name = a.name /\ t.test = a.test
    /\ \A e \in btEntries : \/ e \in btLoose \/ \E f \in btSql : Entry(f) = e
                            \/ btDoing.op = "remove" /\ Entry(btDoing) = e

\* A list that misses only excused runs; who has such a list in its hands, or will write one.
Listed(runs) == btTold \subseteq ToSet(runs) \cup btExcused
Held         == Recording \cup {"loaded"}

HistoryInv ==
    /\ RunsAreListed
    /\ (btRuns # <<>> \/ \E w \in DbtRunners : btAt[w] \in Recording) => Listed(btRuns)
    /\ \A w \in DbtRunners : btAt[w] \in {"slice", "save", "write"} => btRun[w] \in ToSet(btRuns) \cup btExcused
    /\ \A w \in DbtRunners : btAt[w] = "assign" => Listed(btCopy[w]) /\ btRun[w] \in ToSet(btCopy[w]) \cup btExcused
    /\ \A w, u \in DbtRunners : w # u /\ btAt[w] \in Recording /\ btAt[u] \in Recording => btRun[w] \in btExcused
    /\ btAt[Editor] = "loaded" => btRuns # <<>> \/ Listed(btCopy[Editor])
    /\ btCut => btLog = <<>> /\ (btRuns = <<>> => btTold \subseteq btExcused)

DbtInv == DbtTypes /\ ManifestInv /\ SchemaInv /\ HistoryInv

LEMMA DbtSets == /\ NoChange.op = "none" /\ NoChange \notin SchemaChanges /\ Editor \in DbtRunners
                 /\ Recording \subseteq DbtPlaces /\ KeepRuns \in Nat /\ KeepRuns > 0
  <1>1. NoChange.op = "none"
    BY DEF NoChange
  <1>2. \A d \in SchemaChanges : d.op # "none"
    BY DEF SchemaChanges
  <1> QED
    BY <1>1, <1>2, DbtAssumption DEF DbtRunners, Recording, DbtPlaces

(* The manifest. *)

LEMMA ProjectSame == UNCHANGED <<btSql, btEntries, btTests, btSources>> => UNCHANGED Project
  <1> SUFFICES ASSUME UNCHANGED <<btSql, btEntries, btTests, btSources>> PROVE Project' = Project
    OBVIOUS
  <1>1. UNCHANGED <<Models, Checked>>
    BY DEF Models, Checked
  <1> QED
    BY <1>1 DEF Project

\* A request that changes files or is about to; what jobs have read is old.
LEMMA FilesChange ==
    ASSUME DbtTypes, NEW place \in {"idle", "schema", "compile"}, btAt' = [btAt EXCEPT ![Editor] = place],
           btMissed', btOld' = btOld \cup InDbt, UNCHANGED btParsed
    PROVE  ManifestInv'
  <1>1. \A w \in DbtRunners : btAt'[w] = "dbt" => w \in InDbt
    BY DEF DbtTypes, DbtRunners, InDbt
  <1> QED
    BY <1>1 DEF ManifestInv, ManifestExplained

\* Nobody reads the project or writes the manifest, and dbt runs where it ran.
LEMMA ManifestStays ==
    ASSUME ManifestInv, UNCHANGED <<btSql, btEntries, btTests, btSources, btManifest, btMissed, btOld, btLate, btParsed>>,
           btAt'[Editor] = "schema" => btAt[Editor] = "schema",
           \A w \in DbtRunners : btAt'[w] = "dbt" => btAt[w] = "dbt"
    PROVE  ManifestInv'
  <1>1. Project' = Project
    BY ProjectSame
  <1>2. ManifestExplained' /\ (btAt'[Editor] = "schema" => btMissed')
    BY <1>1 DEF ManifestInv, ManifestExplained
  <1>3. \A w \in DbtRunners : btAt'[w] = "dbt" /\ w \notin btOld' => btParsed'[w] = Project'
    BY <1>1 DEF ManifestInv
  <1> QED
    BY <1>2, <1>3 DEF ManifestInv

LEMMA StartManifest == ASSUME DbtTypes, ManifestInv, NEW w \in DbtRunners, StartDbt(w) PROVE ManifestInv'
  <1>1. Project' = Project
    BY ProjectSame DEF StartDbt, schemaVars
  <1>2. /\ btAt' = [btAt EXCEPT ![w] = "dbt"] /\ btParsed' = [btParsed EXCEPT ![w] = Project] /\ btOld' = btOld \ {w}
        /\ UNCHANGED <<btManifest, btMissed, btLate>>
    BY DEF StartDbt, RunnerAt
  <1>3. btParsed'[w] = Project /\ btAt'[w] = "dbt" /\ \A u \in DbtRunners : u # w => btParsed'[u] = btParsed[u] /\ btAt'[u] = btAt[u]
    BY <1>2 DEF DbtTypes
  <1>4. ManifestExplained' /\ (btAt'[Editor] = "schema" => btMissed')
    BY <1>1, <1>2, <1>3, DbtSets DEF ManifestInv, ManifestExplained
  <1>5. \A u \in DbtRunners : btAt'[u] = "dbt" /\ u \notin btOld' => btParsed'[u] = Project'
    BY <1>1, <1>2, <1>3 DEF ManifestInv
  <1> QED
    BY <1>4, <1>5 DEF ManifestInv

LEMMA EndManifest == ASSUME DbtTypes, ManifestInv, NEW w \in DbtRunners, EndDbt(w) PROVE ManifestInv'
  <1>1. Project' = Project
    BY ProjectSame DEF EndDbt, schemaVars
  <1>2. /\ btAt[w] = "dbt" /\ btAt' = [btAt EXCEPT ![w] = "insert"] /\ UNCHANGED <<btParsed, btOld>>
    BY DEF EndDbt, RunnerAt
  <1>3. btAt'[w] = "insert" /\ \A u \in DbtRunners : u # w => btAt'[u] = btAt[u]
    BY <1>2 DEF DbtTypes
  <1>4. \A u \in DbtRunners : btAt'[u] = "dbt" /\ u \notin btOld' => btParsed'[u] = Project'
    BY <1>1, <1>2, <1>3 DEF ManifestInv
  <1>5. btAt'[Editor] = "schema" => btMissed'
    <2>1. btAt'[Editor] = "schema" => w # Editor /\ btMissed
      BY <1>3, DbtSets DEF ManifestInv
    <2>2. w # Editor => (btMissed' <=> btMissed)
      BY DEF EndDbt
    <2> QED
      BY <2>1, <2>2
  <1>6. ManifestExplained'
    <2>1. CASE btManifest' = btParsed[w] /\ btLate' = (w \in btOld)
      BY <1>1, <1>2, <2>1 DEF ManifestInv, ManifestExplained
    <2>2. CASE UNCHANGED <<btManifest, btMissed, btLate>>
      BY <1>1, <2>2 DEF ManifestInv, ManifestExplained
    <2> QED
      BY <2>1, <2>2 DEF EndDbt
  <1> QED
    BY <1>4, <1>5, <1>6 DEF ManifestInv

(* The schema files. *)

LEMMA SchemaStays ==
    ASSUME SchemaInv, UNCHANGED <<btSql, btEntries, btTests, btAsked, btLost, btLoose, btDoing>>
    PROVE  SchemaInv'
  BY DEF SchemaInv

\* A request that has still to change a schema file.
LEMMA RequestSchema ==
    ASSUME DbtTypes, SchemaInv, btAt[Editor] = "idle",
           UNCHANGED <<btEntries, btTests, btAsked, btLost>>,
           \A e \in btEntries : e \in btLoose \/ (\E f \in btSql : Entry(f) = e) =>
               e \in btLoose' \/ (\E f \in btSql' : Entry(f) = e) \/ (btDoing'.op = "remove" /\ Entry(btDoing') = e)
    PROVE  SchemaInv'
  <1>1. btDoing.op # "remove"
    BY DbtSets DEF DbtTypes
  <1>2. \A e \in btEntries : e \in btLoose \/ \E f \in btSql : Entry(f) = e
    BY <1>1 DEF SchemaInv
  <1> QED
    BY <1>2 DEF SchemaInv

LEMMA ChangeKeeps ==
    ASSUME DbtTypes, SchemaInv, btAt[Editor] = "schema", ChangedSchema(btDoing), UNCHANGED <<btSql, btLost>>, btDoing' = NoChange
    PROVE  /\ SchemaInv' /\ btEntries' \subseteq SchemaEntries /\ btLoose' \subseteq SchemaEntries
           /\ btTests' \subseteq SchemaTests /\ btAsked' \subseteq AskedTests
  <1> PICK d : d = btDoing
    OBVIOUS
  <1>1. d \in SchemaChanges
    BY DEF DbtTypes
  <1>2. /\ \A a \in btAsked : a \in btLost \/ \E t \in btTests : t.name = a.name /\ t.test = a.test
        /\ \A e \in btEntries : e \in btLoose \/ (\E f \in btSql : Entry(f) = e) \/ (d.op = "remove" /\ Entry(d) = e)
    BY DEF SchemaInv
  <1>3. /\ btTests \subseteq SchemaTests /\ btAsked \subseteq AskedTests /\ btEntries \subseteq SchemaEntries /\ btLoose \subseteq SchemaEntries
    BY DEF DbtTypes
  <1> DEFINE AskedThere == \A a \in btAsked' : a \in btLost' \/ \E t \in btTests' : t.name = a.name /\ t.test = a.test
             EntriesThere == \A e \in btEntries' : e \in btLoose' \/ \E f \in btSql' : Entry(f) = e
             Typed == /\ btEntries' \subseteq SchemaEntries /\ btLoose' \subseteq SchemaEntries
                      /\ btTests' \subseteq SchemaTests /\ btAsked' \subseteq AskedTests
  <1>4. ASSUME d.op = "enter" PROVE AskedThere /\ EntriesThere /\ Typed
    <2>1. d \in [op : {"enter", "remove"}, layer : Layers, name : ModelNames]
      BY <1>1, <1>4 DEF SchemaChanges
    <2>2. Entry(d) \in SchemaEntries
      BY <2>1 DEF Entry, SchemaEntries
    <2>3. /\ btEntries' = btEntries \cup {Entry(d)} /\ UNCHANGED <<btTests, btAsked>>
          /\ btLoose' = IF \E f \in btSql : Entry(f) = Entry(d) THEN btLoose ELSE btLoose \cup {Entry(d)}
      BY <1>4 DEF ChangedSchema
    <2>4. EntriesThere
      BY <1>2, <1>4, <2>3
    <2> QED
      BY <1>2, <1>3, <2>2, <2>3, <2>4
  <1>5. ASSUME d.op = "test" PROVE AskedThere /\ EntriesThere /\ Typed
    <2>1. d \in [op : {"test"}, layer : Layers, name : ModelNames, test : DbtTests]
      BY <1>1, <1>5 DEF SchemaChanges
    <2>2. Entry(d) \in SchemaEntries /\ Entry(d).name = d.name
      BY <2>1 DEF Entry, SchemaEntries
    <2>3. PICK t \in SchemaTests, a \in AskedTests : t = [layer |-> d.layer, name |-> d.name, test |-> d.test] /\ a = [name |-> d.name, test |-> d.test]
      BY <2>1 DEF SchemaTests, AskedTests
    <2>4. /\ btEntries' = btEntries \cup {Entry(d)}
          /\ btLoose' = IF \E f \in btSql : Entry(f) = Entry(d) THEN btLoose ELSE btLoose \cup {Entry(d)}
          /\ btTests' = {x \in btTests : ~(Entry(x) = Entry(d) /\ d.test.kind = "relationships" /\ x.test.kind = d.test.kind)} \cup {t}
          /\ btAsked' = {x \in btAsked : ~(x.name = d.name /\ d.test.kind = "relationships" /\ x.test.kind = d.test.kind)} \cup {a}
      BY <1>5, <2>3 DEF ChangedSchema
    <2>5. EntriesThere
      BY <1>2, <1>5, <2>4
    <2>6. t.name = a.name /\ t.test = a.test /\ \A x \in btTests : Entry(x).name = x.name
      BY <2>3 DEF Entry
    <2>7. AskedThere
      <3> SUFFICES ASSUME NEW x \in btAsked', x \notin btLost
                   PROVE  \E y \in btTests' : y.name = x.name /\ y.test = x.test
        OBVIOUS
      <3>1. CASE x = a
        BY <2>4, <2>6, <3>1
      <3>2. CASE x # a
        <4>1. x \in btAsked /\ ~(x.name = d.name /\ d.test.kind = "relationships" /\ x.test.kind = d.test.kind)
          BY <2>4, <3>2
        <4>2. PICK y \in btTests : y.name = x.name /\ y.test = x.test
          BY <1>2, <4>1
        <4>3. y \in btTests'
          BY <2>2, <2>4, <2>6, <4>1, <4>2
        <4> QED
          BY <4>2, <4>3
      <3> QED
        BY <3>1, <3>2
    <2> QED
      BY <1>3, <2>2, <2>4, <2>5, <2>7
  <1>6. ASSUME d.op = "remove" PROVE AskedThere /\ EntriesThere /\ Typed
    <2>1. d \in [op : {"enter", "remove"}, layer : Layers, name : ModelNames]
      BY <1>1, <1>6 DEF SchemaChanges
    <2>2. Entry(d).name = d.name /\ \A x \in btTests : Entry(x).name = x.name
      BY DEF Entry
    <2>3. /\ btEntries' = btEntries \ {Entry(d)} /\ btLoose' = btLoose \ {Entry(d)}
          /\ btTests' = {x \in btTests : Entry(x) # Entry(d)} /\ btAsked' = {x \in btAsked : x.name # d.name}
      BY <1>6 DEF ChangedSchema
    <2>4. EntriesThere
      BY <1>2, <2>3
    <2>5. AskedThere
      <3> SUFFICES ASSUME NEW x \in btAsked', x \notin btLost
                   PROVE  \E y \in btTests' : y.name = x.name /\ y.test = x.test
        OBVIOUS
      <3>1. x \in btAsked /\ x.name # d.name
        BY <2>3
      <3>2. PICK y \in btTests : y.name = x.name /\ y.test = x.test
        BY <1>2, <3>1
      <3>3. y \in btTests'
        BY <2>2, <2>3, <3>1, <3>2
      <3> QED
        BY <3>2, <3>3
    <2> QED
      BY <1>3, <2>3, <2>4, <2>5
  <1>7. ASSUME d.op = "untest" PROVE AskedThere /\ EntriesThere /\ Typed
    <2>2. d.layer = Entry(d).layer /\ Entry(d).name = d.name /\ \A x \in btTests : Entry(x).name = x.name
      BY DEF Entry
    <2>3. /\ UNCHANGED <<btEntries, btLoose>>
          /\ btTests' = {x \in btTests : ~(Entry(x) = Entry(d) /\ x.test.kind = d.kind)}
          /\ btAsked' = {x \in btAsked : ~(x.name = d.name /\ x.test.kind = d.kind)}
      BY <1>7 DEF ChangedSchema
    <2>4. EntriesThere
      BY <1>2, <1>7, <2>3
    <2>5. AskedThere
      <3> SUFFICES ASSUME NEW x \in btAsked', x \notin btLost
                   PROVE  \E y \in btTests' : y.name = x.name /\ y.test = x.test
        OBVIOUS
      <3>1. x \in btAsked /\ ~(x.name = d.name /\ x.test.kind = d.kind)
        BY <2>3
      <3>2. PICK y \in btTests : y.name = x.name /\ y.test = x.test
        BY <1>2, <3>1
      <3>3. y \in btTests'
        BY <2>2, <2>3, <3>1, <3>2
      <3> QED
        BY <3>2, <3>3
    <2> QED
      BY <1>3, <2>3, <2>4, <2>5
  <1>8. ASSUME d.op = "describe" PROVE AskedThere /\ EntriesThere /\ Typed
    <2>1. UNCHANGED <<btEntries, btLoose, btTests, btAsked>>
      BY <1>8 DEF ChangedSchema
    <2> QED
      BY <1>2, <1>3, <1>8, <2>1
  <1>9. AskedThere /\ EntriesThere /\ Typed
    <2> HIDE DEF AskedThere, EntriesThere, Typed
    <2>1. d.op \in {"enter", "test", "remove", "untest", "describe"}
      BY DEF ChangedSchema
    <2> QED
      BY <1>4, <1>5, <1>6, <1>7, <1>8, <2>1
  <1> QED
    BY <1>9 DEF SchemaInv

\* A schema file is emptied by a write that fails.
LEMMA EmptyKeeps ==
    ASSUME DbtTypes, SchemaInv, NEW l, EmptySchema(l), UNCHANGED <<btSql, btAsked>>,
           \A e \in btEntries : e.layer # l => e \in btLoose' \/ \E f \in btSql : Entry(f) = e
    PROVE  SchemaInv' /\ btEntries' \subseteq SchemaEntries /\ btTests' \subseteq SchemaTests /\ btLost' \subseteq AskedTests
  <1>1. /\ btEntries' = {e \in btEntries : e.layer # l} /\ btTests' = {t \in btTests : t.layer # l}
        /\ btLost' = btLost \cup {[name |-> t.name, test |-> t.test] : t \in InLayer(btTests, l)}
    BY DEF EmptySchema, InLayer
  <1>2. /\ btTests \subseteq SchemaTests /\ btAsked \subseteq AskedTests /\ btLost \subseteq AskedTests /\ btEntries \subseteq SchemaEntries
    BY DEF DbtTypes
  <1>3. \A t \in InLayer(btTests, l) : [name |-> t.name, test |-> t.test] \in AskedTests
    BY <1>2 DEF InLayer, SchemaTests, AskedTests
  <1>4. ASSUME NEW a \in btAsked, a \notin btLost'
        PROVE  \E t \in btTests' : t.name = a.name /\ t.test = a.test
    <2>1. PICK t \in btTests : t.name = a.name /\ t.test = a.test
      BY <1>1, <1>4 DEF SchemaInv
    <2>2. a = [name |-> a.name, test |-> a.test]
      BY <1>2 DEF AskedTests
    <2>3. t.layer # l
      <3>1. t.layer = l => a \in btLost'
        BY <1>1, <2>1, <2>2 DEF InLayer
      <3> QED
        BY <1>4, <3>1
    <2> QED
      BY <1>1, <2>1, <2>3
  <1>5. \A e \in btEntries' : e \in btLoose' \/ \E f \in btSql' : Entry(f) = e
    BY <1>1
  <1>6. SchemaInv'
    BY <1>4, <1>5 DEF SchemaInv
  <1>7. btLost' \subseteq AskedTests
    BY <1>1, <1>2, <1>3
  <1> QED
    BY <1>1, <1>2, <1>6, <1>7

\* What a request leaves alone, and what it needs.
LEMMA RequestTypes ==
    ASSUME DbtTypes, NEW first \in {"schema", "compile"}, NEW doing, Request(first, doing),
           (doing \in SchemaChanges /\ first = "schema") \/ (doing = NoChange /\ first = "compile")
    PROVE  /\ btAt \in [DbtRunners -> DbtPlaces] /\ btAt' = [btAt EXCEPT ![Editor] = first] /\ btAt[Editor] = "idle"
           /\ btAt' \in [DbtRunners -> DbtPlaces] /\ btParsed' = [w \in DbtRunners |-> btParsed'[w]]
           /\ btDoing' \in SchemaChanges \cup {NoChange} /\ (btDoing' = NoChange <=> btAt'[Editor] # "schema")
           /\ btRuns' \in Seq(Nat) /\ btLog' \in Seq(Nat) /\ btCopy' \in [DbtRunners -> Seq(Nat)]
           /\ btRun' \in [DbtRunners -> Nat] /\ btStarted' \in Nat /\ btCut' \in BOOLEAN
           /\ UNCHANGED <<btParsed, btManifest, btLate, btRun>> /\ UNCHANGED historyVars
           /\ btMissed' /\ btOld' = btOld \cup InDbt /\ btDoing' = doing
  <1>1. /\ btAt[Editor] = "idle" /\ btAt' = [btAt EXCEPT ![Editor] = first] /\ btDoing' = doing
        /\ UNCHANGED <<btParsed, btManifest, btLate, btRun, btStarted>> /\ UNCHANGED historyVars
        /\ btMissed' /\ btOld' = btOld \cup InDbt
    BY DEF Request, RunnerAt
  <1>2. btAt'[Editor] = first /\ btAt' \in [DbtRunners -> DbtPlaces]
    BY <1>1, DbtSets DEF DbtTypes, DbtPlaces
  <1>3. UNCHANGED <<btRuns, btLog, btCut, btCopy>>
    BY <1>1 DEF historyVars
  <1>4. btDoing' \in SchemaChanges \cup {NoChange} /\ (btDoing' = NoChange <=> btAt'[Editor] # "schema")
    BY <1>1, <1>2, DbtSets
  <1>5. btRuns' \in Seq(Nat) /\ btLog' \in Seq(Nat) /\ btCopy' \in [DbtRunners -> Seq(Nat)]
        /\ btRun' \in [DbtRunners -> Nat] /\ btStarted' \in Nat /\ btCut' \in BOOLEAN
    BY <1>1, <1>3 DEF DbtTypes
  <1>6. btParsed' = [w \in DbtRunners |-> btParsed'[w]] /\ btAt \in [DbtRunners -> DbtPlaces]
    BY <1>1 DEF DbtTypes
  <1> QED
    BY <1>1, <1>2, <1>4, <1>5, <1>6

\* Nobody's recording or load moves.
LEMMA HistoryStays ==
    ASSUME HistoryInv, UNCHANGED <<btRuns, btLog, btCut, btTold, btExcused>>,
           \A w \in DbtRunners : btAt'[w] \in Held \/ btAt[w] = "write" =>
               btAt'[w] = btAt[w] /\ btRun'[w] = btRun[w] /\ btCopy'[w] = btCopy[w]
    PROVE  HistoryInv'
  <1>1. Recording \subseteq Held /\ {"slice", "assign", "save", "write", "loaded"} \subseteq Held
    BY DEF Recording, Held
  <1>2. Listed(btRuns)' = Listed(btRuns) /\ Listed(btLog)' = Listed(btLog)
    BY DEF Listed
  <1>3. (btRuns' # <<>> \/ \E w \in DbtRunners : btAt'[w] \in Recording) => Listed(btRuns)'
    BY <1>1, <1>2 DEF HistoryInv
  <1>4. /\ \A w \in DbtRunners : btAt'[w] \in {"slice", "save", "write"} => btRun'[w] \in ToSet(btRuns') \cup btExcused'
        /\ \A w \in DbtRunners : btAt'[w] = "assign" =>
               btTold' \subseteq ToSet(btCopy'[w]) \cup btExcused' /\ btRun'[w] \in ToSet(btCopy'[w]) \cup btExcused'
    BY <1>1 DEF HistoryInv, Listed
  <1>5. \A w, u \in DbtRunners : w # u /\ btAt'[w] \in Recording /\ btAt'[u] \in Recording => btRun'[w] \in btExcused'
    BY <1>1 DEF HistoryInv
  <1>6. btAt'[Editor] = "loaded" => btRuns' # <<>> \/ btTold' \subseteq ToSet(btCopy'[Editor]) \cup btExcused'
    BY <1>1, DbtSets DEF HistoryInv, Listed
  <1>7. btCut' => btLog' = <<>> /\ (btRuns' = <<>> => btTold' \subseteq btExcused')
    BY DEF HistoryInv
  <1>8. RunsAreListed'
    BY DEF HistoryInv, RunsAreListed, Writing
  <1> QED
    BY <1>3, <1>4, <1>5, <1>6, <1>7, <1>8 DEF HistoryInv, Listed

\* What every request shows but for the files it changes.
LEMMA RequestKept ==
    ASSUME DbtInv, NEW first \in {"schema", "compile"}, NEW doing, Request(first, doing),
           (doing \in SchemaChanges /\ first = "schema") \/ (doing = NoChange /\ first = "compile"),
           UNCHANGED <<btEntries, btTests, btAsked, btLost>>, btLoose' \subseteq btLoose,
           btSql' \subseteq [layer : Layers, name : ModelNames, deps : Bodies],
           \A e \in btEntries : e \in btLoose \/ (\E f \in btSql : Entry(f) = e) =>
               e \in btLoose' \/ (\E f \in btSql' : Entry(f) = e) \/ (doing.op = "remove" /\ Entry(doing) = e)
    PROVE  DbtInv'
  <1>1. /\ btAt \in [DbtRunners -> DbtPlaces] /\ btAt' = [btAt EXCEPT ![Editor] = first] /\ btAt[Editor] = "idle"
        /\ btAt' \in [DbtRunners -> DbtPlaces] /\ btParsed' = [w \in DbtRunners |-> btParsed'[w]]
        /\ btDoing' \in SchemaChanges \cup {NoChange} /\ (btDoing' = NoChange <=> btAt'[Editor] # "schema")
        /\ btRuns' \in Seq(Nat) /\ btLog' \in Seq(Nat) /\ btCopy' \in [DbtRunners -> Seq(Nat)]
        /\ btRun' \in [DbtRunners -> Nat] /\ btStarted' \in Nat /\ btCut' \in BOOLEAN
        /\ UNCHANGED <<btParsed, btManifest, btLate, btRun>> /\ UNCHANGED historyVars
        /\ btMissed' /\ btOld' = btOld \cup InDbt /\ btDoing' = doing
    BY RequestTypes DEF DbtInv
  <1>2. DbtTypes'
    BY <1>1 DEF DbtInv, DbtTypes
  <1>3. ManifestInv'
    BY <1>1, FilesChange DEF DbtInv
  <1>4. SchemaInv'
    BY <1>1, RequestSchema DEF DbtInv
  <1>5. UNCHANGED <<btRuns, btCopy, btLog, btCut, btTold, btExcused>>
    BY <1>1 DEF historyVars
  <1>6. \A w \in DbtRunners : btAt'[w] \in Held \/ btAt[w] = "write" => btAt'[w] = btAt[w]
    BY <1>1 DEF Recording, Held
  <1>7. HistoryInv'
    BY <1>1, <1>5, <1>6, HistoryStays DEF DbtInv
  <1> QED
    BY <1>2, <1>3, <1>4, <1>7 DEF DbtInv

LEMMA DbtRequests ==
    ASSUME DbtInv, NEW l \in Layers, NEW n \in ModelNames,
           \/ \E deps \in Bodies : CreateModel(l, n, deps)
           \/ \E test \in DbtTests : AddTest(l, n, test)
           \/ \E kind \in {"plain", "relationships"} : DeleteTest(l, n, kind)
    PROVE  DbtInv'
  <1>0. btSql \subseteq [layer : Layers, name : ModelNames, deps : Bodies]
    BY DEF DbtInv, DbtTypes
  <1>1. ASSUME NEW deps \in Bodies, CreateModel(l, n, deps) PROVE DbtInv'
    <2>1. PICK doing : doing = [op |-> "enter", layer |-> l, name |-> n]
      OBVIOUS
    <2>2. doing \in SchemaChanges
      BY <2>1 DEF SchemaChanges
    <2>3. PICK f \in [layer : Layers, name : ModelNames, deps : Bodies] : f = [layer |-> l, name |-> n, deps |-> deps]
      OBVIOUS
    <2>4. Entry(f) = [layer |-> l, name |-> n]
      BY <2>3 DEF Entry
    <2>5. /\ Request("schema", doing) /\ UNCHANGED <<btEntries, btTests, btAsked, btLost>>
          /\ btSql' = btSql \cup {f} /\ btLoose' = btLoose \ {Entry(f)}
      BY <1>1, <2>1, <2>3, <2>4 DEF CreateModel
    <2>6. \A e \in btEntries : e \in btLoose \/ (\E g \in btSql : Entry(g) = e) =>
            e \in btLoose' \/ (\E g \in btSql' : Entry(g) = e)
      BY <2>5
    <2> QED
      BY <1>0, <2>2, <2>5, <2>6, RequestKept
  <1>2. ASSUME NEW test \in DbtTests, AddTest(l, n, test) PROVE DbtInv'
    <2>1. PICK doing : doing = [op |-> "test", layer |-> l, name |-> n, test |-> test]
      OBVIOUS
    <2>2. doing \in SchemaChanges
      BY <2>1 DEF SchemaChanges
    <2>3. Request("schema", doing) /\ UNCHANGED <<btSql, btEntries, btTests, btAsked, btLost, btLoose>>
      BY <1>2, <2>1 DEF AddTest, schemaVars
    <2> QED
      BY <1>0, <2>2, <2>3, RequestKept
  <1>3. ASSUME NEW kind \in {"plain", "relationships"}, DeleteTest(l, n, kind) PROVE DbtInv'
    <2>1. PICK doing : doing = [op |-> "untest", layer |-> l, name |-> n, kind |-> kind]
      OBVIOUS
    <2>2. doing \in SchemaChanges
      BY <2>1 DEF SchemaChanges
    <2>3. Request("schema", doing) /\ UNCHANGED <<btSql, btEntries, btTests, btAsked, btLost, btLoose>>
      BY <1>3, <2>1 DEF DeleteTest, schemaVars
    <2> QED
      BY <1>0, <2>2, <2>3, RequestKept
  <1> QED
    BY <1>1, <1>2, <1>3

LEMMA DbtModels ==
    ASSUME DbtInv, NEW f \in btSql,
           DeleteModel(f) \/ \E deps \in Bodies, described \in BOOLEAN : UpdateModel(f, deps, described)
    PROVE  DbtInv'
  <1>0. btSql \subseteq [layer : Layers, name : ModelNames, deps : Bodies]
    BY DEF DbtInv, DbtTypes
  <1>1. ASSUME DeleteModel(f) PROVE DbtInv'
    <2>1. PICK doing : doing = [op |-> "remove", layer |-> f.layer, name |-> f.name]
      OBVIOUS
    <2>2. doing \in SchemaChanges
      BY <1>0, <2>1 DEF SchemaChanges
    <2>3. doing.op = "remove" /\ Entry(doing) = Entry(f)
      BY <2>1 DEF Entry
    <2>4. Request("schema", doing) /\ btSql' = btSql \ {f} /\ UNCHANGED <<btEntries, btTests, btAsked, btLost, btLoose>>
      BY <1>1, <2>1 DEF DeleteModel, schemaVars
    <2>5. \A e \in btEntries : e \in btLoose \/ (\E g \in btSql : Entry(g) = e) =>
            e \in btLoose' \/ (\E g \in btSql' : Entry(g) = e) \/ (doing.op = "remove" /\ Entry(doing) = e)
      BY <2>3, <2>4
    <2> QED
      BY <1>0, <2>2, <2>4, <2>5, RequestKept
  <1>2. ASSUME NEW deps \in Bodies, NEW described \in BOOLEAN, UpdateModel(f, deps, described) PROVE DbtInv'
    <2>1. PICK first, doing : /\ first = IF described THEN "schema" ELSE "compile"
                              /\ doing = IF described THEN [op |-> "describe", layer |-> f.layer] ELSE NoChange
      OBVIOUS
    <2>2. (doing \in SchemaChanges /\ first = "schema") \/ (doing = NoChange /\ first = "compile")
      <3>1. [op |-> "describe", layer |-> f.layer] \in SchemaChanges
        BY <1>0 DEF SchemaChanges
      <3> QED
        BY <2>1, <3>1
    <2>a. f \in [layer : Layers, name : ModelNames, deps : Bodies]
      BY <1>0
    <2>b. [f EXCEPT !.deps = deps] \in [layer : Layers, name : ModelNames, deps : Bodies]
          /\ [f EXCEPT !.deps = deps].layer = f.layer /\ [f EXCEPT !.deps = deps].name = f.name
      BY <2>a
    <2>3. PICK g \in [layer : Layers, name : ModelNames, deps : Bodies] : g = [f EXCEPT !.deps = deps] /\ Entry(g) = Entry(f)
      BY <2>b DEF Entry
    <2>4. Request(first, doing) /\ btSql' = (btSql \ {f}) \cup {g} /\ UNCHANGED <<btEntries, btTests, btAsked, btLost, btLoose>>
      BY <1>2, <2>1, <2>3 DEF UpdateModel, schemaVars
    <2>5. \A e \in btEntries : e \in btLoose \/ (\E h \in btSql : Entry(h) = e) =>
            e \in btLoose' \/ (\E h \in btSql' : Entry(h) = e)
      BY <2>3, <2>4
    <2> QED
      BY <1>0, <2>2, <2>3, <2>4, <2>5, RequestKept
  <1> QED
    BY <1>1, <1>2

LEMMA DbtSources ==
    ASSUME DbtInv, NEW s \in SourceNames, AddSource(s) \/ DeleteSource(s) \/ \E new \in SourceNames : RenameSource(s, new)
    PROVE  DbtInv'
  <1>1. PICK sources : WriteSources(sources)
    BY DEF AddSource, DeleteSource, RenameSource
  <1>2. UNCHANGED <<btSql, btEntries, btTests, btAsked, btLost, btLoose>>
    BY DEF AddSource, DeleteSource, RenameSource, schemaVars
  <1>3. ASSUME Request("compile", NoChange) PROVE DbtInv'
    BY <1>2, <1>3, RequestKept DEF DbtInv, DbtTypes
  <1>4. ASSUME btAt[Editor] = "idle", btMissed', btOld' = btOld \cup InDbt,
               UNCHANGED <<btManifest, btAt, btDoing, btParsed, btRun, btStarted, btLate>>, UNCHANGED historyVars
        PROVE  DbtInv'
    <2>1. UNCHANGED <<btRuns, btCopy, btLog, btCut, btTold, btExcused>>
      BY <1>4 DEF historyVars
    <2>2. btAt' = [btAt EXCEPT ![Editor] = "idle"]
      BY <1>4, DbtSets DEF DbtInv, DbtTypes
    <2>3. DbtTypes'
      BY <1>2, <1>4, <2>1 DEF DbtInv, DbtTypes
    <2>4. ManifestInv'
      BY <1>4, <2>2, FilesChange DEF DbtInv
    <2>5. SchemaInv'
      BY <1>2, <1>4, SchemaStays DEF DbtInv
    <2>6. HistoryInv'
      BY <1>4, <2>1, HistoryStays DEF DbtInv
    <2> QED
      BY <2>3, <2>4, <2>5, <2>6 DEF DbtInv
  <1> QED
    BY <1>1, <1>3, <1>4 DEF WriteSources

LEMMA InFront == ASSUME NEW q \in Seq(Nat), NEW r \in Nat PROVE <<r>> \o q \in Seq(Nat) /\ ToSet(<<r>> \o q) = {r} \cup ToSet(q)
  <1>1. /\ <<r>> \o q \in Seq(Nat) /\ Len(<<r>> \o q) = 1 + Len(q) /\ (<<r>> \o q)[1] = r
        /\ \A i \in 1..Len(q) : (<<r>> \o q)[i + 1] = q[i]
    OBVIOUS
  <1>2. \A n \in Nat : 1 \in 1..1 + n /\ (\A i \in 1..n : i + 1 \in 1..1 + n) /\ \A j \in 1..1 + n : j = 1 \/ (j - 1 \in 1..n /\ (j - 1) + 1 = j)
    OBVIOUS
  <1>3. Len(q) \in Nat /\ DOMAIN q = 1..Len(q) /\ DOMAIN (<<r>> \o q) = 1..1 + Len(q)
    BY <1>1
  <1>4. \A x : x \in ToSet(<<r>> \o q) <=> x \in {r} \cup ToSet(q)
    <2>1. ASSUME NEW x \in ToSet(<<r>> \o q) PROVE x \in {r} \cup ToSet(q)
      <3>1. PICK j \in 1..1 + Len(q) : x = (<<r>> \o q)[j]
        BY <1>3, <2>1 DEF ToSet
      <3>2. CASE j = 1
        BY <1>1, <3>1, <3>2
      <3>3. CASE j - 1 \in 1..Len(q) /\ (j - 1) + 1 = j
        <4>1. x = q[j - 1]
          BY <1>1, <3>1, <3>3
        <4> QED
          BY <1>3, <3>3, <4>1 DEF ToSet
      <3> QED
        BY <1>2, <1>3, <3>2, <3>3
    <2>2. ASSUME NEW x \in {r} \cup ToSet(q) PROVE x \in ToSet(<<r>> \o q)
      <3>1. CASE x = r
        BY <1>1, <1>2, <1>3, <3>1 DEF ToSet
      <3>2. CASE x \in ToSet(q)
        <4>1. PICK i \in 1..Len(q) : x = q[i]
          BY <1>3, <3>2 DEF ToSet
        <4>2. i + 1 \in 1..1 + Len(q) /\ x = (<<r>> \o q)[i + 1]
          BY <1>1, <1>2, <1>3, <4>1
        <4> QED
          BY <1>3, <4>2 DEF ToSet
      <3> QED
        BY <2>2, <3>1, <3>2
    <2> QED
      BY <2>1, <2>2
  <1> QED
    BY <1>1, <1>4

LEMMA KeptAreRuns == ASSUME NEW q \in Seq(Nat) PROVE KeptRuns(q) \in Seq(Nat)
  <1>1. PICK n \in Nat : n = IF Len(q) > KeepRuns THEN KeepRuns ELSE Len(q)
    BY DbtSets
  <1>2. n <= Len(q) /\ \A i \in 1..n : q[i] \in Nat
    BY <1>1, DbtSets
  <1>3. SubSeq(q, 1, n) \in Seq(Nat)
    BY <1>1, <1>2, SubSeqProperties
  <1> QED
    BY <1>1, <1>3 DEF KeptRuns

LEMMA WriteSchemaKept == ASSUME DbtInv, WriteSchema PROVE DbtInv'
  <1>1. /\ btAt[Editor] = "schema" /\ ChangedSchema(btDoing) /\ UNCHANGED <<btSql, btLost>> /\ btDoing' = NoChange
        /\ btAt' = [btAt EXCEPT ![Editor] = "compile"] /\ btOld' = btOld \cup InDbt
        /\ UNCHANGED <<btParsed, btRun, btStarted, btMissed>> /\ UNCHANGED historyVars
    BY DEF WriteSchema, SchemaChange, RunnerAt
  <1>2. UNCHANGED <<btRuns, btCopy, btLog, btCut, btTold, btExcused>>
    BY <1>1 DEF historyVars
  <1>3. /\ SchemaInv' /\ btEntries' \subseteq SchemaEntries /\ btLoose' \subseteq SchemaEntries
        /\ btTests' \subseteq SchemaTests /\ btAsked' \subseteq AskedTests
    BY <1>1, ChangeKeeps DEF DbtInv
  <1>4. btAt'[Editor] = "compile" /\ btAt' \in [DbtRunners -> DbtPlaces]
    BY <1>1, DbtSets DEF DbtInv, DbtTypes, DbtPlaces
  <1>5. DbtTypes'
    BY <1>1, <1>2, <1>3, <1>4 DEF DbtInv, DbtTypes
  <1>6. btMissed'
    BY <1>1 DEF DbtInv, ManifestInv
  <1>7. ManifestInv'
    BY <1>1, <1>6, FilesChange DEF DbtInv
  <1>8. \A w \in DbtRunners : btAt'[w] \in Held \/ btAt[w] = "write" => btAt'[w] = btAt[w]
    BY <1>1 DEF DbtInv, DbtTypes, Recording, Held
  <1>9. HistoryInv'
    BY <1>1, <1>2, <1>8, HistoryStays DEF DbtInv
  <1> QED
    BY <1>3, <1>5, <1>7, <1>9 DEF DbtInv

LEMMA WriteSchemaFailsKept == ASSUME DbtInv, WriteSchemaFails PROVE DbtInv'
  <1>1. /\ btAt[Editor] = "schema" /\ EmptySchema(btDoing.layer) /\ UNCHANGED <<btSql, btAsked, btLoose>> /\ btDoing' = NoChange
        /\ btOld' = btOld \cup InDbt /\ UNCHANGED <<btParsed, btRun, btStarted, btMissed>> /\ UNCHANGED historyVars
    BY DEF WriteSchemaFails
  <1>2. UNCHANGED <<btRuns, btCopy, btLog, btCut, btTold, btExcused>>
    BY <1>1 DEF historyVars
  <1>3. PICK place \in {"idle", "compile"} : btAt' = [btAt EXCEPT ![Editor] = place]
    BY DEF WriteSchemaFails, RunnerAt
  <1>4. \A e \in btEntries : e.layer # btDoing.layer => e \in btLoose' \/ \E f \in btSql : Entry(f) = e
    BY <1>1 DEF DbtInv, SchemaInv, Entry
  <1>5. SchemaInv' /\ btEntries' \subseteq SchemaEntries /\ btTests' \subseteq SchemaTests /\ btLost' \subseteq AskedTests
    BY <1>1, <1>4, EmptyKeeps DEF DbtInv
  <1>6. btAt'[Editor] = place /\ btAt' \in [DbtRunners -> DbtPlaces]
    BY <1>3, DbtSets DEF DbtInv, DbtTypes, DbtPlaces
  <1>7. DbtTypes'
    BY <1>1, <1>2, <1>5, <1>6 DEF DbtInv, DbtTypes
  <1>8. btMissed'
    BY <1>1 DEF DbtInv, ManifestInv
  <1>9. ManifestInv'
    BY <1>1, <1>3, <1>8, FilesChange DEF DbtInv
  <1>10. \A w \in DbtRunners : btAt'[w] \in Held \/ btAt[w] = "write" => btAt'[w] = btAt[w]
    BY <1>1, <1>3 DEF DbtInv, DbtTypes, Recording, Held
  <1>11. HistoryInv'
    BY <1>1, <1>2, <1>10, HistoryStays DEF DbtInv
  <1> QED
    BY <1>5, <1>7, <1>9, <1>11 DEF DbtInv

LEMMA StartDbtKept == ASSUME DbtInv, NEW w \in DbtRunners, StartDbt(w) PROVE DbtInv'
  <1>1. /\ btAt[w] \in {"compile", "idle"} /\ btAt' = [btAt EXCEPT ![w] = "dbt"] /\ btParsed' = [btParsed EXCEPT ![w] = Project]
        /\ btStarted' = btStarted + 1 /\ btRun' = [btRun EXCEPT ![w] = btStarted']
        /\ UNCHANGED <<btSql, btDoing>> /\ UNCHANGED schemaVars /\ UNCHANGED historyVars
    BY DEF StartDbt, RunnerAt
  <1>2. /\ UNCHANGED <<btRuns, btCopy, btLog, btCut, btTold, btExcused>> /\ UNCHANGED <<btEntries, btTests, btAsked, btLost, btLoose>>
    BY <1>1 DEF historyVars, schemaVars
  <1>3. btAt'[w] = "dbt" /\ \A u \in DbtRunners : u # w => btAt'[u] = btAt[u] /\ btRun'[u] = btRun[u]
    BY <1>1 DEF DbtInv, DbtTypes
  <1>4. DbtTypes'
    <2>1. btAt' \in [DbtRunners -> DbtPlaces] /\ (btAt'[Editor] = "schema" <=> btAt[Editor] = "schema")
      BY <1>1, <1>3, DbtSets DEF DbtInv, DbtTypes, DbtPlaces
    <2>2. btStarted' \in Nat /\ btRun' \in [DbtRunners -> Nat]
      BY <1>1 DEF DbtInv, DbtTypes
    <2>3. btParsed' = [u \in DbtRunners |-> btParsed'[u]]
      BY <1>1 DEF DbtInv, DbtTypes
    <2> QED
      BY <1>1, <1>2, <2>1, <2>2, <2>3 DEF DbtInv, DbtTypes
  <1>5. ManifestInv'
    BY StartManifest DEF DbtInv
  <1>6. SchemaInv'
    BY <1>1, <1>2, SchemaStays DEF DbtInv
  <1>7. \A u \in DbtRunners : btAt'[u] \in Held \/ btAt[u] = "write" => btAt'[u] = btAt[u] /\ btRun'[u] = btRun[u]
    BY <1>1, <1>3 DEF Recording, Held
  <1>8. HistoryInv'
    BY <1>2, <1>7, HistoryStays DEF DbtInv
  <1> QED
    BY <1>4, <1>5, <1>6, <1>8 DEF DbtInv

LEMMA EndDbtKept == ASSUME DbtInv, NEW w \in DbtRunners, EndDbt(w) PROVE DbtInv'
  <1>1. /\ btAt[w] = "dbt" /\ btAt' = [btAt EXCEPT ![w] = "insert"] /\ UNCHANGED <<btSql, btDoing, btParsed, btRun, btStarted>>
        /\ UNCHANGED schemaVars /\ UNCHANGED historyVars
    BY DEF EndDbt, RunnerAt
  <1>2. /\ UNCHANGED <<btRuns, btCopy, btLog, btCut, btTold, btExcused>> /\ UNCHANGED <<btEntries, btTests, btAsked, btLost, btLoose>>
    BY <1>1 DEF historyVars, schemaVars
  <1>3. btAt'[w] = "insert" /\ \A u \in DbtRunners : u # w => btAt'[u] = btAt[u]
    BY <1>1 DEF DbtInv, DbtTypes
  <1>4. DbtTypes'
    <2>1. btAt' \in [DbtRunners -> DbtPlaces] /\ (btAt'[Editor] = "schema" <=> btAt[Editor] = "schema")
      BY <1>1, <1>3, DbtSets DEF DbtInv, DbtTypes, DbtPlaces
    <2> QED
      BY <1>1, <1>2, <2>1 DEF DbtInv, DbtTypes
  <1>5. ManifestInv'
    BY EndManifest DEF DbtInv
  <1>6. SchemaInv'
    BY <1>1, <1>2, SchemaStays DEF DbtInv
  <1>7. \A u \in DbtRunners : btAt'[u] \in Held \/ btAt[u] = "write" => btAt'[u] = btAt[u]
    BY <1>1, <1>3 DEF Recording, Held
  <1>8. HistoryInv'
    BY <1>1, <1>2, <1>7, HistoryStays DEF DbtInv
  <1> QED
    BY <1>4, <1>5, <1>6, <1>8 DEF DbtInv

(* The history of runs. *)

\* A step of a recording or a load leaves the rest to the lists of the runs.
LEMMA RecordingStep ==
    ASSUME DbtInv, NEW w \in DbtRunners, NEW place \in Held \cup {"idle", "list"},
           btAt[w] \in Held \cup {"insert", "idle", "list"}, btAt' = [btAt EXCEPT ![w] = place], UNCHANGED runVars
    PROVE  /\ ManifestInv' /\ SchemaInv'
           /\ btRuns' \in Seq(Nat) /\ btLog' \in Seq(Nat) /\ btCopy' \in [DbtRunners -> Seq(Nat)] /\ btCut' \in BOOLEAN => DbtTypes'
           /\ btAt'[w] = place /\ UNCHANGED btRun /\ \A u \in DbtRunners : u # w => btAt'[u] = btAt[u]
  <1>1. /\ UNCHANGED <<btSql, btEntries, btTests, btSources, btManifest, btDoing, btParsed, btRun, btStarted, btMissed, btOld, btLate>>
        /\ UNCHANGED <<btAsked, btLost, btLoose, btCalls>>
    BY DEF runVars
  <1>2. btAt'[w] = place /\ btAt' \in [DbtRunners -> DbtPlaces] /\ \A u \in DbtRunners : u # w => btAt'[u] = btAt[u]
    BY DEF DbtInv, DbtTypes, DbtPlaces, Held, Recording
  <1>3. (btAt'[Editor] = "schema" <=> btAt[Editor] = "schema") /\ \A u \in DbtRunners : btAt'[u] = "dbt" => btAt[u] = "dbt"
    BY <1>2, DbtSets DEF Held, Recording
  <1>4. ManifestInv'
    BY <1>1, <1>3, ManifestStays DEF DbtInv
  <1>5. SchemaInv'
    BY <1>1, SchemaStays DEF DbtInv
  <1>6. btRuns' \in Seq(Nat) /\ btLog' \in Seq(Nat) /\ btCopy' \in [DbtRunners -> Seq(Nat)] /\ btCut' \in BOOLEAN => DbtTypes'
    BY <1>1, <1>2, <1>3 DEF DbtInv, DbtTypes
  <1> QED
    BY <1>1, <1>2, <1>4, <1>5, <1>6

\* Where one that moves among those who record stands, and what HistoryInv says of it.
LEMMA Recorders ==
    /\ {"slice", "assign", "save", "write"} \subseteq Recording /\ Recording \subseteq Held /\ "loaded" \in Held
    /\ {"idle", "list", "loaded"} \cap Recording = {}
  BY DEF Recording, Held

LEMMA InsertRunKept == ASSUME DbtInv, NEW w \in DbtRunners, InsertRun(w) PROVE DbtInv'
  <1>1. PICK others : others = {u \in DbtRunners \ {w} : btAt[u] \in Recording}
    OBVIOUS
  <1>2. PICK r : r = btRun[w]
    OBVIOUS
  <1>3. /\ btAt[w] = "insert" /\ btAt' = [btAt EXCEPT ![w] = "slice"] /\ UNCHANGED runVars /\ UNCHANGED <<btCopy, btLog, btCut, btTold>>
        /\ btRuns' = <<r>> \o btRuns
        /\ btExcused' = btExcused \cup {btRun[u] : u \in others} \cup (IF others = {} THEN {} ELSE {r})
                            \cup (IF btRuns = <<>> THEN ToSet(btLog) ELSE {})
    BY <1>1, <1>2 DEF InsertRun, RunnerAt
  <1>4. /\ ManifestInv' /\ SchemaInv'
        /\ btRuns' \in Seq(Nat) /\ btLog' \in Seq(Nat) /\ btCopy' \in [DbtRunners -> Seq(Nat)] /\ btCut' \in BOOLEAN => DbtTypes'
        /\ btAt'[w] = "slice" /\ UNCHANGED btRun /\ \A u \in DbtRunners : u # w => btAt'[u] = btAt[u]
    BY <1>3, RecordingStep, Recorders
  <1>5. r \in Nat /\ btRuns \in Seq(Nat) /\ btLog \in Seq(Nat) /\ btCopy \in [DbtRunners -> Seq(Nat)] /\ btCut \in BOOLEAN
    BY <1>2 DEF DbtInv, DbtTypes
  <1>6. btRuns' \in Seq(Nat) /\ ToSet(btRuns') = {r} \cup ToSet(btRuns)
    BY <1>3, <1>5, InFront
  <1>7. DbtTypes'
    BY <1>3, <1>4, <1>5, <1>6
  <1>8. btExcused \subseteq btExcused' /\ (others # {} => r \in btExcused') /\ \A u \in others : btRun[u] \in btExcused'
    BY <1>3
  <1>9. btTold \subseteq ToSet(btRuns') \cup btExcused'
    <2>1. CASE Listed(btRuns)
      BY <1>6, <1>8, <2>1 DEF Listed
    <2>2. CASE ~Listed(btRuns)
      <3>1. btRuns = <<>> /\ ~Writing
        BY <2>2, Recorders DEF DbtInv, HistoryInv, Writing
      <3>2. btCut => btTold \subseteq btExcused
        BY <3>1 DEF DbtInv, HistoryInv
      <3>3. ~btCut => btTold \subseteq ToSet(btLog) \cup btExcused
        BY <3>1 DEF DbtInv, HistoryInv, RunsAreListed
      <3>4. ToSet(btLog) \subseteq btExcused'
        BY <1>3, <3>1
      <3> QED
        BY <1>8, <3>2, <3>3, <3>4
    <2> QED
      BY <2>1, <2>2
  <1>10. \A u \in DbtRunners : u # w /\ btAt'[u] \in Recording => btRun[u] \in btExcused' /\ r \in btExcused'
    BY <1>1, <1>4, <1>8
  <1>11. \A u \in DbtRunners : btAt'[u] \in {"slice", "save", "write"} => btRun'[u] \in ToSet(btRuns') \cup btExcused'
    BY <1>2, <1>4, <1>6, <1>10, Recorders
  <1>12. \A u \in DbtRunners : btAt'[u] = "assign" =>
            btTold' \subseteq ToSet(btCopy'[u]) \cup btExcused' /\ btRun'[u] \in ToSet(btCopy'[u]) \cup btExcused'
    BY <1>3, <1>4, <1>8 DEF DbtInv, HistoryInv, Listed
  <1>13. \A u, v \in DbtRunners : u # v /\ btAt'[u] \in Recording /\ btAt'[v] \in Recording => btRun'[u] \in btExcused'
    BY <1>2, <1>4, <1>8, <1>10 DEF DbtInv, HistoryInv
  <1>14. RunsAreListed'
    <2>1. Writing => Writing'
      BY <1>3, <1>4 DEF Writing
    <2> QED
      BY <1>3, <1>8, <2>1 DEF DbtInv, HistoryInv, RunsAreListed
  <1>15. btRuns' # <<>> /\ (btCut' => btLog' = <<>>)
    <2>1. r \in ToSet(btRuns') /\ ToSet(<<>>) = {}
      BY <1>6 DEF ToSet
    <2>2. btRuns' # <<>>
      BY <2>1
    <2> QED
      BY <1>3, <2>2 DEF DbtInv, HistoryInv
  <1>16. HistoryInv'
    BY <1>3, <1>9, <1>11, <1>12, <1>13, <1>14, <1>15 DEF HistoryInv, Listed
  <1> QED
    BY <1>4, <1>7, <1>16 DEF DbtInv

LEMMA SliceRunsKept == ASSUME DbtInv, NEW w \in DbtRunners, SliceRuns(w) PROVE DbtInv'
  <1>1. PICK kept : kept = KeptRuns(btRuns)
    OBVIOUS
  <1>2. /\ btAt[w] = "slice" /\ btAt' = [btAt EXCEPT ![w] = "assign"] /\ UNCHANGED runVars /\ UNCHANGED <<btRuns, btLog, btCut, btTold>>
        /\ btCopy' = [btCopy EXCEPT ![w] = kept] /\ btExcused' = btExcused \cup (ToSet(btRuns) \ ToSet(kept))
    BY <1>1 DEF SliceRuns, RunnerAt
  <1>3. /\ ManifestInv' /\ SchemaInv'
        /\ btRuns' \in Seq(Nat) /\ btLog' \in Seq(Nat) /\ btCopy' \in [DbtRunners -> Seq(Nat)] /\ btCut' \in BOOLEAN => DbtTypes'
        /\ btAt'[w] = "assign" /\ UNCHANGED btRun /\ \A u \in DbtRunners : u # w => btAt'[u] = btAt[u]
    BY <1>2, RecordingStep, Recorders
  <1>4. btRuns \in Seq(Nat) /\ btLog \in Seq(Nat) /\ btCopy \in [DbtRunners -> Seq(Nat)] /\ btCut \in BOOLEAN
    BY DEF DbtInv, DbtTypes
  <1>5. kept \in Seq(Nat)
    BY <1>1, <1>4, KeptAreRuns
  <1>6. DbtTypes'
    BY <1>2, <1>3, <1>4, <1>5
  <1>7. btExcused \subseteq btExcused' /\ ToSet(btRuns) \cup btExcused \subseteq ToSet(kept) \cup btExcused'
    BY <1>2
  <1>8. btCopy'[w] = kept /\ \A u \in DbtRunners : u # w => btCopy'[u] = btCopy[u]
    BY <1>2, <1>4
  <1>9. btTold \cup {btRun[w]} \subseteq ToSet(btRuns) \cup btExcused
    BY <1>2, Recorders DEF DbtInv, HistoryInv, Listed
  <1>10. \A u \in DbtRunners : btAt'[u] = "assign" =>
            btTold' \subseteq ToSet(btCopy'[u]) \cup btExcused' /\ btRun'[u] \in ToSet(btCopy'[u]) \cup btExcused'
    <2>1. btTold \cup {btRun[w]} \subseteq ToSet(kept) \cup btExcused'
      BY <1>7, <1>9
    <2>2. \A u \in DbtRunners : btAt[u] = "assign" =>
             btTold \subseteq ToSet(btCopy[u]) \cup btExcused' /\ btRun[u] \in ToSet(btCopy[u]) \cup btExcused'
      BY <1>7 DEF DbtInv, HistoryInv, Listed
    <2> QED
      BY <1>2, <1>3, <1>8, <2>1, <2>2
  <1>11. \A u \in DbtRunners : btAt'[u] \in {"slice", "save", "write"} => btRun'[u] \in ToSet(btRuns') \cup btExcused'
    BY <1>2, <1>3, <1>7 DEF DbtInv, HistoryInv
  <1>12. \A u, v \in DbtRunners : u # v /\ btAt'[u] \in Recording /\ btAt'[v] \in Recording => btRun'[u] \in btExcused'
    BY <1>2, <1>3, <1>7, Recorders DEF DbtInv, HistoryInv
  <1>13. RunsAreListed'
    <2>1. Writing => Writing'
      BY <1>2, <1>3 DEF Writing
    <2> QED
      BY <1>2, <1>7, <2>1 DEF DbtInv, HistoryInv, RunsAreListed
  <1>14. btAt'[Editor] = "loaded" => btRuns' # <<>> \/ btTold' \subseteq ToSet(btCopy'[Editor]) \cup btExcused'
    BY <1>2, <1>3, <1>7, <1>8, DbtSets DEF DbtInv, HistoryInv, Listed
  <1>15. /\ btTold' \subseteq ToSet(btRuns') \cup btExcused'
         /\ btCut' => btLog' = <<>> /\ (btRuns' = <<>> => btTold' \subseteq btExcused')
    BY <1>2, <1>7, <1>9 DEF DbtInv, HistoryInv
  <1>16. HistoryInv'
    BY <1>10, <1>11, <1>12, <1>13, <1>14, <1>15 DEF HistoryInv, Listed
  <1> QED
    BY <1>3, <1>6, <1>16 DEF DbtInv

LEMMA AssignRunsKept == ASSUME DbtInv, NEW w \in DbtRunners, AssignRuns(w) PROVE DbtInv'
  <1>1. PICK kept : kept = btCopy[w]
    OBVIOUS
  <1>2. /\ btAt[w] = "assign" /\ btAt' = [btAt EXCEPT ![w] = "save"] /\ UNCHANGED runVars
        /\ UNCHANGED <<btCopy, btLog, btCut, btTold, btExcused>> /\ btRuns' = kept
    BY <1>1 DEF AssignRuns, RunnerAt
  <1>3. /\ ManifestInv' /\ SchemaInv'
        /\ btRuns' \in Seq(Nat) /\ btLog' \in Seq(Nat) /\ btCopy' \in [DbtRunners -> Seq(Nat)] /\ btCut' \in BOOLEAN => DbtTypes'
        /\ btAt'[w] = "save" /\ UNCHANGED btRun /\ \A u \in DbtRunners : u # w => btAt'[u] = btAt[u]
    BY <1>2, RecordingStep, Recorders
  <1>4. btLog \in Seq(Nat) /\ btCopy \in [DbtRunners -> Seq(Nat)] /\ kept \in Seq(Nat) /\ btCut \in BOOLEAN
    BY <1>1 DEF DbtInv, DbtTypes
  <1>5. DbtTypes'
    BY <1>2, <1>3, <1>4
  <1>6. btTold \cup {btRun[w]} \subseteq ToSet(kept) \cup btExcused
    BY <1>1, <1>2 DEF DbtInv, HistoryInv, Listed
  <1>7. \A u \in DbtRunners : u # w /\ btAt[u] \in Recording => btRun[u] \in btExcused
    BY <1>2, Recorders DEF DbtInv, HistoryInv
  <1>8. \A u \in DbtRunners : btAt'[u] \in {"slice", "save", "write"} => btRun'[u] \in ToSet(btRuns') \cup btExcused'
    BY <1>2, <1>3, <1>6, <1>7, Recorders
  <1>9. \A u \in DbtRunners : btAt'[u] = "assign" =>
            btTold' \subseteq ToSet(btCopy'[u]) \cup btExcused' /\ btRun'[u] \in ToSet(btCopy'[u]) \cup btExcused'
    BY <1>2, <1>3 DEF DbtInv, HistoryInv, Listed
  <1>10. \A u, v \in DbtRunners : u # v /\ btAt'[u] \in Recording /\ btAt'[v] \in Recording => btRun'[u] \in btExcused'
    BY <1>2, <1>3, Recorders DEF DbtInv, HistoryInv
  <1>11. RunsAreListed'
    <2>1. Writing => Writing'
      BY <1>2, <1>3 DEF Writing
    <2> QED
      BY <1>2, <2>1 DEF DbtInv, HistoryInv, RunsAreListed
  <1>12. ToSet(<<>>) = {}
    BY DEF ToSet
  <1>13. btRuns' = <<>> => btTold' \subseteq btExcused'
    BY <1>2, <1>6, <1>12
  <1>14. btAt'[Editor] = "loaded" => btRuns' # <<>> \/ btTold' \subseteq ToSet(btCopy'[Editor]) \cup btExcused'
    BY <1>13
  <1>15. btTold' \subseteq ToSet(btRuns') \cup btExcused' /\ (btCut' => btLog' = <<>>)
    BY <1>2, <1>6 DEF DbtInv, HistoryInv
  <1>16. HistoryInv'
    BY <1>8, <1>9, <1>10, <1>11, <1>13, <1>14, <1>15 DEF HistoryInv, Listed
  <1> QED
    BY <1>3, <1>5, <1>16 DEF DbtInv

LEMMA OpenRunsKept == ASSUME DbtInv, NEW w \in DbtRunners, OpenRuns(w) PROVE DbtInv'
  <1>1. /\ btAt[w] = "save" /\ btAt' = [btAt EXCEPT ![w] = "write"] /\ UNCHANGED runVars
        /\ UNCHANGED <<btRuns, btCopy, btTold, btExcused>> /\ btLog' = <<>> /\ btCut' = FALSE
    BY DEF OpenRuns, RunnerAt
  <1>2. /\ ManifestInv' /\ SchemaInv'
        /\ btRuns' \in Seq(Nat) /\ btLog' \in Seq(Nat) /\ btCopy' \in [DbtRunners -> Seq(Nat)] /\ btCut' \in BOOLEAN => DbtTypes'
        /\ btAt'[w] = "write" /\ UNCHANGED btRun /\ \A u \in DbtRunners : u # w => btAt'[u] = btAt[u]
    BY <1>1, RecordingStep, Recorders
  <1>3. DbtTypes'
    <2>1. <<>> \in Seq(Nat) /\ FALSE \in BOOLEAN
      OBVIOUS
    <2>2. btRuns \in Seq(Nat) /\ btCopy \in [DbtRunners -> Seq(Nat)]
      BY DEF DbtInv, DbtTypes
    <2> QED
      BY <1>1, <1>2, <2>1, <2>2
  <1>4. Listed(btRuns)
    BY <1>1, Recorders DEF DbtInv, HistoryInv
  <1>5. \A u \in DbtRunners : btAt'[u] \in {"slice", "save", "write"} => btRun'[u] \in ToSet(btRuns') \cup btExcused'
    BY <1>1, <1>2 DEF DbtInv, HistoryInv
  <1>6. \A u \in DbtRunners : btAt'[u] = "assign" =>
            btTold' \subseteq ToSet(btCopy'[u]) \cup btExcused' /\ btRun'[u] \in ToSet(btCopy'[u]) \cup btExcused'
    BY <1>1, <1>2 DEF DbtInv, HistoryInv, Listed
  <1>7. \A u, v \in DbtRunners : u # v /\ btAt'[u] \in Recording /\ btAt'[v] \in Recording => btRun'[u] \in btExcused'
    BY <1>1, <1>2, Recorders DEF DbtInv, HistoryInv
  <1>8. RunsAreListed'
    BY <1>2 DEF RunsAreListed, Writing
  <1>9. btAt'[Editor] = "loaded" => btRuns' # <<>> \/ btTold' \subseteq ToSet(btCopy'[Editor]) \cup btExcused'
    BY <1>1, <1>2, DbtSets DEF DbtInv, HistoryInv, Listed
  <1>10. HistoryInv'
    BY <1>1, <1>4, <1>5, <1>6, <1>7, <1>8, <1>9 DEF HistoryInv, Listed
  <1> QED
    BY <1>2, <1>3, <1>10 DEF DbtInv

LEMMA SaveRunsKept == ASSUME DbtInv, NEW w \in DbtRunners, SaveRuns(w) PROVE DbtInv'
  <1>1. /\ btAt[w] = "write" /\ btAt' = [btAt EXCEPT ![w] = "idle"] /\ UNCHANGED runVars
        /\ UNCHANGED <<btRuns, btExcused>> /\ btTold' = btTold \cup {btRun[w]}
        /\ btCopy' = [btCopy EXCEPT ![w] = <<>>]
        /\ (btLog' = btRuns /\ btCut' = FALSE) \/ (btLog' = <<>> /\ btCut' = TRUE)
    BY DEF SaveRuns, RunnerAt
  <1>2. /\ ManifestInv' /\ SchemaInv'
        /\ btRuns' \in Seq(Nat) /\ btLog' \in Seq(Nat) /\ btCopy' \in [DbtRunners -> Seq(Nat)] /\ btCut' \in BOOLEAN => DbtTypes'
        /\ btAt'[w] = "idle" /\ UNCHANGED btRun /\ \A u \in DbtRunners : u # w => btAt'[u] = btAt[u]
    BY <1>1, RecordingStep, Recorders
  <1>3. btRuns \in Seq(Nat) /\ btCopy \in [DbtRunners -> Seq(Nat)] /\ <<>> \in Seq(Nat)
    BY DEF DbtInv, DbtTypes
  <1>4. DbtTypes'
    <2>1. btCopy' \in [DbtRunners -> Seq(Nat)]
      BY <1>1, <1>3
    <2>2. btLog' \in Seq(Nat) /\ btCut' \in BOOLEAN
      BY <1>1, <1>3
    <2> QED
      BY <1>1, <1>2, <1>3, <2>1, <2>2
  <1>5. btTold' \subseteq ToSet(btRuns) \cup btExcused
    BY <1>1, Recorders DEF DbtInv, HistoryInv, Listed
  <1>6. \A u \in DbtRunners : u # w /\ btAt[u] \in Recording => btRun[u] \in btExcused /\ btRun[w] \in btExcused
    BY <1>1, Recorders DEF DbtInv, HistoryInv
  <1>7. \A u \in DbtRunners : btAt'[u] \in {"slice", "save", "write"} => btRun'[u] \in ToSet(btRuns') \cup btExcused'
    BY <1>1, <1>2 DEF DbtInv, HistoryInv
  <1>8. \A u \in DbtRunners : u # w => btCopy'[u] = btCopy[u]
    BY <1>1, <1>3
  <1>9. \A u \in DbtRunners : btAt'[u] = "assign" =>
            btTold' \subseteq ToSet(btCopy'[u]) \cup btExcused' /\ btRun'[u] \in ToSet(btCopy'[u]) \cup btExcused'
    BY <1>1, <1>2, <1>6, <1>8, Recorders DEF DbtInv, HistoryInv, Listed
  <1>10. \A u, v \in DbtRunners : u # v /\ btAt'[u] \in Recording /\ btAt'[v] \in Recording => btRun'[u] \in btExcused'
    BY <1>1, <1>2, Recorders DEF DbtInv, HistoryInv
  <1>11. ToSet(<<>>) = {}
    BY DEF ToSet
  <1>12. btRuns' = <<>> => btTold' \subseteq btExcused'
    BY <1>1, <1>5, <1>11
  <1>13. RunsAreListed'
    BY <1>1, <1>5 DEF RunsAreListed
  <1>14. btAt'[Editor] = "loaded" => btRuns' # <<>> \/ btTold' \subseteq ToSet(btCopy'[Editor]) \cup btExcused'
    BY <1>12
  <1>15. HistoryInv'
    BY <1>1, <1>5, <1>7, <1>9, <1>10, <1>12, <1>13, <1>14 DEF HistoryInv, Listed
  <1> QED
    BY <1>2, <1>4, <1>15 DEF DbtInv

LEMMA ListRunsKept == ASSUME DbtInv, ListRuns PROVE DbtInv'
  <1>1. /\ btAt[Editor] = "idle" /\ btAt' = [btAt EXCEPT ![Editor] = "list"] /\ UNCHANGED runVars
        /\ UNCHANGED <<btRuns, btCopy, btLog, btCut, btTold, btExcused>>
    BY DEF ListRuns, RunnerAt
  <1>2. /\ ManifestInv' /\ SchemaInv'
        /\ btRuns' \in Seq(Nat) /\ btLog' \in Seq(Nat) /\ btCopy' \in [DbtRunners -> Seq(Nat)] /\ btCut' \in BOOLEAN => DbtTypes'
        /\ btAt'[Editor] = "list" /\ UNCHANGED btRun /\ \A u \in DbtRunners : u # Editor => btAt'[u] = btAt[u]
    BY <1>1, RecordingStep, DbtSets
  <1>3. DbtTypes'
    BY <1>1, <1>2 DEF DbtInv, DbtTypes
  <1>4. \A u \in DbtRunners : btAt'[u] \in Held \/ btAt[u] = "write" => btAt'[u] = btAt[u]
    BY <1>1, <1>2 DEF Held, Recording
  <1>5. HistoryInv'
    BY <1>1, <1>2, <1>4, HistoryStays DEF DbtInv
  <1> QED
    BY <1>2, <1>3, <1>5 DEF DbtInv

\* What has been loaded is the file of the last recording, unless one is under way.
LEMMA LoadRunsKept == ASSUME DbtInv, LoadRuns PROVE DbtInv'
  <1>1. PICK place \in {"idle", "loaded"} :
            /\ btAt[Editor] = "list" /\ btAt' = [btAt EXCEPT ![Editor] = place] /\ UNCHANGED runVars
            /\ UNCHANGED <<btRuns, btLog, btCut, btTold, btExcused>> /\ btCopy' = [btCopy EXCEPT ![Editor] = btLog]
            /\ place = "loaded" => btLog # <<>>
    BY DEF LoadRuns, RunnerAt
  <1>2. /\ ManifestInv' /\ SchemaInv'
        /\ btRuns' \in Seq(Nat) /\ btLog' \in Seq(Nat) /\ btCopy' \in [DbtRunners -> Seq(Nat)] /\ btCut' \in BOOLEAN => DbtTypes'
        /\ btAt'[Editor] = place /\ UNCHANGED btRun /\ \A u \in DbtRunners : u # Editor => btAt'[u] = btAt[u]
    BY <1>1, RecordingStep, Recorders, DbtSets
  <1>3. btLog \in Seq(Nat) /\ btRuns \in Seq(Nat) /\ btCopy \in [DbtRunners -> Seq(Nat)] /\ btCut \in BOOLEAN
    BY DEF DbtInv, DbtTypes
  <1>4. btCopy' \in [DbtRunners -> Seq(Nat)] /\ btCopy'[Editor] = btLog /\ \A u \in DbtRunners : u # Editor => btCopy'[u] = btCopy[u]
    BY <1>1, <1>3, DbtSets
  <1>5. DbtTypes'
    BY <1>1, <1>2, <1>3, <1>4
  <1>6. \A u \in DbtRunners : btAt'[u] \in Recording => u # Editor /\ btAt'[u] = btAt[u]
    BY <1>2, Recorders
  <1>7. \A u \in DbtRunners : btAt[u] \in {"slice", "save", "write"} => btRun[u] \in ToSet(btRuns) \cup btExcused
    BY DEF DbtInv, HistoryInv
  <1>8. \A u \in DbtRunners : btAt'[u] \in {"slice", "save", "write"} => btRun'[u] \in ToSet(btRuns') \cup btExcused'
    BY <1>1, <1>2, <1>6, <1>7, Recorders
  <1>9. \A u \in DbtRunners : btAt'[u] = "assign" =>
            btTold' \subseteq ToSet(btCopy'[u]) \cup btExcused' /\ btRun'[u] \in ToSet(btCopy'[u]) \cup btExcused'
    BY <1>1, <1>2, <1>4, <1>6, Recorders DEF DbtInv, HistoryInv, Listed
  <1>10. \A u, v \in DbtRunners : u # v /\ btAt'[u] \in Recording /\ btAt'[v] \in Recording => btRun'[u] \in btExcused'
    BY <1>1, <1>2, <1>6 DEF DbtInv, HistoryInv
  <1>11. RunsAreListed' /\ (btRuns' # <<>> \/ (\E u \in DbtRunners : btAt'[u] \in Recording) => btTold' \subseteq ToSet(btRuns') \cup btExcused')
    <2>1. Writing => Writing'
      BY <1>1, <1>2 DEF Writing
    <2>2. RunsAreListed'
      BY <1>1, <2>1 DEF DbtInv, HistoryInv, RunsAreListed
    <2>3. btRuns' # <<>> \/ (\E u \in DbtRunners : btAt'[u] \in Recording) => btTold' \subseteq ToSet(btRuns') \cup btExcused'
      BY <1>1, <1>6 DEF DbtInv, HistoryInv, Listed
    <2> QED
      BY <2>2, <2>3
  <1>12. btAt'[Editor] = "loaded" => btRuns' # <<>> \/ btTold' \subseteq ToSet(btCopy'[Editor]) \cup btExcused'
    <2> SUFFICES ASSUME place = "loaded", btRuns = <<>> PROVE btTold \subseteq ToSet(btLog) \cup btExcused
      BY <1>1, <1>2, <1>4
    <2>1. ~btCut
      BY <1>1 DEF DbtInv, HistoryInv
    <2>2. ToSet(<<>>) = {}
      BY DEF ToSet
    <2>3. Writing => btTold \subseteq btExcused
      BY <2>2, Recorders DEF Writing, DbtInv, HistoryInv, Listed
    <2> QED
      BY <2>1, <2>3 DEF DbtInv, HistoryInv, RunsAreListed
  <1>13. btCut' => btLog' = <<>> /\ (btRuns' = <<>> => btTold' \subseteq btExcused')
    BY <1>1 DEF DbtInv, HistoryInv
  <1>14. HistoryInv'
    BY <1>8, <1>9, <1>10, <1>11, <1>12, <1>13 DEF HistoryInv, Listed
  <1> QED
    BY <1>2, <1>5, <1>14 DEF DbtInv

LEMMA ReplaceRunsKept == ASSUME DbtInv, ReplaceRuns PROVE DbtInv'
  <1>1. PICK loaded : loaded = btCopy[Editor]
    OBVIOUS
  <1>2. /\ btAt[Editor] = "loaded" /\ btAt' = [btAt EXCEPT ![Editor] = "idle"] /\ UNCHANGED runVars
        /\ UNCHANGED <<btLog, btCut, btTold>> /\ btRuns' = loaded /\ btCopy' = [btCopy EXCEPT ![Editor] = <<>>]
        /\ btExcused' = btExcused \cup (ToSet(btRuns) \ ToSet(loaded))
    BY <1>1 DEF ReplaceRuns, RunnerAt
  <1>3. /\ ManifestInv' /\ SchemaInv'
        /\ btRuns' \in Seq(Nat) /\ btLog' \in Seq(Nat) /\ btCopy' \in [DbtRunners -> Seq(Nat)] /\ btCut' \in BOOLEAN => DbtTypes'
        /\ btAt'[Editor] = "idle" /\ UNCHANGED btRun /\ \A u \in DbtRunners : u # Editor => btAt'[u] = btAt[u]
    BY <1>2, RecordingStep, Recorders, DbtSets
  <1>4. /\ btLog \in Seq(Nat) /\ btCopy \in [DbtRunners -> Seq(Nat)] /\ loaded \in Seq(Nat) /\ <<>> \in Seq(Nat)
        /\ btCut \in BOOLEAN
    BY <1>1, DbtSets DEF DbtInv, DbtTypes
  <1>5. btCopy' \in [DbtRunners -> Seq(Nat)] /\ \A u \in DbtRunners : u # Editor => btCopy'[u] = btCopy[u]
    BY <1>2, <1>4, DbtSets
  <1>6. DbtTypes'
    BY <1>2, <1>3, <1>4, <1>5
  <1>7. btExcused \subseteq btExcused' /\ ToSet(btRuns) \cup btExcused \subseteq ToSet(loaded) \cup btExcused'
    BY <1>2
  <1>8. btTold \subseteq ToSet(loaded) \cup btExcused'
    <2>1. CASE btRuns # <<>>
      BY <1>7, <2>1 DEF DbtInv, HistoryInv, Listed
    <2>2. CASE btRuns = <<>>
      BY <1>1, <1>2, <1>7, <2>2 DEF DbtInv, HistoryInv, Listed
    <2> QED
      BY <2>1, <2>2
  <1>9. \A u \in DbtRunners : btAt'[u] \in Recording => u # Editor /\ btAt'[u] = btAt[u]
    BY <1>3, Recorders
  <1>10. \A u \in DbtRunners : btAt'[u] \in {"slice", "save", "write"} => btRun'[u] \in ToSet(btRuns') \cup btExcused'
    <2>1. \A u \in DbtRunners : btAt[u] \in {"slice", "save", "write"} => btRun[u] \in ToSet(btRuns) \cup btExcused
      BY DEF DbtInv, HistoryInv
    <2> QED
      BY <1>2, <1>3, <1>7, <1>9, <2>1, Recorders
  <1>11. \A u \in DbtRunners : btAt'[u] = "assign" =>
            btTold' \subseteq ToSet(btCopy'[u]) \cup btExcused' /\ btRun'[u] \in ToSet(btCopy'[u]) \cup btExcused'
    <2>1. \A u \in DbtRunners : btAt[u] = "assign" =>
             btTold \subseteq ToSet(btCopy[u]) \cup btExcused /\ btRun[u] \in ToSet(btCopy[u]) \cup btExcused
      BY DEF DbtInv, HistoryInv, Listed
    <2> QED
      BY <1>2, <1>3, <1>5, <1>7, <1>9, <2>1, Recorders
  <1>12. \A u, v \in DbtRunners : u # v /\ btAt'[u] \in Recording /\ btAt'[v] \in Recording => btRun'[u] \in btExcused'
    BY <1>2, <1>3, <1>7, <1>9 DEF DbtInv, HistoryInv
  <1>13. RunsAreListed'
    <2>1. Writing => Writing'
      BY <1>2, <1>3 DEF Writing
    <2> QED
      BY <1>2, <1>7, <2>1 DEF DbtInv, HistoryInv, RunsAreListed
  <1>14. btCut' => btLog' = <<>> /\ (btRuns' = <<>> => btTold' \subseteq btExcused')
    <2>1. ToSet(<<>>) = {}
      BY DEF ToSet
    <2> QED
      BY <1>2, <1>8, <2>1 DEF DbtInv, HistoryInv
  <1>15. HistoryInv'
    BY <1>2, <1>3, <1>8, <1>10, <1>11, <1>12, <1>13, <1>14 DEF HistoryInv, Listed
  <1> QED
    BY <1>3, <1>6, <1>15 DEF DbtInv

LEMMA RestartDbtKept == ASSUME DbtInv, RestartDbt PROVE DbtInv'
  <1>1. /\ btAt' = [w \in DbtRunners |-> "idle"] /\ btDoing' = NoChange /\ btOld' = {}
        /\ btParsed' = [w \in DbtRunners |-> Invalid] /\ btRuns' = <<>> /\ btCopy' = [w \in DbtRunners |-> <<>>]
        /\ UNCHANGED <<btSql, btSources, btManifest, btRun, btStarted, btMissed, btLate, btAsked, btTold>>
        /\ btLoose' = IF btDoing.op = "remove" THEN btLoose \cup {Entry(btDoing)} ELSE btLoose
    BY DEF RestartDbt
  <1>2. /\ btLog' \in {btLog, <<>>} /\ UNCHANGED btCut
        /\ \/ btLog' = btLog /\ btExcused' = btExcused /\ ~btCut /\ ~Writing
           \/ btExcused' = btExcused \cup btTold
    <2>1. PICK writing \in BOOLEAN : writing = Writing
      BY DEF Writing
    <2>2. PICK cut \in {FALSE, writing} : btLog' = IF cut THEN <<>> ELSE btLog
      BY <2>1 DEF RestartDbt
    <2>3. btExcused' = (IF btCut \/ writing THEN btExcused \cup btTold ELSE btExcused) /\ UNCHANGED btCut
      BY <2>1 DEF RestartDbt
    <2>4. cut => writing
      BY <2>2
    <2>5. CASE btCut \/ writing
      BY <2>2, <2>3, <2>5
    <2>6. CASE ~btCut /\ ~writing
      BY <2>1, <2>2, <2>3, <2>4, <2>6, Zenon
    <2> QED
      BY <2>5, <2>6
  <1>3. \/ UNCHANGED <<btEntries, btTests, btLost>>
        \/ btAt[Editor] = "schema" /\ EmptySchema(btDoing.layer)
    BY DEF RestartDbt
  <1>4. <<>> \in Seq(Nat) /\ \A w \in DbtRunners : btAt'[w] = "idle" /\ btAt'[w] \in DbtPlaces /\ btAt'[w] \notin Recording
    BY <1>1 DEF DbtPlaces, Recording
  <1>5. btLoose' \subseteq SchemaEntries /\ btLoose \subseteq btLoose'
    <2>1. btDoing.op = "remove" => Entry(btDoing) \in SchemaEntries
      BY DbtSets DEF DbtInv, DbtTypes, SchemaChanges, SchemaEntries, Entry
    <2> QED
      BY <1>1, <2>1 DEF DbtInv, DbtTypes
  <1>6. \A e \in btEntries : e \in btLoose' \/ \E f \in btSql : Entry(f) = e
    BY <1>1, <1>5 DEF DbtInv, SchemaInv
  <1>7. SchemaInv' /\ btEntries' \subseteq SchemaEntries /\ btTests' \subseteq SchemaTests /\ btLost' \subseteq AskedTests
    <2>1. CASE UNCHANGED <<btEntries, btTests, btLost>>
      <3>1. \A a \in btAsked' : a \in btLost' \/ \E t \in btTests' : t.name = a.name /\ t.test = a.test
        BY <1>1, <2>1 DEF DbtInv, SchemaInv
      <3>2. \A e \in btEntries' : e \in btLoose' \/ \E f \in btSql' : Entry(f) = e
        BY <1>1, <1>6, <2>1
      <3> QED
        BY <2>1, <3>1, <3>2 DEF SchemaInv, DbtInv, DbtTypes
    <2>2. CASE btAt[Editor] = "schema" /\ EmptySchema(btDoing.layer)
      BY <1>1, <1>6, <2>2, EmptyKeeps DEF DbtInv
    <2> QED
      BY <1>3, <2>1, <2>2
  <1>8. btLog' \in Seq(Nat)
    BY <1>2, <1>4 DEF DbtInv, DbtTypes
  <1>9. DbtTypes'
    BY <1>1, <1>2, <1>4, <1>5, <1>7, <1>8, DbtSets DEF DbtInv, DbtTypes
  <1>10. ManifestInv'
    <2>1. ManifestExplained'
      <3>1. CASE UNCHANGED <<btEntries, btTests, btLost>>
        <4>1. Project' = Project
          BY <1>1, <3>1, ProjectSame
        <4> QED
          BY <1>1, <4>1 DEF DbtInv, ManifestInv, ManifestExplained
      <3>2. CASE btAt[Editor] = "schema"
        BY <1>1, <3>2 DEF DbtInv, ManifestInv, ManifestExplained
      <3> QED
        BY <1>3, <3>1, <3>2
    <2> QED
      BY <1>4, <2>1, DbtSets DEF ManifestInv
  <1>11. HistoryInv'
    <2>1. btTold' = btTold /\ ((~btCut /\ ~Writing /\ btLog' = btLog /\ btExcused' = btExcused) \/ btTold' \subseteq btExcused')
      BY <1>1, <1>2
    <2>2. RunsAreListed'
      BY <1>2, <2>1 DEF DbtInv, HistoryInv, RunsAreListed
    <2>3. btCut' => btLog' = <<>> /\ btTold' \subseteq btExcused'
      BY <1>2, <2>1 DEF DbtInv, HistoryInv
    <2>4. btAt'[Editor] # "loaded" /\ btRuns' = <<>>
      BY <1>1, DbtSets
    <2> QED
      BY <1>4, <2>2, <2>3, <2>4 DEF HistoryInv
  <1> QED
    BY <1>7, <1>9, <1>10, <1>11 DEF DbtInv

LEMMA DbtStarts == DbtInit => DbtInv
  <1> SUFFICES ASSUME DbtInit PROVE DbtInv
    OBVIOUS
  <1>1. <<>> \in Seq(Nat) /\ 0 \in Nat /\ \A w \in DbtRunners : btAt[w] = "idle" /\ btAt[w] \in DbtPlaces /\ btAt[w] \notin Recording
    BY DEF DbtInit, DbtPlaces, Recording
  <1>2. DbtTypes
    BY <1>1, DbtSets DEF DbtInit, DbtTypes
  <1>3. Project = btManifest
    <2>1. Models = {} /\ Checked = {} /\ IsInjective(btSources)
      BY DEF DbtInit, Models, Checked, IsInjective
    <2> QED
      BY <2>1 DEF DbtInit, Project
  <1>4. ManifestInv
    BY <1>1, <1>3, DbtSets DEF ManifestInv, ManifestExplained
  <1>5. SchemaInv /\ HistoryInv
    BY <1>1, DbtSets DEF DbtInit, SchemaInv, HistoryInv, RunsAreListed
  <1> QED
    BY <1>2, <1>4, <1>5 DEF DbtInv

LEMMA DbtSteps == DbtInv /\ [DbtNext]_dbtVars => DbtInv'
  <1> SUFFICES ASSUME DbtInv, [DbtNext]_dbtVars PROVE DbtInv'
    OBVIOUS
  <1>1. ASSUME NEW w \in DbtRunners,
               \/ StartDbt(w) \/ EndDbt(w)
               \/ InsertRun(w) \/ SliceRuns(w) \/ AssignRuns(w) \/ OpenRuns(w) \/ SaveRuns(w)
        PROVE  DbtInv'
    BY <1>1, StartDbtKept, EndDbtKept, InsertRunKept, SliceRunsKept, AssignRunsKept, OpenRunsKept, SaveRunsKept
  <1>2. ASSUME WriteSchema \/ WriteSchemaFails \/ ListRuns \/ LoadRuns \/ ReplaceRuns \/ RestartDbt PROVE DbtInv'
    BY <1>2, WriteSchemaKept, WriteSchemaFailsKept, ListRunsKept, LoadRunsKept, ReplaceRunsKept, RestartDbtKept
  <1>3. ASSUME UNCHANGED dbtVars PROVE DbtInv'
    <2>1. /\ UNCHANGED <<btSql, btEntries, btTests, btSources, btManifest, btAt, btDoing, btParsed, btRuns, btCopy, btLog>>
          /\ UNCHANGED <<btCut, btRun, btStarted, btMissed, btOld, btLate, btAsked, btLost, btLoose, btTold, btExcused>>
      BY <1>3 DEF dbtVars
    <2>2. DbtTypes'
      BY <2>1 DEF DbtInv, DbtTypes
    <2>3. ManifestInv'
      BY <2>1, ManifestStays DEF DbtInv
    <2>4. SchemaInv'
      BY <2>1, SchemaStays DEF DbtInv
    <2>5. HistoryInv'
      BY <2>1, HistoryStays DEF DbtInv
    <2> QED
      BY <2>2, <2>3, <2>4, <2>5 DEF DbtInv
  <1>4. ASSUME NEW l \in Layers, NEW n \in ModelNames,
               \/ \E deps \in Bodies : CreateModel(l, n, deps)
               \/ \E test \in DbtTests : AddTest(l, n, test)
               \/ \E kind \in {"plain", "relationships"} : DeleteTest(l, n, kind)
        PROVE  DbtInv'
    BY <1>4, DbtRequests
  <1>5. ASSUME NEW f \in btSql, DeleteModel(f) \/ \E deps \in Bodies, described \in BOOLEAN : UpdateModel(f, deps, described)
        PROVE  DbtInv'
    BY <1>5, DbtModels
  <1>6. ASSUME NEW s \in SourceNames, AddSource(s) \/ DeleteSource(s) \/ \E new \in SourceNames : RenameSource(s, new)
        PROVE  DbtInv'
    BY <1>6, DbtSources
  <1> QED
    BY <1>1, <1>2, <1>3, <1>4, <1>5, <1>6 DEF DbtNext

LEMMA DbtShows == DbtInv => DbtKept
  <1> SUFFICES ASSUME DbtInv PROVE DbtKept
    OBVIOUS
  <1>1. TestsKept
    <2>1. btAt[Editor] # "schema" => btDoing.op # "remove"
      BY DbtSets DEF DbtInv, DbtTypes
    <2> QED
      BY <2>1 DEF TestsKept, DbtInv, SchemaInv
  <1> QED
    BY <1>1 DEF DbtKept, DbtInv, ManifestInv, HistoryInv

\* The studio shows of the dbt project what its files hold unless a compilation failed or a job's came late,
\* tests are lost only with their file, and recorded runs only where recordings met, a load came between, a
\* write failed or was cut off, or over the cap (web/dbt_service.py: the editor's requests, run_dbt_cli,
\* _save_run_record and _load_runs_history), for any number of threads and runs.
THEOREM DbtIsKept == DbtSpec => []DbtKept
  <1>1. DbtInit => DbtInv
    BY DbtStarts
  <1>2. DbtInv /\ [DbtNext]_dbtVars => DbtInv'
    BY DbtSteps
  <1>3. DbtInv => DbtKept
    BY DbtShows
  <1> QED
    BY <1>1, <1>2, <1>3, PTL DEF DbtSpec

-----------------------------------------------------------------------------
(* Catalogs and mounts.                                                    *)
(*                                                                         *)
(* SyncRepairs speaks of the end of a synchronisation nothing interferes   *)
(* with; the invariant says of each of its stages what it has repaired so  *)
(* far.  Meanwhile every other caller is yet to touch the files or the     *)
(* databases.                                                              *)

AMount == [id : Nat, name : Names, kind : {"postgres", "s3", "sqlite"}, readOnly : BOOLEAN, enabled : BOOLEAN]

Quiet == {"idle", "sync", "open"}
Stages == {"detach", "attach", "read", "clean", "mount"}

CatalogTypes ==
    /\ ctFile \subseteq Names /\ ctCut \in BOOLEAN /\ moFile \in Seq(AMount) /\ moCut \in BOOLEAN
    /\ dbAttached = [n \in DOMAIN dbAttached |-> dbAttached[n]] /\ ctChanges \in Nat
    /\ syAt \in [SessionUsers -> Quiet \cup Stages \cup {"catalogs", "mounts"}]
    /\ syCatalogs \in [SessionUsers -> SUBSET Names]
    /\ syMounts \in [SessionUsers -> Seq(AMount)]
    /\ ctCalm \in {"no", "syncing", "synced"}

\* A file is truncated only while a caller writes it.
CutInv ==
    /\ ctCut => syAt[Loop] = "catalogs"
    /\ moCut => \E c \in SessionUsers : syAt[c] = "mounts"

\* Only a disturbed synchronisation detaches what the session has.
LostInv == dbSession \ DOMAIN dbAttached \subseteq ctLost

\* The mount is the only one of its name.
OwnName(m) == \A other \in ToSet(moFile) : other.name = m.name => other = m

\* A mount's database is there, and a Postgres one is as writable as the mount says.
Served(m) ==
    /\ m.name \in DOMAIN dbAttached
    /\ m.kind = "postgres" /\ OwnName(m) => dbAttached[m.name].readOnly = m.readOnly

\* Attached are catalogs and enabled mounts, and every catalog is attached or lost.
OnlyKnown == DOMAIN dbAttached \subseteq ActiveNames(moFile) \cup ctFile
AllCatalogs == ctFile \subseteq DOMAIN dbAttached \cup ctLost

\* What the synchronisation of c has repaired.
Repaired(c) ==
    /\ syAt[c] \in Stages
    /\ syAt[c] \in {"detach", "attach"} => syCatalogs[c] = ctFile
    /\ syAt[c] \in {"attach", "read", "clean"} => dbSession \subseteq ctFile
    /\ syAt[c] \in {"read", "clean", "mount"} => AllCatalogs
    /\ syAt[c] = "clean" => syMounts[c] = moFile
    /\ syAt[c] = "mount" =>
           /\ OnlyKnown
           /\ ToSet(syMounts[c]) \subseteq ToSet(moFile)
           /\ \A m \in Attachable \ ToSet(syMounts[c]) : Served(m)

CalmInv ==
    /\ ctCalm = "synced" =>
           /\ \A c \in SessionUsers : syAt[c] \in Quiet
           /\ OnlyKnown /\ AllCatalogs /\ \A m \in Attachable : Served(m)
    /\ ctCalm = "syncing" =>
           \A c \in SessionUsers : syAt[c] \notin Quiet =>
               /\ Repaired(c)
               /\ \A other \in SessionUsers \ {c} : syAt[other] \in Quiet

CatalogInv == CatalogTypes /\ CutInv /\ LostInv /\ CalmInv

-----------------------------------------------------------------------------
LEMMA LoadedTypes ==
    ASSUME CatalogTypes
    PROVE  LoadedCatalogs \subseteq Names /\ LoadedMounts \in Seq(AMount)
  BY CatalogAssumption DEF CatalogTypes, LoadedCatalogs, LoadedMounts

LEMMA AttachedIsFunction ==
    ASSUME NEW names, NEW what
    PROVE  /\ Attached(names, what) = [n \in DOMAIN Attached(names, what) |-> Attached(names, what)[n]]
           /\ DOMAIN Attached(names, what) = DOMAIN dbAttached \cup names
           /\ \A n \in DOMAIN dbAttached \cup names :
                  Attached(names, what)[n] = IF n \in names THEN what ELSE dbAttached[n]
  BY DEF Attached

LEMMA RestrictIsFunction ==
    ASSUME NEW f, NEW S
    PROVE  /\ Restrict(f, S) = [n \in DOMAIN Restrict(f, S) |-> Restrict(f, S)[n]]
           /\ DOMAIN Restrict(f, S) = S
           /\ \A n \in S : Restrict(f, S)[n] = f[n]
  BY DEF Restrict

LEMMA RestTypes ==
    ASSUME NEW S, NEW s \in Seq(S), s # <<>>
    PROVE  /\ Head(s) \in S /\ Tail(s) \in Seq(S)
           /\ Head(s) \in ToSet(s) /\ ToSet(s) = {Head(s)} \cup ToSet(Tail(s))
  <1>1. Len(s) \in Nat \ {0} /\ DOMAIN s = 1..Len(s) /\ Head(s) = s[1] /\ Head(s) \in S
    BY HeadTailProperties
  <1>2. Tail(s) \in Seq(S) /\ Len(Tail(s)) = Len(s) - 1 /\ DOMAIN Tail(s) = 1..(Len(s) - 1)
        /\ \A i \in 1..(Len(s) - 1) : Tail(s)[i] = s[i + 1]
    BY HeadTailProperties
  <1>3. Head(s) \in ToSet(s)
    BY <1>1 DEF ToSet
  <1>4. ToSet(Tail(s)) \subseteq ToSet(s)
    <2> SUFFICES ASSUME NEW x \in ToSet(Tail(s)) PROVE x \in ToSet(s)
      OBVIOUS
    <2>1. PICK i \in 1..(Len(s) - 1) : x = Tail(s)[i]
      BY <1>2 DEF ToSet
    <2>2. i + 1 \in DOMAIN s /\ x = s[i + 1]
      BY <2>1, <1>1, <1>2
    <2> QED
      BY <2>2 DEF ToSet
  <1>5. \A x \in ToSet(s) : x = Head(s) \/ x \in ToSet(Tail(s))
    <2> TAKE x \in ToSet(s)
    <2>1. PICK i \in 1..Len(s) : x = s[i]
      BY <1>1 DEF ToSet
    <2>2. CASE i = 1
      BY <2>1, <2>2, <1>1
    <2>3. CASE i # 1
      <3>1. i - 1 \in 1..(Len(s) - 1) /\ Tail(s)[i - 1] = s[i]
        <4>1. i - 1 \in 1..(Len(s) - 1) /\ (i - 1) + 1 = i
          BY <2>1, <2>3, <1>1
        <4> QED
          BY <4>1, <1>2
      <3> QED
        BY <3>1, <2>1, <1>2 DEF ToSet
    <2> QED
      BY <2>2, <2>3
  <1> QED
    BY <1>1, <1>2, <1>3, <1>4, <1>5

LEMMA RemovedTypes ==
    ASSUME NEW s \in Seq(AMount), NEW i \in DOMAIN s
    PROVE  RemoveAt(s, i) \in Seq(AMount)
  <1>1. Len(s) \in Nat /\ i \in 1..Len(s)
    OBVIOUS
  <1>2. SubSeq(s, 1, i - 1) \in Seq(AMount)
    <2>1. \A j \in 1..(i - 1) : j \in 1..Len(s) /\ s[j] \in AMount
      BY <1>1
    <2> QED
      BY <2>1, <1>1
  <1>3. SubSeq(s, i + 1, Len(s)) \in Seq(AMount)
    BY <1>1
  <1> QED
    BY <1>2, <1>3 DEF RemoveAt

LEMMA LoadMountsTypes ==
    ASSUME CatalogTypes, NEW c \in SessionUsers, NEW changed \in Seq(AMount), LoadMounts(c, changed)
    PROVE  CatalogTypes'
  BY DEF LoadMounts, StartChange, CatalogTypes, fileVars, Quiet

LEMMA OpenCatalogsTypes ==
    ASSUME CatalogTypes, NEW names \in SUBSET Names, OpenCatalogs(names)
    PROVE  CatalogTypes'
  BY DEF OpenCatalogs, StartChange, CatalogTypes, SessionUsers

LEMMA MountTypes ==
    ASSUME NEW id \in Nat, NEW n \in Names, NEW offer \in Offers
    PROVE  Mount(id, n, offer) \in AMount
  BY CatalogAssumption DEF Mount, AMount

LEMMA IdsAreNumbers == MountIds \subseteq Nat
  BY CatalogAssumption DEF MountIds

LEMMA AttachMountTypes ==
    ASSUME CatalogTypes, NEW c \in SessionUsers, AttachMount(c)
    PROVE  CatalogTypes'
  <1>1. /\ syMounts[c] \in Seq(AMount) /\ syMounts[c] # <<>>
        /\ syMounts' = [syMounts EXCEPT ![c] = Tail(@)]
        /\ UNCHANGED <<ctFile, ctCut, moFile, moCut, syAt, syCatalogs, ctChanges>>
    BY DEF CatalogTypes, AttachMount, fileVars
  <1>2. syMounts' \in [SessionUsers -> Seq(AMount)]
    BY <1>1, RestTypes DEF CatalogTypes
  <1> DEFINE m == Head(syMounts[c])
  <1>3. m \in AMount
    BY <1>1, RestTypes
  <1>4. \/ UNCHANGED dbAttached
        \/ dbAttached' = Attached({m.name}, m)
        \/ dbAttached' = Restrict(dbAttached, DOMAIN dbAttached \ {m.name})
    BY <1>3 DEF AttachMount, AttachPostgres, AttachS3, AMount
  <1>5. dbAttached' = [n \in DOMAIN dbAttached' |-> dbAttached'[n]]
    <2>1. CASE UNCHANGED dbAttached
      BY <2>1 DEF CatalogTypes
    <2>2. CASE dbAttached' = Attached({m.name}, m)
      BY <2>2 DEF Attached
    <2>3. CASE dbAttached' = Restrict(dbAttached, DOMAIN dbAttached \ {m.name})
      BY <2>3, RestrictIsFunction
    <2> QED
      BY <1>4, <2>1, <2>2, <2>3
  <1>6. ctCalm' \in {"no", ctCalm}
    BY <1>3 DEF AttachMount, AttachPostgres, AttachS3, AMount, Works, Fails
  <1> QED
    BY <1>1, <1>2, <1>5, <1>6 DEF CatalogTypes

LEMMA CatalogTypesStep == CatalogTypes /\ [CatalogsNext]_catalogVars => CatalogTypes'
  <1> SUFFICES ASSUME CatalogTypes, [CatalogsNext]_catalogVars
               PROVE  CatalogTypes'
    OBVIOUS
  <1>0. LoadedCatalogs \subseteq Names /\ LoadedMounts \in Seq(AMount) /\ ctChanges \in Nat
    BY LoadedTypes DEF CatalogTypes
  <1>1. ASSUME NEW n \in Names, CreateCatalog(n) \/ DeleteCatalog(n)
        PROVE  CatalogTypes'
    BY <1>0, <1>1, OpenCatalogsTypes DEF CreateCatalog, DeleteCatalog
  <1>2. CASE WriteCatalogs
    BY <1>2 DEF WriteCatalogs, CatalogTypes, SessionUsers, Quiet
  <1>3. ASSUME NEW c \in Workers, NEW n \in Names, NEW offer \in Offers, CreateMount(c, n, offer)
        PROVE  CatalogTypes'
    <2>1. c \in SessionUsers /\ Mount(ctChanges, n, offer) \in AMount
      BY <1>0, MountTypes DEF SessionUsers
    <2>2. Append(LoadedMounts, Mount(ctChanges, n, offer)) \in Seq(AMount)
      BY <1>0, <2>1
    <2> QED
      BY <1>3, <2>1, <2>2, LoadMountsTypes DEF CreateMount
  <1>4. ASSUME NEW c \in Workers, NEW n \in Names, NEW offer \in Offers, NEW id \in MountIds,
               UpdateMount(c, id, n, offer)
        PROVE  CatalogTypes'
    <2>1. c \in SessionUsers /\ Mount(id, n, offer) \in AMount
      BY MountTypes, IdsAreNumbers DEF SessionUsers
    <2>2. PICK i \in DOMAIN LoadedMounts : LoadMounts(c, [LoadedMounts EXCEPT ![i] = Mount(id, n, offer)])
      BY <1>4 DEF UpdateMount
    <2>3. [LoadedMounts EXCEPT ![i] = Mount(id, n, offer)] \in Seq(AMount)
      BY <1>0, <2>1, <2>2, ExceptSeq
    <2> QED
      BY <2>1, <2>2, <2>3, LoadMountsTypes
  <1>5. ASSUME NEW c \in Workers, NEW n \in Names, DuplicateMount(c, n)
        PROVE  CatalogTypes'
    <2>1. PICK m \in ToSet(LoadedMounts) :
              LoadMounts(c, Append(LoadedMounts, [m EXCEPT !.id = ctChanges, !.name = n]))
      BY <1>5 DEF DuplicateMount
    <2>2. m \in AMount
      BY <1>0, <2>1 DEF ToSet
    <2>3. [m EXCEPT !.id = ctChanges, !.name = n] \in AMount
      BY <1>0, <2>2 DEF AMount
    <2>4. Append(LoadedMounts, [m EXCEPT !.id = ctChanges, !.name = n]) \in Seq(AMount)
      BY <1>0, <2>3
    <2> QED
      BY <2>1, <2>4, LoadMountsTypes DEF SessionUsers
  <1>6. ASSUME NEW c \in SessionUsers, NEW id \in MountIds, DeleteMount(c, id)
        PROVE  CatalogTypes'
    <2>1. PICK i \in DOMAIN LoadedMounts : LoadMounts(c, RemoveAt(LoadedMounts, i))
      BY <1>6 DEF DeleteMount
    <2>2. RemoveAt(LoadedMounts, i) \in Seq(AMount)
      BY <1>0, <2>1, RemovedTypes
    <2> QED
      BY <2>1, <2>2, LoadMountsTypes
  <1>7. ASSUME NEW c \in SessionUsers, OpenMounts(c) \/ WriteMounts(c)
        PROVE  CatalogTypes'
    <2>1. CASE OpenMounts(c)
      BY <2>1 DEF OpenMounts, CatalogTypes
    <2>2. CASE WriteMounts(c)
      <3>1. syMounts[c] \in Seq(AMount) /\ <<>> \in Seq(AMount)
        BY DEF CatalogTypes
      <3> QED
        BY <2>2, <3>1 DEF WriteMounts, CatalogTypes, Quiet
    <2> QED
      BY <1>7, <2>1, <2>2
  <1>8. ASSUME NEW c \in SessionUsers, UseSession(c) \/ ReadCatalogs(c)
        PROVE  CatalogTypes'
    BY <1>0, <1>8 DEF UseSession, ReadCatalogs, CatalogTypes, fileVars, Quiet, Stages
  <1>9. ASSUME NEW c \in SessionUsers, DetachRemoved(c)
        PROVE  CatalogTypes'
    <2>1. dbAttached' = [n \in DOMAIN dbAttached' |-> dbAttached'[n]]
      BY <1>9, RestrictIsFunction DEF DetachRemoved, CatalogTypes
    <2>2. ctCalm' \in {"no", ctCalm}
      BY <1>9 DEF DetachRemoved, Works, Fails
    <2> QED
      BY <1>9, <2>1, <2>2 DEF DetachRemoved, CatalogTypes, fileVars, Stages
  <1>10. ASSUME NEW c \in SessionUsers, AttachMissing(c)
         PROVE  CatalogTypes'
    <2>1. dbAttached' = [n \in DOMAIN dbAttached' |-> dbAttached'[n]]
      BY <1>10 DEF AttachMissing, Attached
    <2> QED
      BY <1>10, <2>1 DEF AttachMissing, CatalogTypes, fileVars, Stages
  <1>11. ASSUME NEW c \in SessionUsers, ReadMounts(c)
         PROVE  CatalogTypes'
    BY <1>0, <1>11 DEF ReadMounts, CatalogTypes, fileVars, Stages
  <1>12. ASSUME NEW c \in SessionUsers, DetachInactive(c)
         PROVE  CatalogTypes'
    <2>1. dbAttached' = [n \in DOMAIN dbAttached' |-> dbAttached'[n]]
      BY <1>12, RestrictIsFunction DEF DetachInactive, CatalogTypes
    <2>2. ctCalm' \in {"no", ctCalm}
      BY <1>12 DEF DetachInactive, Works, Fails
    <2> QED
      BY <1>12, <2>1, <2>2 DEF DetachInactive, CatalogTypes, fileVars, Stages
  <1>13. ASSUME NEW c \in SessionUsers, EndSync(c)
         PROVE  CatalogTypes'
    BY <1>13 DEF EndSync, CatalogTypes, fileVars, Quiet
  <1>14. CASE UNCHANGED catalogVars
    BY <1>14 DEF catalogVars, fileVars, syncVars, CatalogTypes
  <1> QED
    BY <1>1, <1>2, <1>3, <1>4, <1>5, <1>6, <1>7, <1>8, <1>9, <1>10, <1>11, <1>12, <1>13, <1>14,
       AttachMountTypes DEF CatalogsNext

-----------------------------------------------------------------------------
(* Steps that are quiet, and steps on the files.                           *)

\* A caller that is not at work prepares a change, or comes to use the session.
LEMMA QuietCatalogStep ==
    ASSUME CutInv, LostInv, CalmInv,
           UNCHANGED <<fileVars, dbAttached, dbSession, ctLost, ctCalm, syCatalogs>>,
           \A d \in SessionUsers : syAt[d] \in Quiet => syAt'[d] \in Quiet,
           \A d \in SessionUsers : syAt[d] \notin Quiet => syAt'[d] = syAt[d] /\ syMounts'[d] = syMounts[d]
    PROVE  CutInv' /\ LostInv' /\ CalmInv'
  <1> USE DEF fileVars
  <1>1. CutInv'
    BY DEF CutInv, Quiet, SessionUsers
  <1>2. LostInv'
    BY DEF LostInv
  <1>3. (OnlyKnown => OnlyKnown') /\ (AllCatalogs => AllCatalogs')
    BY DEF OnlyKnown, AllCatalogs, ActiveNames
  <1>4. Attachable' = Attachable /\ \A m \in Attachable : Served(m) => Served(m)'
    BY DEF Attachable, Served, OwnName
  <1>5. ASSUME NEW d \in SessionUsers, syAt'[d] \notin Quiet, Repaired(d)
        PROVE  Repaired(d)'
    <2>1. syAt'[d] = syAt[d] /\ syMounts'[d] = syMounts[d] /\ syCatalogs'[d] = syCatalogs[d]
      BY <1>5
    <2>2. syAt[d] = "mount" => \A m \in Attachable' \ ToSet(syMounts'[d]) : Served(m)'
      BY <2>1, <1>4, <1>5 DEF Repaired
    <2> QED
      BY <2>1, <2>2, <1>3, <1>5 DEF Repaired
  <1>6. CalmInv'
    <2>1. ctCalm' = "synced" =>
              /\ \A c \in SessionUsers : syAt'[c] \in Quiet
              /\ OnlyKnown' /\ AllCatalogs' /\ \A m \in Attachable' : Served(m)'
      BY <1>3, <1>4 DEF CalmInv
    <2>2. ctCalm' = "syncing" =>
              \A c \in SessionUsers : syAt'[c] \notin Quiet =>
                  Repaired(c)' /\ \A other \in SessionUsers \ {c} : syAt'[other] \in Quiet
      BY <1>5 DEF CalmInv
    <2> QED
      BY <2>1, <2>2 DEF CalmInv
  <1> QED
    BY <1>1, <1>2, <1>6

LEMMA LoadMountsKept ==
    ASSUME CatalogTypes, CutInv, LostInv, CalmInv,
           NEW c \in SessionUsers, NEW changed, LoadMounts(c, changed)
    PROVE  CutInv' /\ LostInv' /\ CalmInv'
  <1>1. /\ syAt[c] = "idle" /\ syAt' = [syAt EXCEPT ![c] = "open"]
        /\ syMounts' = [syMounts EXCEPT ![c] = changed]
        /\ UNCHANGED <<fileVars, dbAttached, dbSession, ctLost, ctCalm, syCatalogs>>
    BY DEF LoadMounts, StartChange
  <1>2. \A d \in SessionUsers : syAt[d] \in Quiet => syAt'[d] \in Quiet
    BY <1>1 DEF CatalogTypes, Quiet
  <1>3. \A d \in SessionUsers : syAt[d] \notin Quiet => syAt'[d] = syAt[d] /\ syMounts'[d] = syMounts[d]
    BY <1>1 DEF CatalogTypes, Quiet
  <1> QED
    BY <1>1, <1>2, <1>3, QuietCatalogStep

LEMMA FileStepKept ==
    ASSUME LostInv, ctCalm' = "no", UNCHANGED <<dbAttached, dbSession, ctLost>>
    PROVE  LostInv' /\ CalmInv'
  BY DEF LostInv, CalmInv

LEMMA FilesWritten ==
    ASSUME CatalogTypes, CutInv, LostInv,
           NEW c \in SessionUsers, NEW names,
           OpenCatalogs(names) \/ WriteCatalogs \/ OpenMounts(c) \/ WriteMounts(c)
    PROVE  CutInv' /\ LostInv' /\ CalmInv'
  <1>0. Loop \in SessionUsers /\ syAt \in [SessionUsers -> Quiet \cup Stages \cup {"catalogs", "mounts"}]
    BY DEF SessionUsers, CatalogTypes
  <1>1. LostInv' /\ CalmInv'
    BY FileStepKept DEF OpenCatalogs, StartChange, WriteCatalogs, OpenMounts, WriteMounts
  <1>2. CASE OpenCatalogs(names)
    BY <1>0, <1>1, <1>2 DEF OpenCatalogs, StartChange, CutInv
  <1>3. CASE WriteCatalogs
    BY <1>0, <1>1, <1>3 DEF WriteCatalogs, CutInv
  <1>4. CASE OpenMounts(c)
    BY <1>0, <1>1, <1>4 DEF OpenMounts, CutInv
  <1>5. CASE WriteMounts(c)
    BY <1>0, <1>1, <1>5 DEF WriteMounts, CutInv
  <1> QED
    BY <1>2, <1>3, <1>4, <1>5

-----------------------------------------------------------------------------
(* A synchronisation.                                                      *)

LEMMA SyncCuts ==
    ASSUME CatalogTypes, CutInv, NEW c \in SessionUsers, NEW to \in Quiet \cup Stages,
           syAt[c] \in {"sync"} \cup Stages, syAt' = [syAt EXCEPT ![c] = to], UNCHANGED fileVars
    PROVE  CutInv'
  BY DEF CatalogTypes, CutInv, fileVars, SessionUsers, Stages, Quiet

\* One stage of a synchronisation follows another, unless it is the last.
LEMMA StageKept ==
    ASSUME CatalogTypes, CalmInv, NEW c \in SessionUsers, NEW to \in Stages,
           syAt[c] \in Stages, syAt' = [syAt EXCEPT ![c] = to], ctCalm' \in {"no", ctCalm},
           (ctCalm = "syncing" /\ ctCalm' = "syncing" /\ Repaired(c)) => Repaired(c)'
    PROVE  CalmInv'
  <1>1. \A d \in SessionUsers \ {c} : syAt'[d] = syAt[d]
    BY DEF CatalogTypes
  <1>2. syAt[c] \notin Quiet /\ syAt'[c] \notin Quiet
    BY DEF CatalogTypes, Stages, Quiet
  <1>3. ctCalm # "synced"
    BY <1>2 DEF CalmInv
  <1>4. CASE ctCalm' = "syncing"
    <2>1. Repaired(c) /\ \A other \in SessionUsers \ {c} : syAt[other] \in Quiet
      BY <1>2, <1>4 DEF CalmInv
    <2>2. Repaired(c)' /\ \A other \in SessionUsers \ {c} : syAt'[other] \in Quiet
      BY <2>1, <1>1, <1>4
    <2> QED
      BY <1>2, <1>4, <2>2 DEF CalmInv
  <1>5. CASE ctCalm' # "syncing"
    BY <1>3, <1>5 DEF CalmInv
  <1> QED
    BY <1>4, <1>5

\* Nobody else is at work while c repairs, so the files are whole.
LEMMA FilesWhole ==
    ASSUME CatalogTypes, CutInv, CalmInv, NEW c \in SessionUsers, ctCalm = "syncing", syAt[c] \in Stages
    PROVE  /\ Repaired(c)
           /\ LoadedCatalogs = ctFile /\ LoadedMounts = moFile
  <1>1. syAt[c] \notin Quiet
    BY DEF Stages, Quiet
  <1>2. Repaired(c) /\ \A other \in SessionUsers \ {c} : syAt[other] \in Quiet
    BY <1>1 DEF CalmInv
  <1>3. \A d \in SessionUsers : syAt[d] \notin {"catalogs", "mounts"}
    BY <1>2 DEF Stages, Quiet
  <1>4. ~ctCut /\ ~moCut
    BY <1>3 DEF CutInv, SessionUsers
  <1> QED
    BY <1>2, <1>4 DEF LoadedCatalogs, LoadedMounts

\* What a disturbed step takes from the session is written down.
LEMMA LostWritten ==
    ASSUME LostInv, ctCalm' = "no", dbSession' = dbSession, ctLost' = ctLost \cup Lost
    PROVE  LostInv'
  BY DEF LostInv, Lost

LEMMA ReadCatalogsKept ==
    ASSUME CatalogTypes, CutInv, LostInv, CalmInv, NEW c \in SessionUsers, ReadCatalogs(c)
    PROVE  CutInv' /\ LostInv' /\ CalmInv'
  <1>1. /\ syAt[c] = "sync" /\ syAt' = [syAt EXCEPT ![c] = "detach"]
        /\ syCatalogs' = [syCatalogs EXCEPT ![c] = LoadedCatalogs]
        /\ UNCHANGED <<fileVars, dbAttached, dbSession, ctLost>>
    BY DEF ReadCatalogs
  <1>2. CutInv'
    BY <1>1, SyncCuts DEF Stages
  <1>3. LostInv'
    BY <1>1 DEF LostInv
  <1>4. \A d \in SessionUsers \ {c} : syAt'[d] = syAt[d]
    BY <1>1 DEF CatalogTypes
  <1>5. CASE Disturbed(c)
    BY <1>2, <1>3, <1>5 DEF ReadCatalogs, CalmInv
  <1>6. CASE ~Disturbed(c)
    <2>1. ctCalm' = "syncing" /\ \A other \in SessionUsers \ {c} : syAt[other] \in {"idle", "sync"}
      BY <1>6 DEF ReadCatalogs, Disturbed
    <2>2. ~ctCut
      BY <2>1, <1>1 DEF CutInv, SessionUsers
    <2>3. syAt'[c] = "detach" /\ syCatalogs'[c] = ctFile'
      BY <1>1, <2>2 DEF CatalogTypes, LoadedCatalogs, fileVars
    <2>4. Repaired(c)'
      BY <2>3 DEF Repaired, Stages
    <2>5. \A other \in SessionUsers \ {c} : syAt'[other] \in Quiet
      BY <1>4, <2>1 DEF Quiet
    <2>6. CalmInv'
      BY <2>1, <2>4, <2>5 DEF CalmInv
    <2> QED
      BY <1>2, <1>3, <2>6
  <1> QED
    BY <1>5, <1>6

LEMMA DetachRemovedKept ==
    ASSUME CatalogTypes, CutInv, LostInv, CalmInv, NEW c \in SessionUsers, DetachRemoved(c)
    PROVE  CutInv' /\ LostInv' /\ CalmInv'
  <1> DEFINE gone == dbSession \ syCatalogs[c]
  <1>1. /\ syAt[c] = "detach" /\ syAt' = [syAt EXCEPT ![c] = "attach"]
        /\ dbSession' = dbSession \ gone /\ ctLost' = ctLost \ gone
        /\ UNCHANGED <<fileVars, syCatalogs, syMounts>>
    BY DEF DetachRemoved
  <1>2. DOMAIN dbAttached \ gone \subseteq DOMAIN dbAttached' /\ ctCalm' \in {"no", ctCalm}
    BY RestrictIsFunction DEF DetachRemoved, Works, Fails
  <1>3. CutInv'
    BY <1>1, SyncCuts DEF Stages
  <1>4. LostInv'
    BY <1>1, <1>2 DEF LostInv
  <1>5. ASSUME ctCalm = "syncing", Repaired(c)
        PROVE  Repaired(c)'
    <2>1. syCatalogs[c] = ctFile /\ dbSession' \subseteq ctFile
      BY <1>1, <1>5 DEF Repaired
    <2>2. syAt'[c] = "attach" /\ syCatalogs'[c] = ctFile' /\ dbSession' \subseteq ctFile'
      BY <1>1, <2>1 DEF CatalogTypes, fileVars
    <2> QED
      BY <2>2 DEF Repaired, Stages
  <1>6. CalmInv'
    BY <1>1, <1>2, <1>5, StageKept DEF Stages
  <1> QED
    BY <1>3, <1>4, <1>6

LEMMA AttachMissingKept ==
    ASSUME CatalogTypes, CutInv, LostInv, CalmInv, NEW c \in SessionUsers, AttachMissing(c)
    PROVE  CutInv' /\ LostInv' /\ CalmInv'
  <1> DEFINE free == syCatalogs[c] \ DOMAIN dbAttached
  <1>1. /\ syAt[c] = "attach" /\ syAt' = [syAt EXCEPT ![c] = "read"]
        /\ dbSession' = dbSession \cup (free \ dbSession)
        /\ UNCHANGED <<fileVars, syCatalogs, syMounts, ctCalm, ctLost>>
    BY DEF AttachMissing
  <1>2. DOMAIN dbAttached' = DOMAIN dbAttached \cup (free \ dbSession)
    BY DEF AttachMissing, Attached
  <1>3. CutInv'
    BY <1>1, SyncCuts DEF Stages
  <1>4. LostInv'
    BY <1>1, <1>2 DEF LostInv
  <1>5. ASSUME ctCalm = "syncing", Repaired(c)
        PROVE  Repaired(c)'
    <2>1. syCatalogs[c] = ctFile /\ dbSession \subseteq ctFile
      BY <1>1, <1>5 DEF Repaired
    <2>2. ctFile' = ctFile /\ dbSession' \subseteq ctFile /\ syAt'[c] = "read"
      BY <1>1, <2>1 DEF CatalogTypes, fileVars
    <2>3. AllCatalogs'
      BY <1>1, <1>2, <2>1, <2>2 DEF AllCatalogs, LostInv
    <2> QED
      BY <2>2, <2>3 DEF Repaired, Stages
  <1>6. CalmInv'
    BY <1>1, <1>5, StageKept DEF Stages
  <1> QED
    BY <1>3, <1>4, <1>6

LEMMA ReadMountsKept ==
    ASSUME CatalogTypes, CutInv, LostInv, CalmInv, NEW c \in SessionUsers, ReadMounts(c)
    PROVE  CutInv' /\ LostInv' /\ CalmInv'
  <1>1. /\ syAt[c] = "read" /\ syAt' = [syAt EXCEPT ![c] = "clean"]
        /\ syMounts' = [syMounts EXCEPT ![c] = LoadedMounts]
        /\ UNCHANGED <<fileVars, syCatalogs, dbAttached, dbSession, ctCalm, ctLost>>
    BY DEF ReadMounts
  <1>3. CutInv'
    BY <1>1, SyncCuts DEF Stages
  <1>4. LostInv'
    BY <1>1 DEF LostInv
  <1>5. ASSUME ctCalm = "syncing", Repaired(c)
        PROVE  Repaired(c)'
    <2>1. LoadedMounts = moFile
      BY <1>1, <1>5, FilesWhole DEF Stages
    <2>2. syAt'[c] = "clean" /\ syMounts'[c] = moFile' /\ dbSession' \subseteq ctFile'
      BY <1>1, <1>5, <2>1 DEF CatalogTypes, fileVars, Repaired
    <2>3. AllCatalogs'
      BY <1>1, <1>5 DEF AllCatalogs, Repaired, fileVars
    <2> QED
      BY <2>2, <2>3 DEF Repaired, Stages
  <1>6. CalmInv'
    BY <1>1, <1>5, StageKept DEF Stages
  <1> QED
    BY <1>3, <1>4, <1>6

LEMMA DetachInactiveKept ==
    ASSUME CatalogTypes, CutInv, LostInv, CalmInv, NEW c \in SessionUsers, DetachInactive(c)
    PROVE  CutInv' /\ LostInv' /\ CalmInv'
  <1>1. /\ syAt[c] = "clean" /\ syAt' = [syAt EXCEPT ![c] = "mount"]
        /\ UNCHANGED <<fileVars, syCatalogs, syMounts, dbSession>>
        /\ ctLost' = ctLost \cup Lost
    BY DEF DetachInactive
  <1>2. \/ DOMAIN dbAttached' = DOMAIN dbAttached \cap Kept(c) /\ ctCalm' = ctCalm
        \/ UNCHANGED dbAttached /\ ctCalm' = "no"
    <2>1. \/ /\ dbAttached' = Restrict(dbAttached, DOMAIN dbAttached \ (DOMAIN dbAttached \ Kept(c)))
             /\ ctCalm' = ctCalm
          \/ UNCHANGED dbAttached /\ ctCalm' = "no"
      BY DEF DetachInactive, Works, Fails
    <2>2. DOMAIN dbAttached \ (DOMAIN dbAttached \ Kept(c)) = DOMAIN dbAttached \cap Kept(c)
      OBVIOUS
    <2> QED
      BY <2>1, <2>2, RestrictIsFunction
  <1>3. CutInv'
    BY <1>1, SyncCuts DEF Stages
  <1>4. ASSUME ctCalm = "syncing", Repaired(c)
        PROVE  Kept(c) = ActiveNames(moFile) \cup ctFile /\ dbSession \subseteq ctFile /\ AllCatalogs
    BY <1>1, <1>4, FilesWhole DEF Stages, Repaired, Kept
  <1>5. LostInv'
    <2>1. CASE ctCalm' = "no"
      BY <1>1, <2>1, LostWritten
    <2>2. CASE ctCalm' # "no"
      <3>1. ctCalm = "syncing" /\ Repaired(c)
        BY <1>1, <1>2, <2>2 DEF CalmInv, CatalogTypes, Quiet
      <3>2. DOMAIN dbAttached' = DOMAIN dbAttached \cap (ActiveNames(moFile) \cup ctFile)
            /\ dbSession \subseteq ctFile
        BY <1>2, <1>4, <2>2, <3>1
      <3> QED
        BY <1>1, <3>2 DEF LostInv
    <2> QED
      BY <2>1, <2>2
  <1>6. ASSUME ctCalm = "syncing", ctCalm' = "syncing", Repaired(c)
        PROVE  Repaired(c)'
    <2>1. DOMAIN dbAttached' = DOMAIN dbAttached \cap (ActiveNames(moFile) \cup ctFile)
          /\ AllCatalogs
      BY <1>2, <1>4, <1>6
    <2>2. UNCHANGED <<ctFile, moFile>> /\ syAt'[c] = "mount" /\ syMounts'[c] = moFile
      BY <1>1, <1>6 DEF CatalogTypes, fileVars, Repaired
    <2>3. AllCatalogs' /\ OnlyKnown'
      BY <1>1, <2>1, <2>2 DEF AllCatalogs, OnlyKnown, ActiveNames
    <2>4. ToSet(syMounts'[c]) \subseteq ToSet(moFile') /\ Attachable' \ ToSet(syMounts'[c]) = {}
      BY <2>2 DEF Attachable
    <2> QED
      BY <2>2, <2>3, <2>4 DEF Repaired, Stages
  <1>7. CalmInv'
    BY <1>1, <1>2, <1>6, StageKept DEF Stages
  <1> QED
    BY <1>3, <1>5, <1>7

\* What one mount comes to.
LEMMA AttachMountSays ==
    ASSUME CatalogTypes, NEW c \in SessionUsers, AttachMount(c)
    PROVE  \E m \in AMount :
               /\ m = Head(syMounts[c])
               /\ \/ ctCalm' = "no" /\ dbSession' = dbSession
                  \/ /\ ctCalm' = ctCalm
                     /\ \/ UNCHANGED <<dbAttached, dbSession>> /\ (~m.enabled \/ m.kind = "sqlite")
                        \/ /\ UNCHANGED <<dbAttached, dbSession>> /\ m.name \in DOMAIN dbAttached
                           /\ m.kind = "postgres" => dbAttached[m.name].readOnly = m.readOnly
                        \/ /\ dbAttached' = Attached({m.name}, m) /\ m.enabled /\ m.kind # "sqlite"
                           /\ dbSession' \subseteq dbSession \cup {m.name}
  <1>1. PICK m : m = Head(syMounts[c])
    OBVIOUS
  <1>2. syMounts[c] \in Seq(AMount) /\ syMounts[c] # <<>>
    BY DEF AttachMount, CatalogTypes
  <1>3. m \in AMount /\ m.kind \in {"postgres", "s3", "sqlite"} /\ m.enabled \in BOOLEAN
    <2>1. m \in AMount
      BY <1>1, <1>2, RestTypes
    <2> QED
      BY <2>1 DEF AMount
  <1>4. CASE ~m.enabled \/ m.kind = "sqlite"
    <2>1. UNCHANGED <<dbAttached, dbSession>> /\ ctCalm' = ctCalm
      BY <1>1, <1>3, <1>4 DEF AttachMount, Works
    <2> QED
      BY <1>1, <1>3, <1>4, <2>1
  <1>5. CASE m.enabled /\ m.kind = "postgres"
    <2>1. AttachPostgres(m)
      BY <1>1, <1>3, <1>5 DEF AttachMount
    <2>2. \/ /\ UNCHANGED dbAttached /\ ctCalm' = ctCalm /\ m.name \in DOMAIN dbAttached
             /\ dbAttached[m.name].readOnly = m.readOnly
          \/ dbAttached' = Attached({m.name}, m) /\ ctCalm' = ctCalm
          \/ ctCalm' = "no"
      BY <2>1 DEF AttachPostgres, Works, Fails
    <2>3. dbSession' = dbSession
      BY <2>1 DEF AttachPostgres
    <2> QED
      BY <1>1, <1>3, <1>5, <2>2, <2>3
  <1>6. CASE m.enabled /\ m.kind = "s3"
    <2>1. AttachS3(m)
      BY <1>1, <1>3, <1>6 DEF AttachMount
    <2>2. \/ UNCHANGED <<dbAttached, dbSession>> /\ ctCalm' = ctCalm /\ m.name \in DOMAIN dbAttached
          \/ /\ dbAttached' = Attached({m.name}, m) /\ ctCalm' = ctCalm
             /\ dbSession' \subseteq dbSession \cup {m.name}
          \/ ctCalm' = "no" /\ dbSession' = dbSession
      BY <2>1 DEF AttachS3, Works, Fails
    <2> QED
      BY <1>1, <1>3, <1>6, <2>2
  <1> QED
    BY <1>3, <1>4, <1>5, <1>6

LEMMA AttachMountKept ==
    ASSUME CatalogTypes, CutInv, LostInv, CalmInv, NEW c \in SessionUsers, AttachMount(c)
    PROVE  CutInv' /\ LostInv' /\ CalmInv'
  <1>1. /\ syAt[c] = "mount" /\ syMounts[c] \in Seq(AMount) /\ syMounts[c] # <<>>
        /\ syMounts' = [syMounts EXCEPT ![c] = Tail(@)]
        /\ UNCHANGED <<fileVars, syAt, syCatalogs>> /\ ctLost' = ctLost \cup Lost
    BY DEF AttachMount, CatalogTypes
  <1>2. PICK m \in AMount :
            /\ m = Head(syMounts[c])
            /\ \/ ctCalm' = "no" /\ dbSession' = dbSession
               \/ /\ ctCalm' = ctCalm
                  /\ \/ UNCHANGED <<dbAttached, dbSession>> /\ (~m.enabled \/ m.kind = "sqlite")
                     \/ /\ UNCHANGED <<dbAttached, dbSession>> /\ m.name \in DOMAIN dbAttached
                        /\ m.kind = "postgres" => dbAttached[m.name].readOnly = m.readOnly
                     \/ /\ dbAttached' = Attached({m.name}, m) /\ m.enabled /\ m.kind # "sqlite"
                        /\ dbSession' \subseteq dbSession \cup {m.name}
    BY AttachMountSays
  <1>3. ToSet(syMounts[c]) = {m} \cup ToSet(Tail(syMounts[c]))
    BY <1>1, <1>2, RestTypes
  <1>4. CutInv'
    BY <1>1 DEF CutInv, fileVars
  <1>5. \/ ctCalm' = "no" /\ dbSession' = dbSession
        \/ /\ DOMAIN dbAttached \subseteq DOMAIN dbAttached'
           /\ dbSession' \ DOMAIN dbAttached' \subseteq dbSession \ DOMAIN dbAttached
    BY <1>2 DEF Attached
  <1>6. LostInv'
    <2>1. CASE ctCalm' = "no" /\ dbSession' = dbSession
      BY <1>1, <2>1, LostWritten
    <2>2. CASE dbSession' \ DOMAIN dbAttached' \subseteq dbSession \ DOMAIN dbAttached
      BY <1>1, <2>2 DEF LostInv
    <2> QED
      BY <1>5, <2>1, <2>2
  <1>7. ASSUME ctCalm = "syncing", ctCalm' = "syncing", Repaired(c)
        PROVE  Repaired(c)'
    <2>1. /\ UNCHANGED <<ctFile, moFile>> /\ syAt'[c] = "mount"
          /\ syMounts'[c] = Tail(syMounts[c])
      BY <1>1 DEF CatalogTypes, fileVars
    <2>2. /\ AllCatalogs /\ OnlyKnown /\ ToSet(syMounts[c]) \subseteq ToSet(moFile)
          /\ \A x \in Attachable \ ToSet(syMounts[c]) : Served(x)
      BY <1>1, <1>7 DEF Repaired
    <2>3. m \in ToSet(moFile) /\ ToSet(syMounts'[c]) \subseteq ToSet(moFile')
      BY <1>3, <2>1, <2>2
    <2>4. AllCatalogs'
      BY <1>1, <1>5, <1>7, <2>1, <2>2 DEF AllCatalogs
    <2>5. OnlyKnown'
      <3>1. CASE UNCHANGED dbAttached
        BY <2>1, <2>2, <3>1 DEF OnlyKnown, ActiveNames
      <3>2. CASE dbAttached' = Attached({m.name}, m) /\ m.enabled
        <4>1. m.name \in ActiveNames(moFile)
          BY <2>3, <3>2 DEF ActiveNames
        <4>2. DOMAIN dbAttached' = DOMAIN dbAttached \cup {m.name}
          BY <3>2 DEF Attached
        <4> QED
          BY <2>1, <2>2, <4>1, <4>2 DEF OnlyKnown, ActiveNames
      <3> QED
        BY <1>2, <1>7, <3>1, <3>2
    <2>6. ASSUME NEW x \in Attachable \ ToSet(syMounts[c]), x # m
          PROVE  Served(x)'
      <3>1. Served(x) /\ (OwnName(x)' <=> OwnName(x)) /\ x.name \in DOMAIN dbAttached'
        BY <1>5, <1>7, <2>1, <2>2, <2>6 DEF Served, OwnName
      <3>2. CASE UNCHANGED dbAttached
        BY <3>1, <3>2 DEF Served
      <3>3. CASE dbAttached' = Attached({m.name}, m)
        <4>1. CASE x.name = m.name
          BY <2>3, <2>6, <3>1, <4>1 DEF Served, OwnName
        <4>2. CASE x.name # m.name
          <5>1. dbAttached'[x.name] = dbAttached[x.name]
            BY <3>1, <3>3, <4>2 DEF Attached, Served
          <5> QED
            BY <3>1, <5>1 DEF Served
        <4> QED
          BY <4>1, <4>2
      <3> QED
        BY <1>2, <1>7, <3>2, <3>3
    <2>7. ASSUME m \in Attachable
          PROVE  Served(m)'
      <3>1. CASE /\ UNCHANGED <<dbAttached, dbSession>> /\ m.name \in DOMAIN dbAttached
                 /\ m.kind = "postgres" => dbAttached[m.name].readOnly = m.readOnly
        BY <3>1 DEF Served
      <3>2. CASE dbAttached' = Attached({m.name}, m)
        <4>1. m.name \in DOMAIN dbAttached' /\ dbAttached'[m.name] = m
          BY <3>2 DEF Attached
        <4> QED
          BY <4>1 DEF Served
      <3>3. m.enabled /\ m.kind # "sqlite"
        BY <2>7 DEF Attachable
      <3> QED
        BY <1>2, <1>7, <3>1, <3>2, <3>3
    <2>8. \A x \in Attachable' \ ToSet(syMounts'[c]) : Served(x)'
      <3> SUFFICES ASSUME NEW x \in Attachable \ ToSet(Tail(syMounts[c]))
                   PROVE  Served(x)'
        BY <2>1 DEF Attachable
      <3>1. CASE x = m
        BY <2>7, <3>1
      <3>2. CASE x # m
        BY <1>3, <2>6, <3>2
      <3> QED
        BY <3>1, <3>2
    <2> QED
      BY <2>1, <2>3, <2>4, <2>5, <2>8 DEF Repaired, Stages
  <1>8. syAt' = [syAt EXCEPT ![c] = "mount"] /\ ctCalm' \in {"no", ctCalm}
    BY <1>1, <1>2 DEF CatalogTypes
  <1>9. CalmInv'
    BY <1>1, <1>7, <1>8, StageKept DEF Stages
  <1> QED
    BY <1>4, <1>6, <1>9

LEMMA EndSyncKept ==
    ASSUME CatalogTypes, CutInv, LostInv, CalmInv, NEW c \in SessionUsers, EndSync(c)
    PROVE  CutInv' /\ LostInv' /\ CalmInv'
  <1>1. /\ syAt[c] = "mount" /\ syMounts[c] = <<>> /\ syAt' = [syAt EXCEPT ![c] = "idle"]
        /\ ctCalm' = IF ctCalm = "syncing" THEN "synced" ELSE ctCalm
        /\ UNCHANGED <<fileVars, syMounts, dbAttached, dbSession, ctLost>>
    BY DEF EndSync
  <1>2. CutInv' /\ LostInv'
    BY <1>1, SyncCuts DEF Stages, Quiet, LostInv
  <1>3. CASE ctCalm = "syncing"
    <2>1. Repaired(c) /\ \A other \in SessionUsers \ {c} : syAt[other] \in Quiet
      BY <1>1, <1>3 DEF CalmInv, Quiet
    <2>2. OnlyKnown /\ AllCatalogs /\ \A m \in Attachable \ ToSet(syMounts[c]) : Served(m)
      BY <1>1, <2>1 DEF Repaired
    <2>3. ToSet(syMounts[c]) = {}
      BY <1>1 DEF ToSet
    <2>4. OnlyKnown' /\ AllCatalogs' /\ \A m \in Attachable' : Served(m)'
      BY <1>1, <2>2, <2>3 DEF OnlyKnown, AllCatalogs, Attachable, Served, OwnName, ActiveNames, fileVars
    <2>5. \A d \in SessionUsers : syAt'[d] \in Quiet
      BY <1>1, <2>1 DEF CatalogTypes, Quiet
    <2> QED
      BY <1>1, <1>2, <1>3, <2>4, <2>5 DEF CalmInv
  <1>4. CASE ctCalm # "syncing"
    <2>1. ctCalm # "synced"
      BY <1>1 DEF CalmInv, Quiet
    <2> QED
      BY <1>1, <1>2, <1>4, <2>1 DEF CalmInv
  <1> QED
    BY <1>3, <1>4

-----------------------------------------------------------------------------
LEMMA CatalogStep == CatalogInv /\ [CatalogsNext]_catalogVars => CatalogInv'
  <1> SUFFICES ASSUME CatalogTypes, CutInv, LostInv, CalmInv, [CatalogsNext]_catalogVars
               PROVE  CutInv' /\ LostInv' /\ CalmInv'
    BY CatalogTypesStep DEF CatalogInv
  <1>0. Workers \subseteq SessionUsers /\ Loop \in SessionUsers
    BY DEF SessionUsers
  <1>1. ASSUME NEW n \in Names, CreateCatalog(n) \/ DeleteCatalog(n)
        PROVE  CutInv' /\ LostInv' /\ CalmInv'
    BY <1>0, <1>1, FilesWritten DEF CreateCatalog, DeleteCatalog
  <1>2. CASE WriteCatalogs
    BY <1>0, <1>2, FilesWritten
  <1>3. ASSUME NEW c \in Workers, NEW n \in Names, NEW offer \in Offers,
               CreateMount(c, n, offer) \/ \E id \in MountIds : UpdateMount(c, id, n, offer)
        PROVE  CutInv' /\ LostInv' /\ CalmInv'
    BY <1>0, <1>3, LoadMountsKept DEF CreateMount, UpdateMount
  <1>4. ASSUME NEW c \in Workers, NEW n \in Names, DuplicateMount(c, n)
        PROVE  CutInv' /\ LostInv' /\ CalmInv'
    BY <1>0, <1>4, LoadMountsKept DEF DuplicateMount
  <1>5. ASSUME NEW c \in SessionUsers, NEW id \in MountIds, DeleteMount(c, id)
        PROVE  CutInv' /\ LostInv' /\ CalmInv'
    BY <1>5, LoadMountsKept DEF DeleteMount
  <1>6. ASSUME NEW c \in SessionUsers, OpenMounts(c) \/ WriteMounts(c)
        PROVE  CutInv' /\ LostInv' /\ CalmInv'
    BY <1>6, FilesWritten
  <1>7. ASSUME NEW c \in SessionUsers, UseSession(c)
        PROVE  CutInv' /\ LostInv' /\ CalmInv'
    <2>1. UNCHANGED <<fileVars, dbAttached, dbSession, ctLost, ctCalm, syCatalogs, syMounts>>
      BY <1>7 DEF UseSession
    <2>2. /\ \A d \in SessionUsers : syAt[d] \in Quiet => syAt'[d] \in Quiet
          /\ \A d \in SessionUsers : syAt[d] \notin Quiet => syAt'[d] = syAt[d]
      BY <1>7 DEF UseSession, Quiet, CatalogTypes
    <2> QED
      BY <2>1, <2>2, QuietCatalogStep
  <1>8. CASE UNCHANGED catalogVars
    BY <1>8, QuietCatalogStep DEF catalogVars, syncVars
  <1> QED
    BY <1>1, <1>2, <1>3, <1>4, <1>5, <1>6, <1>7, <1>8, ReadCatalogsKept, DetachRemovedKept,
       AttachMissingKept, ReadMountsKept, DetachInactiveKept, AttachMountKept, EndSyncKept DEF CatalogsNext

LEMMA CatalogsStart == CatalogsInit => CatalogInv
  <1> SUFFICES ASSUME CatalogsInit PROVE CatalogInv
    OBVIOUS
  <1> USE CatalogAssumption DEF CatalogsInit
  <1>1. dbAttached = [n \in DOMAIN dbAttached |-> dbAttached[n]] /\ DOMAIN dbAttached = Defaults
    OBVIOUS
  <1>2. syMounts \in [SessionUsers -> Seq(AMount)] /\ moFile \in Seq(AMount)
    OBVIOUS
  <1>3. CatalogTypes
    BY <1>1, <1>2 DEF CatalogTypes, Quiet
  <1>4. CutInv /\ LostInv
    BY <1>1 DEF CutInv, LostInv
  <1>5. Attachable = {} /\ OnlyKnown /\ AllCatalogs
    BY <1>1 DEF Attachable, OnlyKnown, AllCatalogs, ToSet
  <1>6. CalmInv
    BY <1>5 DEF CalmInv, Quiet
  <1> QED
    BY <1>3, <1>4, <1>6 DEF CatalogInv

LEMMA CatalogShows == CatalogInv => SyncRepairs
  <1> SUFFICES ASSUME CalmInv, ctCalm = "synced"
               PROVE  /\ {m.name : m \in Attachable} \cup ctFile \subseteq DOMAIN dbAttached \cup ctLost
                      /\ DOMAIN dbAttached \subseteq ActiveNames(moFile) \cup ctFile
                      /\ \A m \in Attachable :
                             m.kind = "postgres" /\ (\A other \in ToSet(moFile) : other.name = m.name => other = m)
                                 => m.name \in ctLost \/ dbAttached[m.name].readOnly = m.readOnly
    BY DEF CatalogInv, SyncRepairs
  <1>1. OnlyKnown /\ AllCatalogs /\ \A m \in Attachable : Served(m)
    BY DEF CalmInv
  <1> QED
    BY <1>1 DEF OnlyKnown, AllCatalogs, Served, OwnName

\* However synchronisations and changes of the files have overlapped and failed before, one that nothing
\* interferes with repairs the session, whatever the names, the mounts and the callers
\* (sync_catalogs_with_duckrun and sync_all_mounts).
THEOREM RepairsHold == CatalogsSpec => []SyncRepairs
  <1>1. CatalogsInit => CatalogInv
    BY CatalogsStart
  <1>2. CatalogInv /\ [CatalogsNext]_catalogVars => CatalogInv'
    BY CatalogStep
  <1>3. CatalogInv => SyncRepairs
    BY CatalogShows
  <1> QED
    BY <1>1, <1>2, <1>3, PTL DEF CatalogsSpec
===============================================================================
