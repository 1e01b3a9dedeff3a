----------------------------- MODULE ModelsProofs -----------------------------
(***************************************************************************)
(* Proofs about the model registry and the parts that go with it.          *)
(*                                                                         *)
(* Registry: a row of a model that is not there cannot be written          *)
(* (RowsHaveModel), so a model registered again starts empty and the       *)
(* version a promotion leaves in Production is the only one                *)
(* (ProductionIsServed).  What a score has read was so at a moment of the  *)
(* call (SeenInv), hence so was what it uses.                              *)
(*                                                                         *)
(* Tracking: a run that is RUNNING is handed from the call that makes it   *)
(* to the stack and from there to the call that ends it (RunningInv), the  *)
(* blocks of a thread nobody comes between stand on the top of its         *)
(* process's stack (BlocksInv), and at most one thread of a process is in  *)
(* a fit or about to enter one (FitInv).                                   *)
(*                                                                         *)
(* Webhooks: an id holds the length of the list and the second it was made *)
(* in.  As long as a store loses no webhook in a second, whatever it holds *)
(* of that second has a lower length in its id than the list has now; so   *)
(* two webhooks share an id only of a second of a removal (WebhookInv).    *)
(* The count of a webhook is behind the calls that got through by the one  *)
(* under way, if it did (CountInv).                                        *)
(*                                                                         *)
(* Lineage: in every section a job has still to write, the ends of an edge *)
(* are put before it or were put already, or it is a dbt reference         *)
(* (TodoInv).  So an edge that lacks a node lost it meanwhile.  The walks  *)
(* that read the graph are proved to find what paths lead to.              *)
(***************************************************************************)
EXTENDS Registry, Tracking, Lineage, Webhooks, FiniteSetTheorems, SequenceTheorems, WellFoundedInduction, TLAPS

-----------------------------------------------------------------------------
(* Bounded sets of numbers. *)

LEMMA LessThanWellFounded == IsWellFoundedOn({p \in Nat \X Nat : p[1] < p[2]}, Nat)
  BY NatLessThanWellFounded DEF OpToRel

LEMMA SmallestExists ==
    ASSUME NEW T \in SUBSET Nat, T # {}
    PROVE  \E x \in T : \A y \in T : x <= y
  <1> DEFINE R == {p \in Nat \X Nat : p[1] < p[2]}
  <1>1. IsWellFoundedOn(R, Nat)
    BY LessThanWellFounded
  <1> HIDE DEF R
  <1>2. PICK x \in T : \A y \in T : ~(<<y, x>> \in R)
    BY <1>1, WFMin
  <1>3. \A y \in T : ~(y < x)
    BY <1>2 DEF R
  <1> QED
    BY <1>3

LEMMA LargestExists ==
    ASSUME NEW n \in Nat, NEW S \in SUBSET (0..n), S # {}
    PROVE  \E x \in S : \A y \in S : y <= x
  <1> DEFINE T == {n - x : x \in S}
  <1>1. T \in SUBSET Nat /\ T # {}
    <2>1. \A x \in S : n - x \in Nat
      OBVIOUS
    <2> QED
      BY <2>1
  <1> HIDE DEF T
  <1>2. PICK t \in T : \A y \in T : t <= y
    BY <1>1, SmallestExists
  <1> USE DEF T
  <1>3. PICK x \in S : t = n - x
    BY <1>2
  <1>4. \A y \in S : n - x <= n - y
    BY <1>2, <1>3
  <1> QED
    BY <1>3, <1>4

LEMMA BoundType == MaxVersion \in Nat /\ MaxVersion >= 2 /\ MaxCalls \in Nat
  BY RegistryAssumption

LEMMA Max0Type ==
    ASSUME NEW S \in SUBSET Versions
    PROVE  Max0(S) \in Numbers /\ (S # {} => Max0(S) \in S)
  <1>1. CASE S = {}
    BY <1>1, BoundType DEF Max0, Numbers
  <1>2. CASE S # {}
    <2>1. S \in SUBSET (0..MaxVersion) /\ MaxVersion \in Nat
      BY BoundType DEF Versions
    <2>2. \E x \in S : \A y \in S : y <= x
      BY <1>2, <2>1, LargestExists
    <2>3. Max0(S) \in S
      BY <1>2, <2>2 DEF Max0
    <2> QED
      BY <1>2, <2>1, <2>3 DEF Numbers
  <1> QED
    BY <1>1, <1>2

-----------------------------------------------------------------------------
(* Registry: types. *)

\* A call that a step names is one of the calls.
ScoreCalls == [op : {"score"}, name : Names, version : Numbers, alias : Aliases \cup {"", "Production"}]
Scoring == {"resolve", "reopen", "row", "count"}

Fits(k, step) ==
    /\ step \in Scoring => k.op = "score"
    /\ step = "register" => k.op = "create_version"
    /\ step = "check" => k.op \in {"create_model", "set_alias", "create_version", "serve"}
    /\ step # "idle" => k \in Calls

OpsInv == \A c \in Clients : Fits(call[c], pc[c])

LEMMA CallTypes ==
    ASSUME NEW k \in Calls
    PROVE  /\ k.name \in Names
           /\ k.op \in {"create_version", "delete_version", "transition", "set_alias", "serve"} =>
                IF k.op = "serve" THEN k.version \in Numbers /\ k.stage \in Stages
                ELSE IF k.op = "create_version" THEN k.stage \in Stages /\ k.run \in Runs
                ELSE k.version \in Versions
           /\ k.op = "transition" => k.stage \in Stages /\ k.archive \in BOOLEAN
           /\ k.op \in {"set_alias", "delete_alias"} => k.alias \in Aliases
           /\ k.op = "score" => k \in ScoreCalls
  BY DEF Calls, ScoreCalls

TablesOK ==
    /\ models \subseteq Names
    /\ stage \in [Rows -> Stages \cup {""}] /\ run \in [Rows -> Runs \cup {"seed", ""}]
    /\ alias \in [Tags -> Numbers]
    /\ epStage \in [Names -> Stages \cup {""}] /\ epVersion \in [Names -> Numbers]
    /\ requests \in [Names -> Nat] /\ loose \subseteq Names

Steps == {"idle", "open", "check", "write", "register", "answer", "resolve", "versions",
          "reopen", "row", "count"}
LocalOK ==
    /\ call \in [Clients -> Mix \cup {NoCall}] /\ pc \in [Clients -> Steps]
    /\ saw \in [Clients -> Numbers] /\ sawAlias \in [Clients -> [Aliases -> Numbers]]
    /\ calls \in 0..MaxCalls

LEMMA TypeSplit == TypeOK <=> TablesOK /\ LocalOK
  BY DEF TypeOK, TablesOK, LocalOK, Steps

LEMMA SeedRows ==
    /\ <<"turnover", 1>> \in Rows /\ <<"turnover", 2>> \in Rows /\ <<"equipment", 1>> \in Rows
    /\ 0 \in Numbers /\ 1 \in Numbers /\ 2 \in Numbers /\ Versions \subseteq Numbers
    /\ "turnover" \in Names /\ "equipment" \in Names
  BY BoundType DEF Rows, Names, Seeds, Versions, Numbers

LEMMA NoAliasesType == NoAliasesSeen \in [Aliases -> Numbers]
  BY SeedRows DEF NoAliasesSeen

LEMMA InitType == Init => TypeOK /\ OpsInv
  <1> SUFFICES ASSUME Init PROVE TypeOK /\ OpsInv
    OBVIOUS
  <1>1. TablesOK
    BY SeedRows DEF Init, TablesOK
  <1>2. LocalOK
    <2>1. calls \in 0..MaxCalls
      <3>1. calls = 0
        BY DEF Init
      <3> QED
        BY <3>1, BoundType
    <2> QED
      BY <2>1, SeedRows, NoAliasesType DEF Init, LocalOK, Steps
  <1>3. OpsInv
    BY DEF Init, OpsInv, Fits, Scoring
  <1> QED
    BY <1>1, <1>2, <1>3, TypeSplit

LEMMA SeedModelsType == ASSUME TablesOK, SeedModels PROVE TablesOK'
  <1>1. models' \subseteq Names /\ loose' \subseteq Names
    BY DEF SeedModels, TablesOK, Names
  <1>2. stage' \in [Rows -> Stages \cup {""}]
    BY DEF SeedModels, TablesOK, Stages
  <1>3. run' \in [Rows -> Runs \cup {"seed", ""}]
    BY DEF SeedModels, TablesOK
  <1>4. epStage' \in [Names -> Stages \cup {""}] /\ epVersion' \in [Names -> Numbers]
    BY SeedRows DEF SeedModels, TablesOK, Stages
  <1> QED
    BY <1>1, <1>2, <1>3, <1>4 DEF SeedModels, TablesOK

LEMMA SeedAliasesType == ASSUME TablesOK, SeedAliases PROVE TablesOK'
  <1>1. alias' \in [Tags -> Numbers]
    BY SeedRows DEF SeedAliases, TablesOK
  <1> QED
    BY <1>1 DEF SeedAliases, TablesOK

\* How a call goes on.
LEMMA ReturnType ==
    ASSUME LocalOK, OpsInv, NEW c \in Clients, Return(c)
    PROVE  LocalOK' /\ OpsInv'
  <1>1. saw' \in [Clients -> Numbers] /\ sawAlias' \in [Clients -> [Aliases -> Numbers]]
    BY SeedRows, NoAliasesType DEF Return, LocalOK
  <1>2. call' \in [Clients -> Mix \cup {NoCall}] /\ pc' \in [Clients -> Steps] /\ calls' = calls
    BY DEF Return, Goto, LocalOK, Steps
  <1>3. OpsInv'
    BY DEF Return, Goto, LocalOK, OpsInv, Fits, Scoring
  <1> QED
    BY <1>1, <1>2, <1>3 DEF LocalOK

LEMMA ContinueType ==
    ASSUME LocalOK, OpsInv, NEW c \in Clients, NEW step \in Steps, Continue(c, step),
           saw' \in [Clients -> Numbers], Fits(call[c], step)
    PROVE  LocalOK' /\ OpsInv'
  <1>1. pc' \in [Clients -> Steps] /\ UNCHANGED <<call, sawAlias, calls>>
    BY DEF Continue, Goto, LocalOK
  <1>2. OpsInv'
    BY DEF Continue, Goto, LocalOK, OpsInv
  <1> QED
    BY <1>1, <1>2 DEF LocalOK

LEMMA WrittenType ==
    ASSUME LocalOK, OpsInv, NEW c \in Clients, Written(c), pc[c] # "idle"
    PROVE  LocalOK' /\ OpsInv'
  <1>1. CASE ReadsBack(call[c].op)
    <2>1. Continue(c, "answer") /\ saw' \in [Clients -> Numbers]
      BY <1>1 DEF Written, LocalOK
    <2>2. Fits(call[c], "answer")
      BY DEF OpsInv, Fits, Scoring
    <2> QED
      BY <2>1, <2>2, ContinueType DEF Steps
  <1>2. CASE ~ReadsBack(call[c].op)
    BY <1>2, ReturnType DEF Written
  <1> QED
    BY <1>1, <1>2

LEMMA LookUpType ==
    ASSUME LocalOK, OpsInv, NEW c \in Clients, NEW v \in Numbers, LookUp(c, v) \/ FromList(c, v),
           pc[c] # "idle", call[c].op = "score"
    PROVE  LocalOK' /\ OpsInv'
  <1>1. CASE Return(c)
    BY <1>1, ReturnType
  <1>2. ASSUME NEW step \in {"reopen", "count"},
               saw' = [saw EXCEPT ![c] = v], Continue(c, step)
        PROVE  LocalOK' /\ OpsInv'
    <2>1. saw' \in [Clients -> Numbers]
      BY <1>2 DEF LocalOK
    <2>2. Fits(call[c], step)
      BY DEF OpsInv, Fits, Scoring
    <2> QED
      BY <1>2, <2>1, <2>2, ContinueType DEF Steps
  <1>3. Return(c) \/ \E step \in {"reopen", "count"} :
                        saw' = [saw EXCEPT ![c] = v] /\ Continue(c, step)
    BY DEF LookUp, FromList
  <1> QED
    BY <1>1, <1>2, <1>3

\* The versions a score may come to are numbers.
LEMMA DesignationType ==
    ASSUME TypeOK, NEW m \in Names
    PROVE  /\ Newest(m) \in Numbers
           /\ \A s : Max0(InStage(m, s)) \in Numbers
  BY Max0Type DEF Newest, VersionsOf, InStage

\* What an insertion of a version writes.
LEMMA InsertType ==
    ASSUME TypeOK, NEW k \in Calls, k.op = "create_version", NEW v, InsertVersion(k.name, v, k),
           models' \subseteq Names
    PROVE  TablesOK'
  <1>1. k.name \in Names /\ k.stage \in Stages /\ k.run \in Runs
    BY CallTypes
  <1>2. stage' \in [Rows -> Stages \cup {""}] /\ run' \in [Rows -> Runs \cup {"seed", ""}]
    BY <1>1 DEF InsertVersion, TypeOK, Rows
  <1>3. loose' \subseteq Names
    BY <1>1 DEF InsertVersion, TypeOK
  <1> QED
    BY <1>2, <1>3 DEF InsertVersion, TypeOK, TablesOK

\* One step of a client keeps the types.
LEMMA StepType ==
    ASSUME TypeOK, OpsInv, NEW c \in Clients, Step(c)
    PROVE  TablesOK' /\ LocalOK' /\ OpsInv'
  <1>1. TablesOK /\ LocalOK
    BY TypeSplit
  <1>2. UNCHANGED <<tables, loose>> => TablesOK'
    BY <1>1 DEF tables, TablesOK
  <1>3. pc[c] # "idle" => call[c] \in Calls
    BY DEF OpsInv, Fits
  <1>4. CASE Begin(c)
    <2>1. PICK k \in Mix : call' = [call EXCEPT ![c] = k]
      BY <1>4 DEF Begin
    <2>2. k \in Calls
      BY RegistryAssumption
    <2>3. /\ call' \in [Clients -> Mix \cup {NoCall}] /\ pc' \in [Clients -> Steps]
          /\ UNCHANGED <<saw, sawAlias, tables, loose>>
      BY <1>4, <2>1 DEF Begin, TypeOK, Steps
    <2>4. calls' \in 0..MaxCalls
      <3>1. calls \in 0..MaxCalls /\ calls < MaxCalls /\ calls' = calls + 1
        BY <1>4 DEF Begin, TypeOK
      <3> QED
        BY <3>1, BoundType
    <2>5. OpsInv'
      BY <1>4, <2>1, <2>2 DEF Begin, TypeOK, OpsInv, Fits, Scoring
    <2> QED
      BY <1>1, <1>2, <2>3, <2>4, <2>5 DEF LocalOK
  <1>5. CASE OpenDb(c)
    <2>1. TablesOK'
      BY <1>1, <1>2, <1>5, SeedModelsType, SeedAliasesType DEF OpenDb, InitTables, Raise
    <2>2. CASE Return(c)
      BY <1>1, <2>1, <2>2, ReturnType
    <2>3. CASE Continue(c, AfterOpen(c)) /\ UNCHANGED saw /\ pc[c] # "answer"
      <3>1. AfterOpen(c) \in Steps /\ Fits(call[c], AfterOpen(c))
        BY <1>5, <2>3 DEF OpenDb, AfterOpen, OpsInv, Fits, Scoring, Steps
      <3>2. saw' \in [Clients -> Numbers]
        BY <2>3 DEF TypeOK
      <3> QED
        BY <1>1, <2>1, <2>3, <3>1, <3>2, ContinueType
    <2> QED
      BY <1>5, <2>2, <2>3 DEF OpenDb, Raise
  <1>6. CASE Check(c)
    <2>1. TablesOK' /\ pc[c] = "check"
      BY <1>2, <1>6 DEF Check
    <2>2. call[c].op \in {"create_model", "set_alias", "create_version", "serve"}
      BY <2>1 DEF OpsInv, Fits
    <2>3. CASE Return(c)
      BY <1>1, <2>1, <2>3, ReturnType
    <2>4. ASSUME NEW found \in {0, 1}, NEW step \in {"write", "versions", "register"},
                 saw' = [saw EXCEPT ![c] = found], Continue(c, step),
                 step = "register" => call[c].op = "create_version"
          PROVE  LocalOK' /\ OpsInv'
      <3>1. saw' \in [Clients -> Numbers]
        BY <2>4, SeedRows DEF TypeOK
      <3>2. step \in Steps /\ Fits(call[c], step)
        BY <2>1, <2>4 DEF Steps, OpsInv, Fits, Scoring
      <3> QED
        BY <1>1, <2>4, <3>1, <3>2, ContinueType
    <2>5. Return(c) \/ \E found \in {0, 1}, step \in {"write", "versions", "register"} :
                          /\ saw' = [saw EXCEPT ![c] = found] /\ Continue(c, step)
                          /\ step = "register" => call[c].op = "create_version"
      BY <1>6, <2>2, Zenon DEF Check
    <2> QED
      BY <2>1, <2>3, <2>4, <2>5
  <1>7. CASE CreateModel(c)
    <2>1. pc[c] # "idle" /\ (Return(c) \/ Written(c))
      BY <1>7 DEF CreateModel, Raise
    <2>2. TablesOK'
      BY <1>1, <1>2, <1>3, <1>7, CallTypes DEF CreateModel, Raise, TablesOK
    <2> QED
      BY <1>1, <2>1, <2>2, ReturnType, WrittenType
  <1>8. CASE DeleteModel(c)
    <2>1. pc[c] # "idle" /\ Written(c) /\ call[c].name \in Names
      BY <1>3, <1>8, CallTypes DEF DeleteModel
    <2>2. stage' \in [Rows -> Stages \cup {""}] /\ run' \in [Rows -> Runs \cup {"seed", ""}]
      BY <1>8 DEF DeleteModel, TypeOK
    <2>3. alias' \in [Tags -> Numbers]
      BY <1>8, SeedRows DEF DeleteModel, TypeOK
    <2>4. /\ epStage' \in [Names -> Stages \cup {""}] /\ epVersion' \in [Names -> Numbers]
          /\ requests' \in [Names -> Nat] /\ loose' \subseteq Names /\ models' \subseteq Names
      BY <1>8, <2>1, SeedRows DEF DeleteModel, TypeOK
    <2> QED
      BY <1>1, <2>1, <2>2, <2>3, <2>4, WrittenType DEF TablesOK
  <1>9. CASE ReadMaxVersion(c)
    <2>1. Newest(call[c].name) \in Numbers
      BY <1>3, <1>9, CallTypes, DesignationType DEF ReadMaxVersion
    <2>2. saw' \in [Clients -> Numbers] /\ Continue(c, "write") /\ TablesOK'
      BY <1>2, <1>9, <2>1 DEF ReadMaxVersion, TypeOK
    <2>3. Fits(call[c], "write")
      BY <1>3, <1>9 DEF ReadMaxVersion, Fits, Scoring
    <2> QED
      BY <1>1, <2>2, <2>3, ContinueType DEF Steps
  <1>10. CASE CreateModelVersion(c)
    <2>1. pc[c] # "idle" /\ call[c].op = "create_version" /\ (Return(c) \/ Written(c))
      BY <1>10 DEF CreateModelVersion, Raise
    <2>2. TablesOK'
      <3>1. CASE UNCHANGED <<tables, loose>>
        BY <1>2, <3>1
      <3>2. CASE InsertVersion(call[c].name, saw[c] + 1, call[c]) /\ UNCHANGED models
        BY <1>3, <2>1, <3>2, InsertType DEF TypeOK
      <3> QED
        BY <1>10, <3>1, <3>2 DEF CreateModelVersion, Raise
    <2> QED
      BY <1>1, <2>1, <2>2, ReturnType, WrittenType
  <1>11. CASE RegisterModelVersion(c)
    <2>1. pc[c] # "idle" /\ call[c].op = "create_version" /\ (Return(c) \/ Written(c))
      BY <1>11 DEF RegisterModelVersion, Raise, OpsInv, Fits
    <2>2. TablesOK'
      <3>1. CASE UNCHANGED <<tables, loose>>
        BY <1>2, <3>1
      <3>2. CASE /\ InsertVersion(call[c].name, Newest(call[c].name) + 1, call[c])
                 /\ models' = models \cup {call[c].name}
        BY <1>3, <2>1, <3>2, InsertType, CallTypes DEF TypeOK
      <3> QED
        BY <1>11, <3>1, <3>2 DEF RegisterModelVersion, Raise
    <2> QED
      BY <1>1, <2>1, <2>2, ReturnType, WrittenType
  <1>12. CASE DeleteModelVersion(c)
    <2>1. pc[c] # "idle" /\ Written(c) /\ call[c].name \in Names
      BY <1>3, <1>12, CallTypes DEF DeleteModelVersion
    <2>2. TablesOK'
      BY <1>1, <1>12, <2>1 DEF DeleteModelVersion, TablesOK
    <2> QED
      BY <1>1, <2>1, <2>2, WrittenType
  <1>13. CASE TransitionModelVersionStage(c)
    <2>1. pc[c] # "idle" /\ Written(c) /\ call[c].name \in Names
      BY <1>3, <1>13, CallTypes DEF TransitionModelVersionStage
    <2>2. call[c].version \in Versions /\ call[c].stage \in Stages
      BY <1>3, <1>13, CallTypes DEF TransitionModelVersionStage
    <2>3. stage' \in [Rows -> Stages \cup {""}]
      BY <1>13, <2>2 DEF TransitionModelVersionStage, TypeOK, Stages
    <2>4. epVersion' \in [Names -> Numbers]
      BY <1>13, <2>1, <2>2, SeedRows DEF TransitionModelVersionStage, TypeOK
    <2>5. loose' \subseteq Names
      BY <1>13, <2>1 DEF TransitionModelVersionStage, TypeOK
    <2>6. TablesOK'
      BY <1>1, <1>13, <2>3, <2>4, <2>5 DEF TransitionModelVersionStage, TablesOK
    <2> QED
      BY <1>1, <2>1, <2>6, WrittenType
  <1>14. CASE SetModelAlias(c)
    <2>1. pc[c] # "idle" /\ (Return(c) \/ Written(c)) /\ call[c].version \in Numbers
      BY <1>3, <1>14, CallTypes, SeedRows DEF SetModelAlias, Raise
    <2>2. TablesOK'
      <3>1. CASE UNCHANGED <<tables, loose>>
        BY <1>2, <3>1
      <3>2. CASE /\ alias' = [alias EXCEPT ![<<call[c].name, call[c].alias>>] = call[c].version]
                 /\ UNCHANGED <<models, stage, run, epStage, epVersion, requests, loose>>
        BY <1>1, <2>1, <3>2 DEF TablesOK
      <3> QED
        BY <1>14, <3>1, <3>2 DEF SetModelAlias, Raise
    <2> QED
      BY <1>1, <2>1, <2>2, ReturnType, WrittenType
  <1>15. CASE DeleteModelAlias(c)
    <2>1. pc[c] # "idle" /\ Written(c)
      BY <1>15 DEF DeleteModelAlias
    <2>2. TablesOK'
      BY <1>1, <1>15, SeedRows DEF DeleteModelAlias, TablesOK
    <2> QED
      BY <1>1, <2>1, <2>2, WrittenType
  <1>16. CASE CreateOrUpdateServingEndpoint(c)
    <2>1. /\ pc[c] # "idle" /\ (Return(c) \/ Written(c)) /\ call[c].name \in Names
          /\ call[c].version \in Numbers /\ call[c].stage \in Stages
      BY <1>3, <1>16, CallTypes DEF CreateOrUpdateServingEndpoint, Raise
    <2>2. TablesOK'
      <3>1. CASE UNCHANGED <<tables, loose>>
        BY <1>2, <3>1
      <3>2. CASE /\ epStage' = [epStage EXCEPT ![call[c].name] = call[c].stage]
                 /\ epVersion' = [epVersion EXCEPT ![call[c].name] = call[c].version]
                 /\ loose' = loose \cup {call[c].name}
                 /\ UNCHANGED <<models, stage, run, alias, requests>>
        BY <1>1, <2>1, <3>2 DEF TablesOK
      <3> QED
        BY <1>16, <3>1, <3>2 DEF CreateOrUpdateServingEndpoint, Raise, tables
    <2> QED
      BY <1>1, <2>1, <2>2, ReturnType, WrittenType
  <1>17. CASE ReadAliases(c)
    <2>1. TablesOK' /\ pc[c] = "resolve" /\ call[c].name \in Names
      BY <1>2, <1>3, <1>17, CallTypes DEF ReadAliases
    <2>2. CASE Return(c)
      BY <1>1, <2>1, <2>2, ReturnType
    <2>3. CASE /\ sawAlias' = [sawAlias EXCEPT ![c] = [a \in Aliases |-> alias[<<call[c].name, a>>]]]
               /\ Goto(c, "versions") /\ UNCHANGED <<call, saw, calls>>
      <3>1. [a \in Aliases |-> alias[<<call[c].name, a>>]] \in [Aliases -> Numbers]
        BY <2>1 DEF TypeOK, Tags
      <3>2. LocalOK'
        BY <1>1, <2>3, <3>1 DEF LocalOK, Goto, Steps
      <3>3. OpsInv'
        BY <1>3, <2>1, <2>3 DEF TypeOK, Goto, OpsInv, Fits, Scoring
      <3> QED
        BY <2>1, <3>2, <3>3
    <2> QED
      BY <1>17, <2>2, <2>3 DEF ReadAliases
  <1>18. CASE SelectVersion(c)
    <2>1. /\ TablesOK' /\ pc[c] # "idle" /\ call[c].op = "score" /\ call[c].name \in Names
          /\ call[c] \in ScoreCalls
      BY <1>2, <1>3, <1>18, CallTypes DEF SelectVersion
    <2>2. \A a \in Aliases : sawAlias[c][a] \in Numbers
      BY DEF TypeOK
    <2>3. /\ Newest(call[c].name) \in Numbers /\ \A s : Max0(InStage(call[c].name, s)) \in Numbers
          /\ call[c].version \in Numbers /\ "champion" \in Aliases
      BY <2>1, DesignationType DEF ScoreCalls, Aliases
    <2>4. \E v \in Numbers : LookUp(c, v) \/ FromList(c, v)
      BY <1>18, <2>2, <2>3 DEF SelectVersion, ByDefault
    <2> QED
      BY <1>1, <2>1, <2>4, LookUpType
  <1>19. CASE GetModelVersion(c)
    <2>1. TablesOK' /\ pc[c] = "row"
      BY <1>2, <1>19 DEF GetModelVersion
    <2>2. Fits(call[c], "count")
      BY <1>3, <2>1 DEF OpsInv, Fits, Scoring
    <2>3. saw \in [Clients -> Numbers]
      BY DEF TypeOK
    <2> QED
      BY <1>1, <1>19, <2>1, <2>2, <2>3, ReturnType, ContinueType DEF GetModelVersion, Steps
  <1>20. CASE CountRequest(c)
    <2>1. requests' \in [Names -> Nat]
      <3>1. call[c].name \in Names
        BY <1>3, <1>20, CallTypes DEF CountRequest
      <3>2. requests[call[c].name] + 1 \in Nat
        <4>1. requests[call[c].name] \in Nat
          BY <1>1, <3>1 DEF TablesOK
        <4> QED
          BY <4>1
      <3>3. requests' = requests \/ requests' = [requests EXCEPT ![call[c].name] = requests[call[c].name] + 1]
        BY <1>20 DEF CountRequest
      <3> QED
        BY <3>2, <3>3 DEF TypeOK
    <2>2. TablesOK' /\ Return(c)
      BY <1>1, <1>20, <2>1 DEF CountRequest, TablesOK
    <2> QED
      BY <1>1, <2>2, ReturnType
  <1> QED
    BY <1>4, <1>5, <1>6, <1>7, <1>8, <1>9, <1>10, <1>11, <1>12, <1>13, <1>14, <1>15, <1>16,
       <1>17, <1>18, <1>19, <1>20 DEF Step

LEMMA TypeStep == TypeOK /\ OpsInv /\ [Next]_vars => TypeOK' /\ OpsInv'
  <1> SUFFICES ASSUME TypeOK, OpsInv, [Next]_vars PROVE TypeOK' /\ OpsInv'
    OBVIOUS
  <1>1. CASE Next
    <2>1. PICK c \in Clients : Step(c)
      BY <1>1 DEF Next
    <2> QED
      BY <2>1, StepType DEF TypeOK, TablesOK, LocalOK, Steps
  <1>2. CASE UNCHANGED vars
    BY <1>2 DEF vars, tables, locals, TypeOK, OpsInv
  <1> QED
    BY <1>1, <1>2

-----------------------------------------------------------------------------
(* Registry: the rows of a model. *)

\* The steps that only read, and the calls that come to nothing.
Quiet(c) == UNCHANGED <<tables, loose>>

LEMMA QuietSteps ==
    ASSUME NEW c \in Clients,
           Begin(c) \/ Check(c) \/ ReadMaxVersion(c) \/ ReadAliases(c) \/ SelectVersion(c)
             \/ GetModelVersion(c)
    PROVE  Quiet(c)
  BY DEF Quiet, Begin, Check, ReadMaxVersion, ReadAliases, SelectVersion, GetModelVersion

\* RowsHaveModel, row by row.
LEMMA RowByRow ==
    RowsHaveModel <=>
        \A m \in Names \ models :
            /\ \A v \in Versions : stage[<<m, v>>] = ""
            /\ \A a \in Aliases : alias[<<m, a>>] = 0
            /\ epStage[m] = ""
  BY DEF RowsHaveModel, VersionsOf

LEMMA RowsStep ==
    ASSUME TypeOK, OpsInv, RowsHaveModel, NEW c \in Clients, Step(c)
    PROVE  RowsHaveModel'
  <1> DEFINE P == \A m \in Names \ models :
                     /\ \A v \in Versions : stage[<<m, v>>] = ""
                     /\ \A a \in Aliases : alias[<<m, a>>] = 0
                     /\ epStage[m] = ""
  <1> SUFFICES P'
    BY DEF RowsHaveModel, VersionsOf
  <1>1. P
    BY RowByRow
  <1>2. pc[c] # "idle" => call[c] \in Calls
    BY DEF OpsInv, Fits
  <1>3. CASE Quiet(c)
    BY <1>1, <1>3 DEF Quiet, tables
  <1>4. CASE SeedModels /\ models = {}
    <2>1. \A p \in Rows : p[1] \notin Seeds => stage'[p] = stage[p]
      <3>1. stage \in [Rows -> Stages \cup {""}]
        BY DEF TypeOK
      <3>2. stage' = [stage EXCEPT ![<<"turnover", 1>>] = "Staging", ![<<"turnover", 2>>] = "Production",
                                   ![<<"equipment", 1>>] = "Production"]
        BY <1>4 DEF SeedModels
      <3>3. ASSUME NEW p \in Rows, p[1] \notin Seeds
            PROVE  p # <<"turnover", 1>> /\ p # <<"turnover", 2>> /\ p # <<"equipment", 1>>
        BY <3>3 DEF Seeds
      <3> QED
        BY <3>1, <3>2, <3>3
    <2>2. \A m \in Names \ Seeds : epStage'[m] = epStage[m]
      BY <1>4 DEF SeedModels, TypeOK, Seeds
    <2>3. models' = Seeds /\ alias' = alias
      BY <1>4 DEF SeedModels
    <2> QED
      BY <1>1, <1>4, <2>1, <2>2, <2>3 DEF Rows
  <1>5. CASE SeedAliases
    <2>1. \A q \in Tags : q[1] \notin Seeds => alias'[q] = alias[q]
      <3>1. alias \in [Tags -> Numbers]
        BY DEF TypeOK
      <3>2. alias' = [alias EXCEPT ![<<"turnover", "champion">>] = 2, ![<<"turnover", "challenger">>] = 1,
                                   ![<<"equipment", "champion">>] = 1]
        BY <1>5 DEF SeedAliases
      <3> QED
        BY <3>1, <3>2 DEF Seeds
    <2>2. Seeds \subseteq models /\ UNCHANGED <<models, stage, epStage>>
      BY <1>5 DEF SeedAliases
    <2> QED
      BY <1>1, <2>1, <2>2 DEF Tags
  <1>6. CASE OpenDb(c)
    BY <1>3, <1>4, <1>5, <1>6 DEF OpenDb, InitTables, Raise, Quiet
  <1>7. CASE CreateModel(c)
    <2>1. CASE models \subseteq models' /\ UNCHANGED <<stage, alias, epStage>>
      BY <1>1, <2>1
    <2> QED
      BY <1>3, <1>7, <2>1 DEF CreateModel, Raise, Quiet
  <1>8. CASE DeleteModel(c)
    <2>1. \A p \in Rows : stage'[p] = IF p[1] = call[c].name THEN "" ELSE stage[p]
      BY <1>8 DEF DeleteModel
    <2>2. \A q \in Tags : alias'[q] = IF q[1] = call[c].name THEN 0 ELSE alias[q]
      BY <1>8 DEF DeleteModel
    <2>3. \A m \in Names : epStage'[m] = IF m = call[c].name THEN "" ELSE epStage[m]
      BY <1>8 DEF DeleteModel, TypeOK
    <2>4. models' = models \ {call[c].name}
      BY <1>8 DEF DeleteModel
    <2> QED
      BY <1>1, <2>1, <2>2, <2>3, <2>4 DEF Rows, Tags
  <1>9. ASSUME NEW m \in models', NEW v, InsertVersion(m, v, call[c]), models \subseteq models'
        PROVE  P'
    BY <1>1, <1>9 DEF InsertVersion, TypeOK, Rows
  <1>10. CASE CreateModelVersion(c)
    BY <1>3, <1>9, <1>10 DEF CreateModelVersion, VersionRefused, KeyMissing, Raise, Quiet
  <1>11. CASE RegisterModelVersion(c)
    BY <1>3, <1>9, <1>11 DEF RegisterModelVersion, Raise, Quiet
  <1>12. CASE DeleteModelVersion(c)
    BY <1>1, <1>12 DEF DeleteModelVersion, TypeOK, Rows
  <1>13. CASE TransitionModelVersionStage(c)
    <2>1. \A p \in Rows : stage[p] = "" => stage'[p] = ""
      BY <1>13 DEF TransitionModelVersionStage
    <2>2. UNCHANGED <<models, alias, epStage>>
      BY <1>13 DEF TransitionModelVersionStage
    <2> QED
      BY <1>1, <2>1, <2>2 DEF Rows
  <1>14. CASE SetModelAlias(c)
    <2>1. CASE ~KeyMissing(call[c].name) /\ alias' = [alias EXCEPT ![<<call[c].name, call[c].alias>>] = call[c].version]
               /\ UNCHANGED <<models, stage, epStage>>
      BY <1>1, <2>1 DEF KeyMissing, TypeOK, Tags
    <2> QED
      BY <1>3, <1>14, <2>1 DEF SetModelAlias, Raise, Quiet
  <1>15. CASE DeleteModelAlias(c)
    BY <1>1, <1>15 DEF DeleteModelAlias, TypeOK, Tags
  <1>16. CASE CreateOrUpdateServingEndpoint(c)
    <2>1. call[c].name \in Names
      BY <1>2, <1>16, CallTypes DEF CreateOrUpdateServingEndpoint
    <2>2. CASE /\ IF saw[c] > 0 THEN epStage[call[c].name] # ""
                                ELSE epStage[call[c].name] = "" /\ ~KeyMissing(call[c].name)
               /\ epStage' = [epStage EXCEPT ![call[c].name] = call[c].stage]
               /\ UNCHANGED <<models, stage, alias>>
      BY <1>1, <2>1, <2>2 DEF KeyMissing, TypeOK
    <2>3. CASE Quiet(c)
      BY <1>3, <2>3
    <2> QED
      BY <1>16, <2>2, <2>3 DEF CreateOrUpdateServingEndpoint, Raise, Quiet, tables
  <1>17. CASE CountRequest(c)
    BY <1>1, <1>17 DEF CountRequest
  <1> QED
    BY <1>3, <1>6, <1>7, <1>8, <1>10, <1>11, <1>12, <1>13, <1>14, <1>15, <1>16, <1>17, QuietSteps
    DEF Step

-----------------------------------------------------------------------------
(* Registry: the version in Production. *)

LEMMA ProductionStep ==
    ASSUME TypeOK, OpsInv, RowsHaveModel, ProductionIsServed, NEW c \in Clients, Step(c)
    PROVE  ProductionIsServed'
  <1> DEFINE Served(m) == \E v \in Versions :
                             /\ \A w \in Versions : stage[<<m, w>>] = "Production" <=> w = v
                             /\ epStage[m] = "Production" => epVersion[m] = v
  <1>1. \A m \in Names \ loose : Served(m)
    BY DEF ProductionIsServed, InStage
  <1> SUFFICES \A m \in Names \ loose' : Served(m)'
    <2>1. ASSUME NEW m \in Names \ loose', NEW v \in Versions,
                 \A w \in Versions : stage'[<<m, w>>] = "Production" <=> w = v
          PROVE  InStage(m, "Production")' = {v}
      BY <2>1 DEF InStage
    <2> QED
      BY <2>1 DEF ProductionIsServed
  <1>2. pc[c] # "idle" => call[c] \in Calls /\ call[c].name \in Names
    BY CallTypes DEF OpsInv, Fits
  \* A model none of whose rows in question changes.
  <1>3. ASSUME NEW m \in Names \ loose', m \notin loose,
               \A w \in Versions : stage'[<<m, w>>] = "Production" <=> stage[<<m, w>>] = "Production",
               epStage'[m] = epStage[m], epVersion'[m] = epVersion[m]
        PROVE  Served(m)'
    <2>1. PICK v \in Versions : /\ \A w \in Versions : stage[<<m, w>>] = "Production" <=> w = v
                                /\ epStage[m] = "Production" => epVersion[m] = v
      BY <1>1, <1>3
    <2> QED
      BY <1>3, <2>1
  <1> HIDE DEF Served
  <1>4. ASSUME UNCHANGED <<stage, epStage, epVersion, loose>> PROVE \A m \in Names \ loose' : Served(m)'
    BY <1>3, <1>4
  <1>5. CASE Quiet(c)
    BY <1>4, <1>5 DEF Quiet, tables
  <1>6. CASE SeedModels /\ models = {}
    <2>1. \A p \in Rows : stage[p] = ""
      <3>1. \A m \in Names : \A v \in Versions : stage[<<m, v>>] = ""
        BY <1>6, RowByRow
      <3>2. ASSUME NEW p \in Rows PROVE stage[p] = ""
        <4>1. PICK m \in Names, v \in Versions : p = <<m, v>>
          BY DEF Rows
        <4> QED
          BY <3>1, <4>1
      <3> QED
        BY <3>2
    <2>2. \A w \in Versions : /\ stage'[<<"turnover", w>>] = "Production" <=> w = 2
                              /\ stage'[<<"equipment", w>>] = "Production" <=> w = 1
      BY <1>6, <2>1, SeedRows DEF SeedModels, TypeOK, Rows
    <2>3. epVersion'["turnover"] = 2 /\ epVersion'["equipment"] = 1
      BY <1>6, SeedRows DEF SeedModels, TypeOK
    <2>4. Served("turnover")' /\ Served("equipment")'
      <3>1. 1 \in Versions /\ 2 \in Versions
        BY BoundType DEF Versions
      <3> QED
        BY <2>2, <2>3, <3>1 DEF Served
    <2>5. ASSUME NEW m \in Names \ loose', m \notin Seeds PROVE Served(m)'
      <3>1. \A w \in Versions : stage'[<<m, w>>] = stage[<<m, w>>]
        BY <1>6, <2>5 DEF SeedModels, TypeOK, Rows, Seeds
      <3>2. m \notin loose /\ epStage'[m] = epStage[m] /\ epVersion'[m] = epVersion[m]
        BY <1>6, <2>5 DEF SeedModels, TypeOK, Seeds
      <3> QED
        BY <1>3, <3>1, <3>2
    <2> QED
      BY <2>4, <2>5 DEF Seeds
  <1>7. CASE SeedAliases
    BY <1>4, <1>7 DEF SeedAliases
  <1>8. CASE OpenDb(c)
    BY <1>5, <1>6, <1>7, <1>8 DEF OpenDb, InitTables, Raise, Quiet
  <1>9. CASE CreateModel(c)
    BY <1>4, <1>5, <1>9 DEF CreateModel, Raise, Quiet
  <1>10. CASE DeleteModel(c)
    <2>1. ASSUME NEW m \in Names \ loose' PROVE Served(m)'
      <3>1. m # call[c].name /\ m \notin loose
        BY <1>10, <2>1 DEF DeleteModel
      <3>2. \A w \in Versions : stage'[<<m, w>>] = stage[<<m, w>>]
        BY <1>10, <3>1 DEF DeleteModel, Rows
      <3>3. epStage'[m] = epStage[m] /\ epVersion'[m] = epVersion[m]
        BY <1>10, <3>1 DEF DeleteModel, TypeOK
      <3> QED
        BY <1>3, <3>1, <3>2, <3>3
    <2> QED
      BY <2>1
  <1>11. ASSUME NEW v \in Versions, call[c] \in Calls, call[c].op = "create_version",
                stage[<<call[c].name, v>>] = "", InsertVersion(call[c].name, v, call[c])
         PROVE  \A m \in Names \ loose' : Served(m)'
    <2>1. ASSUME NEW m \in Names \ loose' PROVE Served(m)'
      <3>1. m \notin loose /\ (m = call[c].name => call[c].stage # "Production")
        BY <1>11, <2>1 DEF InsertVersion
      <3>2. \A w \in Versions : stage'[<<m, w>>] = "Production" <=> stage[<<m, w>>] = "Production"
        BY <1>11, <3>1 DEF InsertVersion, TypeOK, Rows
      <3> QED
        BY <1>3, <1>11, <3>1, <3>2 DEF InsertVersion
    <2> QED
      BY <2>1
  <1>12. CASE CreateModelVersion(c)
    <2>1. CASE InsertVersion(call[c].name, saw[c] + 1, call[c]) /\ ~VersionRefused(call[c].name, saw[c] + 1)
      <3>1. saw[c] + 1 \in Versions /\ stage[<<call[c].name, saw[c] + 1>>] = ""
        BY <2>1 DEF InsertVersion, VersionRefused, VersionsOf
      <3> QED
        BY <1>2, <1>11, <1>12, <2>1, <3>1 DEF CreateModelVersion
    <2> QED
      BY <1>5, <1>12, <2>1 DEF CreateModelVersion, Raise, Quiet
  <1>13. CASE RegisterModelVersion(c)
    <2>1. CASE InsertVersion(call[c].name, Newest(call[c].name) + 1, call[c]) /\ call[c].name \notin models
      <3>1. /\ call[c] \in Calls /\ call[c].name \in Names /\ call[c].op = "create_version"
            /\ Newest(call[c].name) + 1 \in Versions
        BY <1>2, <1>13, <2>1 DEF RegisterModelVersion, InsertVersion, OpsInv, Fits
      <3>2. stage[<<call[c].name, Newest(call[c].name) + 1>>] = ""
        BY <2>1, <3>1, RowByRow
      <3> QED
        BY <1>11, <2>1, <3>1, <3>2
    <2> QED
      BY <1>5, <1>13, <2>1 DEF RegisterModelVersion, Raise, Quiet
  <1>14. CASE DeleteModelVersion(c)
    <2>1. ASSUME NEW m \in Names \ loose' PROVE Served(m)'
      <3>1. m \notin loose
        BY <1>14, <2>1 DEF DeleteModelVersion
      <3>2. \A w \in Versions : stage'[<<m, w>>] = "Production" <=> stage[<<m, w>>] = "Production"
        BY <1>14, <2>1 DEF DeleteModelVersion, TypeOK, Rows
      <3> QED
        BY <1>3, <1>14, <3>1, <3>2 DEF DeleteModelVersion
    <2> QED
      BY <2>1
  <1>15. CASE TransitionModelVersionStage(c)
    <2> DEFINE k == call[c]
               n == call[c].name
               v == call[c].version
               archives == k.archive /\ k.stage \in {"Production", "Staging"}
    <2>1. /\ n \in Names /\ v \in Versions /\ k.stage \in Stages /\ k.archive \in BOOLEAN
      BY <1>2, <1>15, CallTypes DEF TransitionModelVersionStage
    <2>2. \A m \in Names, w \in Versions :
             LET old == stage[<<m, w>>]
                 new == stage'[<<m, w>>]
             IN  /\ m # n \/ old = "" => new = old
                 /\ m = n /\ old # "" /\ w = v => new = k.stage
                 /\ m = n /\ old # "" /\ w # v /\ archives /\ old = k.stage => new = "Archived"
                 /\ m = n /\ old # "" /\ w # v /\ ~(archives /\ old = k.stage) => new = old
      BY <1>15 DEF TransitionModelVersionStage, Rows
    <2>3. /\ epStage' = epStage
          /\ epVersion' = IF EndpointMoves(k) THEN [epVersion EXCEPT ![n] = v] ELSE epVersion
      BY <1>15 DEF TransitionModelVersionStage
    <2>4. loose' = IF k.stage = "Production" /\ k.archive /\ stage[<<n, v>>] # "" THEN loose \ {n}
                   ELSE IF k.stage = "Production" \/ stage[<<n, v>>] = "Production" THEN loose \cup {n}
                   ELSE loose
      BY <1>15 DEF TransitionModelVersionStage
    <2> HIDE DEF k, n, v
    <2>5. ASSUME NEW m \in Names \ loose', m # n PROVE Served(m)'
      <3>1. m \notin loose
        BY <2>4, <2>5
      <3>2. \A w \in Versions : stage'[<<m, w>>] = stage[<<m, w>>]
        BY <2>2, <2>5
      <3>3. epVersion'[m] = epVersion[m] /\ epStage'[m] = epStage[m]
        BY <2>3, <2>5 DEF TypeOK
      <3> QED
        BY <1>3, <3>1, <3>2, <3>3
    <2>6. ASSUME NEW m \in Names \ loose', m = n, k.stage = "Production", k.archive, stage[<<n, v>>] # ""
          PROVE  Served(m)'
      <3>1. \A w \in Versions : stage'[<<m, w>>] = "Production" <=> w = v
        BY <2>1, <2>2, <2>6
      <3>2. epStage'[m] = "Production" => epVersion'[m] = v
        BY <2>1, <2>3, <2>6 DEF EndpointMoves, TypeOK, k, n
      <3> QED
        BY <2>1, <3>1, <3>2 DEF Served
    <2>7. ASSUME NEW m \in Names \ loose', m = n,
                 ~(k.stage = "Production" /\ k.archive /\ stage[<<n, v>>] # "")
          PROVE  Served(m)'
      <3>1. m \notin loose /\ k.stage # "Production" /\ stage[<<n, v>>] # "Production"
        BY <2>4, <2>7
      <3>2. \A w \in Versions : stage'[<<m, w>>] = "Production" <=> stage[<<m, w>>] = "Production"
        BY <2>1, <2>2, <2>7, <3>1
      <3>3. epVersion' = epVersion
        BY <2>3, <3>1 DEF EndpointMoves
      <3> QED
        BY <1>3, <2>1, <2>3, <2>7, <3>1, <3>2, <3>3
    <2> QED
      BY <2>5, <2>6, <2>7
  <1>16. CASE SetModelAlias(c)
    BY <1>4, <1>5, <1>16 DEF SetModelAlias, Raise, Quiet
  <1>17. CASE DeleteModelAlias(c)
    BY <1>4, <1>17 DEF DeleteModelAlias
  <1>18. CASE CreateOrUpdateServingEndpoint(c)
    <2>1. CASE Quiet(c)
      BY <1>5, <2>1
    <2>2. CASE /\ epStage' = [epStage EXCEPT ![call[c].name] = call[c].stage]
               /\ epVersion' = [epVersion EXCEPT ![call[c].name] = call[c].version]
               /\ loose' = loose \cup {call[c].name} /\ UNCHANGED stage
      <3>1. ASSUME NEW m \in Names \ loose' PROVE Served(m)'
        <4>1. m # call[c].name /\ m \notin loose
          BY <2>2, <3>1
        <4>2. epStage'[m] = epStage[m] /\ epVersion'[m] = epVersion[m]
          BY <2>2, <4>1 DEF TypeOK
        <4> QED
          BY <1>3, <2>2, <4>1, <4>2
      <3> QED
        BY <3>1
    <2> QED
      BY <1>18, <2>1, <2>2 DEF CreateOrUpdateServingEndpoint, Raise, Quiet, tables
  <1>19. CASE CountRequest(c)
    BY <1>4, <1>19 DEF CountRequest
  <1> QED
    BY <1>5, <1>8, <1>9, <1>10, <1>12, <1>13, <1>14, <1>15, <1>16, <1>17, <1>18, <1>19, QuietSteps
    DEF Step

-----------------------------------------------------------------------------
(* Registry: what a score has seen. *)

\* In moments[c], besides what ScoresAreCurrent says of the end: once the aliases are read, they were so at
\* a moment of the call, and once a version is chosen, it is explained.
SeenInv ==
    \A c \in Clients :
        /\ pc[c] = "versions" /\ call[c].op = "score" =>
              \E d \in moments[c] : \A a \in Aliases : d[a] = sawAlias[c][a]
        /\ pc[c] \in {"reopen", "row", "count"} => Explained(call[c], saw[c], moments[c])

\* Seeing more explains no less.
LEMMA ExplainedGrows ==
    ASSUME NEW k, NEW v, NEW past, NEW more, past \subseteq more, Explained(k, v, past)
    PROVE  Explained(k, v, more)
  BY DEF Explained

\* The history of a score only grows, and has the tables as the step leaves them.
LEMMA MomentsGrow ==
    ASSUME Observe, OpsInv, NEW c \in Clients, pc'[c] # "idle", call'[c].op = "score"
    PROVE  moments[c] \subseteq moments'[c] /\ Designation'[call'[c].name] \in moments'[c]
  BY DEF Observe

\* A client that does not move keeps what it has seen.
LEMMA OthersKeepSeeing ==
    ASSUME Observe, OpsInv, SeenInv, NEW c \in Clients,
           pc'[c] = pc[c], call'[c] = call[c], saw'[c] = saw[c], sawAlias'[c] = sawAlias[c]
    PROVE  /\ pc'[c] = "versions" /\ call'[c].op = "score" =>
                 \E d \in moments'[c] : \A a \in Aliases : d[a] = sawAlias'[c][a]
           /\ pc'[c] \in {"reopen", "row", "count"} => Explained(call'[c], saw'[c], moments'[c])
  <1>1. pc[c] \in {"reopen", "row", "count"} => call[c].op = "score"
    BY DEF OpsInv, Fits, Scoring
  <1>2. pc[c] # "idle" /\ call[c].op = "score" => moments[c] \subseteq moments'[c]
    BY MomentsGrow
  <1> QED
    BY <1>1, <1>2, ExplainedGrows DEF SeenInv

\* A score chooses a version that one of the moments designates: the tables at this step, or the aliases it
\* read before.
LEMMA SelectExplained ==
    ASSUME TypeOK, OpsInv, SeenInv, Observe, NEW c \in Clients, SelectVersion(c), pc'[c] # "idle"
    PROVE  Explained(call'[c], saw'[c], moments'[c])
  <1> DEFINE k == call[c]
             now == Designation[k.name]
             champion == sawAlias[c]["champion"]
             production == Max0(InStage(k.name, "Production"))
  <1>1. pc[c] = "versions" /\ call[c].op = "score" /\ UNCHANGED tables
    BY DEF SelectVersion
  <1>2. k.name \in Names /\ k.version \in Numbers /\ k.alias \in Aliases \cup {"", "Production"}
    <2>1. call[c] \in ScoreCalls
      BY <1>1, CallTypes DEF OpsInv, Fits
    <2> QED
      BY <2>1 DEF ScoreCalls
  <1>3. now.production = production /\ now.newest = Newest(k.name)
    BY <1>2 DEF Designation
  <1>4. PICK d \in moments[c] : \A a \in Aliases : d[a] = sawAlias[c][a]
    BY <1>1, Zenon DEF SeenInv
  \* Whatever is chosen, the call goes on with it.
  <1>5. ASSUME NEW v, LookUp(c, v) \/ FromList(c, v)
        PROVE  call' = call /\ saw'[c] = v /\ (FromList(c, v) => v # 0)
    <2>1. ~Return(c)
      BY DEF Return, Goto, TypeOK
    <2> QED
      BY <1>5, <2>1 DEF LookUp, FromList, Continue, TypeOK
  <1>6. (call' = call) => /\ d \in moments'[c] /\ now \in moments'[c]
    <2>1. Designation' = Designation
      BY <1>1 DEF tables, Designation, Newest, VersionsOf, InStage
    <2>2. call' = call => moments[c] \subseteq moments'[c] /\ Designation'[call'[c].name] \in moments'[c]
      BY <1>1, MomentsGrow
    <2> QED
      BY <2>1, <2>2
  <1>7. CASE k.alias \in Aliases /\ sawAlias[c][k.alias] > 0
    <2>1. LookUp(c, sawAlias[c][k.alias])
      BY <1>7 DEF SelectVersion
    <2>2. call' = call /\ saw'[c] = sawAlias[c][k.alias] /\ d[k.alias] = sawAlias[c][k.alias]
      BY <1>4, <1>5, <1>7, <2>1
    <2> QED
      BY <1>6, <1>7, <2>2 DEF Explained
  <1>8. CASE k.alias # "" /\ ~(k.alias \in Aliases /\ sawAlias[c][k.alias] > 0)
    <2>1. FromList(c, Max0(InStage(k.name, k.alias)))
      BY <1>8 DEF SelectVersion
    <2>2. k.alias \notin Aliases
      <3>1. SUFFICES ASSUME k.alias \in Aliases PROVE FALSE
        OBVIOUS
      <3>2. InStage(k.name, k.alias) = {}
        BY <1>2, <3>1 DEF InStage, TypeOK, Rows, Stages, Aliases
      <3>3. Max0(InStage(k.name, k.alias)) = 0
        BY <3>2 DEF Max0
      <3> QED
        BY <1>5, <2>1, <3>3
    <2>3. k.alias = "Production" /\ saw'[c] = now.production /\ call' = call
      BY <1>2, <1>3, <1>5, <1>8, <2>1, <2>2
    <2> QED
      BY <1>6, <2>2, <2>3 DEF Explained
  <1>9. CASE k.alias = "" /\ k.version > 0
    <2>1. "" \notin Aliases
      BY DEF Aliases
    <2>2. LookUp(c, k.version)
      BY <1>9, <2>1 DEF SelectVersion
    <2>3. call' = call /\ saw'[c] = k.version
      BY <1>5, <2>2
    <2> QED
      BY <1>9, <2>1, <2>3 DEF Explained
  <1>10. CASE k.alias = "" /\ ~(k.version > 0)
    <2>1. "" \notin Aliases /\ "champion" \in Aliases
      BY DEF Aliases
    <2>2. ByDefault(c, champion, production, Newest(k.name))
      BY <1>10, <2>1 DEF SelectVersion
    <2>3. champion \in Nat /\ production \in Nat /\ d.champion = champion
      <3>1. champion \in Numbers
        BY <2>1 DEF TypeOK
      <3>2. production \in Numbers
        BY <1>2, DesignationType
      <3>3. d["champion"] = champion
        BY <1>4, <2>1
      <3>4. Numbers \subseteq Nat
        BY BoundType DEF Numbers
      <3> QED
        BY <3>1, <3>2, <3>3, <3>4
    <2>4. call' = call /\ \/ saw'[c] = d.champion
                          \/ d.champion = 0 /\ now.production = saw'[c]
                          \/ d.champion = 0 /\ now.production = 0 /\ now.newest = saw'[c]
      BY <1>3, <1>5, <2>2, <2>3 DEF ByDefault
    <2> QED
      BY <1>6, <1>10, <2>1, <2>4 DEF Explained
  <1> QED
    BY <1>7, <1>8, <1>9, <1>10

\* Where a step leaves its client, unless it is idle: the calls that write go on to their answer.
Locals(q) == <<pc[q], call[q], saw[q], sawAlias[q]>>

LEMMA OneClientMoves ==
    ASSUME TypeOK, NEW c \in Clients, Step(c), NEW q \in Clients, q # c
    PROVE  Locals(q)' = Locals(q)
  <1>1. Return(c) => Locals(q)' = Locals(q)
    BY DEF Return, Goto, TypeOK, Locals
  <1>2. ASSUME NEW step, Continue(c, step), UNCHANGED saw \/ \E v : saw' = [saw EXCEPT ![c] = v]
        PROVE  Locals(q)' = Locals(q)
    BY <1>2 DEF Continue, Goto, TypeOK, Locals
  <1>3. Written(c) => Locals(q)' = Locals(q)
    BY <1>1, <1>2 DEF Written
  <1>4. ASSUME NEW v, LookUp(c, v) \/ FromList(c, v) PROVE Locals(q)' = Locals(q)
    BY <1>1, <1>2, <1>4 DEF LookUp, FromList
  <1>5. Begin(c) => Locals(q)' = Locals(q)
    BY DEF Begin, TypeOK, Locals
  <1>6. OpenDb(c) => Locals(q)' = Locals(q)
    BY <1>1, <1>2 DEF OpenDb, Raise
  <1>7. Check(c) => Locals(q)' = Locals(q)
    BY <1>1, <1>2, Zenon DEF Check
  <1>8. CreateModel(c) \/ DeleteModel(c) => Locals(q)' = Locals(q)
    BY <1>1, <1>3 DEF CreateModel, DeleteModel, Raise
  <1>9. ReadMaxVersion(c) \/ GetModelVersion(c) => Locals(q)' = Locals(q)
    BY <1>1, <1>2 DEF ReadMaxVersion, GetModelVersion
  <1>10. CreateModelVersion(c) \/ RegisterModelVersion(c) \/ DeleteModelVersion(c)
           => Locals(q)' = Locals(q)
    BY <1>1, <1>3 DEF CreateModelVersion, RegisterModelVersion, DeleteModelVersion, Raise
  <1>11. TransitionModelVersionStage(c) => Locals(q)' = Locals(q)
    BY <1>3 DEF TransitionModelVersionStage
  <1>12. SetModelAlias(c) \/ DeleteModelAlias(c) \/ CreateOrUpdateServingEndpoint(c)
           => Locals(q)' = Locals(q)
    BY <1>1, <1>3 DEF SetModelAlias, DeleteModelAlias, CreateOrUpdateServingEndpoint, Raise
  <1>13. ReadAliases(c) => Locals(q)' = Locals(q)
    BY <1>1 DEF ReadAliases, Goto, TypeOK, Locals
  <1>14. SelectVersion(c) => Locals(q)' = Locals(q)
    BY <1>4 DEF SelectVersion, ByDefault
  <1>15. CountRequest(c) => Locals(q)' = Locals(q)
    BY <1>1 DEF CountRequest
  <1> QED
    BY <1>5, <1>6, <1>7, <1>8, <1>9, <1>10, <1>11, <1>12, <1>13, <1>14, <1>15 DEF Step

\* How a client comes to the points SeenInv speaks of.
LEMMA WaysThere ==
    ASSUME TypeOK, OpsInv, NEW c \in Clients, Step(c),
           pc'[c] \in {"versions", "reopen", "row", "count"},
           pc'[c] = "versions" => call'[c].op = "score"
    PROVE  \/ ReadAliases(c) /\ pc'[c] = "versions"
           \/ SelectVersion(c)
           \/ /\ pc[c] \in {"reopen", "row"} /\ call'[c] = call[c] /\ saw'[c] = saw[c]
              /\ pc'[c] \in {"row", "count"}
  <1>1. ~Return(c)
    BY DEF Return, Goto, TypeOK
  <1>2. \A step : Continue(c, step) => pc'[c] = step /\ call'[c] = call[c]
    BY DEF Continue, Goto, TypeOK
  <1>3. ~Written(c)
    BY <1>1, <1>2 DEF Written
  <1>4. ~Begin(c)
    BY DEF Begin, TypeOK
  <1>5. OpenDb(c) => pc[c] = "reopen" /\ pc'[c] = "row" /\ call'[c] = call[c] /\ saw'[c] = saw[c]
    <2>1. OpenDb(c) => Continue(c, AfterOpen(c)) /\ UNCHANGED saw
      BY <1>1 DEF OpenDb, Raise
    <2>2. pc[c] # "reopen" => AfterOpen(c) \in {"check", "resolve", "write"}
      BY DEF AfterOpen
    <2> QED
      BY <1>2, <2>1, <2>2 DEF AfterOpen
  <1>6. ~Check(c)
    <2> SUFFICES ASSUME Check(c) PROVE FALSE
      OBVIOUS
    <2>1. \E step \in {"write", "versions", "register"} :
             Continue(c, step) /\ (step = "versions" => call[c].op = "create_version")
      BY <1>1, Zenon DEF Check
    <2> QED
      BY <1>2, <2>1
  <1>7. ~(CreateModel(c) \/ DeleteModel(c) \/ CreateModelVersion(c) \/ RegisterModelVersion(c)
          \/ DeleteModelVersion(c))
    BY <1>1, <1>3 DEF CreateModel, DeleteModel, CreateModelVersion, RegisterModelVersion,
                      DeleteModelVersion, Raise
  <1>8. ~(SetModelAlias(c) \/ DeleteModelAlias(c) \/ CreateOrUpdateServingEndpoint(c))
    BY <1>1, <1>3 DEF SetModelAlias, DeleteModelAlias, CreateOrUpdateServingEndpoint, Raise
  <1>9. ~(TransitionModelVersionStage(c) \/ CountRequest(c) \/ ReadMaxVersion(c))
    <2>1. ~Continue(c, "write")
      BY <1>2
    <2> QED
      BY <1>1, <1>3, <2>1 DEF TransitionModelVersionStage, CountRequest, ReadMaxVersion
  <1>10. GetModelVersion(c) => pc[c] = "row" /\ pc'[c] = "count" /\ call'[c] = call[c] /\ saw'[c] = saw[c]
    BY <1>1, <1>2 DEF GetModelVersion
  <1>11. ReadAliases(c) => pc'[c] = "versions"
    BY <1>1 DEF ReadAliases, Goto, TypeOK
  <1> QED
    BY <1>4, <1>5, <1>6, <1>7, <1>8, <1>9, <1>10, <1>11 DEF Step

LEMMA SeenStep ==
    ASSUME TypeOK, OpsInv, OpsInv', SeenInv, [Next]_vars
    PROVE  SeenInv'
  <1>1. CASE UNCHANGED vars
    BY <1>1 DEF vars, locals, SeenInv
  <1>2. CASE Next
    <2>1. PICK c \in Clients : Step(c) /\ Observe
      BY <1>2 DEF Next
    <2> DEFINE Seen(q) ==
          /\ pc'[q] = "versions" /\ call'[q].op = "score" =>
                \E d \in moments'[q] : \A a \in Aliases : d[a] = sawAlias'[q][a]
          /\ pc'[q] \in {"reopen", "row", "count"} => Explained(call'[q], saw'[q], moments'[q])
    <2>2. ASSUME NEW q \in Clients, q # c PROVE Seen(q)
      BY <2>1, <2>2, OneClientMoves, OthersKeepSeeing DEF Locals
    <2>3. Seen(c)
      <3>1. CASE pc'[c] = "versions" /\ call'[c].op = "score"
        <4>1. ReadAliases(c) \/ SelectVersion(c)
          BY <2>1, <3>1, WaysThere
        <4>2. ~SelectVersion(c)
          <5>1. ~Return(c) /\ \A step : Continue(c, step) => pc'[c] = step
            BY <3>1 DEF Return, Continue, Goto, TypeOK
          <5> QED
            BY <3>1, <5>1 DEF SelectVersion, ByDefault, LookUp, FromList
        <4>3. /\ call' = call /\ UNCHANGED tables /\ call[c].name \in Names
              /\ sawAlias'[c] = [a \in Aliases |-> alias[<<call[c].name, a>>]]
          <5>1. ~Return(c)
            BY <3>1 DEF Return, Goto, TypeOK
          <5>2. pc[c] = "resolve" /\ call[c] \in Calls
            BY <4>1, <4>2 DEF ReadAliases, OpsInv, Fits
          <5> QED
            BY <4>1, <4>2, <5>1, <5>2, CallTypes DEF ReadAliases, TypeOK
        <4> DEFINE now == Designation'[call'[c].name]
        <4>4. now \in moments'[c]
          BY <2>1, <3>1, MomentsGrow
        <4>5. \A a \in Aliases : now[a] = sawAlias'[c][a]
          <5>1. now["champion"] = alias[<<call[c].name, "champion">>]
                /\ now["challenger"] = alias[<<call[c].name, "challenger">>]
            BY <4>3 DEF Designation, tables
          <5> QED
            BY <4>3, <5>1 DEF Aliases
        <4> QED
          BY <3>1, <4>4, <4>5
      <3>2. CASE pc'[c] \in {"reopen", "row", "count"}
        <4>1. SelectVersion(c) \/ /\ pc[c] \in {"reopen", "row"} /\ call'[c] = call[c]
                                  /\ saw'[c] = saw[c]
          BY <2>1, <3>2, WaysThere
        <4>2. CASE SelectVersion(c)
          BY <2>1, <3>2, <4>2, SelectExplained
        <4>3. CASE pc[c] \in {"reopen", "row"} /\ call'[c] = call[c] /\ saw'[c] = saw[c]
          <5>1. Explained(call[c], saw[c], moments[c]) /\ call[c].op = "score"
            BY <4>3 DEF SeenInv, OpsInv, Fits, Scoring
          <5>2. moments[c] \subseteq moments'[c]
            BY <2>1, <3>2, <4>3, <5>1, MomentsGrow
          <5> QED
            BY <3>2, <4>3, <5>1, <5>2, ExplainedGrows
        <4> QED
          BY <4>1, <4>2, <4>3
      <3> QED
        BY <3>1, <3>2
    <2> QED
      BY <2>2, <2>3 DEF SeenInv
  <1> QED
    BY <1>1, <1>2

-----------------------------------------------------------------------------
(* Registry: the run of a version. *)

LEMMA RowPair == ASSUME NEW p \in Rows PROVE p = <<p[1], p[2]>> /\ p[1] \in Names /\ p[2] \in Versions
  BY DEF Rows

LEMMA RunStep ==
    ASSUME TypeOK, OpsInv, RowsHaveModel, NEW c \in Clients, Step(c),
           NEW p \in Rows, stage[p] # "", stage'[p] # ""
    PROVE  run'[p] = run[p]
  <1> SUFFICES ASSUME run' # run PROVE run'[p] = run[p]
    OBVIOUS
  <1>1. p = <<p[1], p[2]>> /\ p[1] \in Names /\ p[2] \in Versions
    BY RowPair
  <1>2. p[1] \in models
    <2>1. ASSUME p[1] \in Names \ models PROVE stage[<<p[1], p[2]>>] = ""
      BY <1>1, <2>1, RowByRow
    <2> QED
      BY <1>1, <2>1
  <1>3. run \in [Rows -> Runs \cup {"seed", ""}]
    BY DEF TypeOK
  \* A version is inserted where there is none.
  <1>4. ASSUME NEW m, NEW v, stage[<<m, v>>] = "", InsertVersion(m, v, call[c]) PROVE run'[p] = run[p]
    <2>1. run' = [run EXCEPT ![<<m, v>>] = call[c].run] /\ p # <<m, v>>
      BY <1>4 DEF InsertVersion
    <2> QED
      BY <1>3, <2>1
  <1>5. OpenDb(c) => models = {} \/ UNCHANGED run
    BY DEF OpenDb, InitTables, SeedAliases, Raise, tables
  <1>6. CASE CreateModelVersion(c)
    <2> DEFINE m == call[c].name
               v == saw[c] + 1
    <2>1. ~VersionRefused(m, v) /\ InsertVersion(m, v, call[c])
      BY <1>6 DEF CreateModelVersion, Raise, tables
    <2>2. stage[<<m, v>>] = ""
      BY <2>1 DEF VersionRefused, VersionsOf, InsertVersion
    <2> QED
      BY <1>4, <2>1, <2>2
  <1>7. CASE RegisterModelVersion(c)
    <2> DEFINE m == call[c].name
               v == Newest(m) + 1
    <2>1. m \notin models /\ InsertVersion(m, v, call[c]) /\ call[c] \in Calls
      BY <1>7 DEF RegisterModelVersion, Raise, tables, OpsInv, Fits
    <2>2. m \in Names /\ v \in Versions
      BY <2>1, CallTypes DEF InsertVersion
    <2>3. stage[<<m, v>>] = ""
      BY <2>1, <2>2, RowByRow
    <2> QED
      BY <1>4, <2>1, <2>3
  <1>8. CASE DeleteModel(c)
    BY <1>8 DEF DeleteModel
  <1>9. CASE DeleteModelVersion(c)
    BY <1>3, <1>9 DEF DeleteModelVersion, TypeOK
  <1>10. ~Begin(c) /\ ~Check(c) /\ ~CreateModel(c) /\ ~ReadMaxVersion(c) /\ ~TransitionModelVersionStage(c)
         /\ ~SetModelAlias(c) /\ ~DeleteModelAlias(c) /\ ~CreateOrUpdateServingEndpoint(c)
         /\ ~ReadAliases(c) /\ ~SelectVersion(c) /\ ~GetModelVersion(c) /\ ~CountRequest(c)
    BY DEF Begin, Check, CreateModel, ReadMaxVersion, TransitionModelVersionStage, SetModelAlias,
           DeleteModelAlias, CreateOrUpdateServingEndpoint, ReadAliases, SelectVersion, GetModelVersion,
           CountRequest, Raise, tables
  <1> QED
    BY <1>2, <1>5, <1>6, <1>7, <1>8, <1>9, <1>10 DEF Step

-----------------------------------------------------------------------------
(* Registry: the invariant, and what follows from it. *)

RegistryInv == TypeOK /\ OpsInv /\ RowsHaveModel /\ ProductionIsServed /\ SeenInv

LEMMA RegistryInvHolds == Spec => []RegistryInv
  <1>1. Init => RegistryInv
    <2> SUFFICES ASSUME Init PROVE RegistryInv
      OBVIOUS
    <2>1. RowsHaveModel
      BY RowByRow DEF Init, Rows, Tags
    <2>2. ProductionIsServed /\ SeenInv
      BY DEF Init, ProductionIsServed, SeenInv
    <2> QED
      BY <2>1, <2>2, InitType DEF RegistryInv
  <1>2. RegistryInv /\ [Next]_vars => RegistryInv'
    <2> SUFFICES ASSUME RegistryInv, [Next]_vars PROVE RegistryInv'
      OBVIOUS
    <2>1. TypeOK' /\ OpsInv'
      BY TypeStep DEF RegistryInv
    <2>2. SeenInv'
      BY <2>1, SeenStep DEF RegistryInv
    <2>3. RowsHaveModel' /\ ProductionIsServed'
      <3>1. CASE UNCHANGED vars
        <4>1. UNCHANGED <<models, stage, alias, epStage, epVersion, loose>>
          BY <3>1 DEF vars, tables
        <4>2. RowsHaveModel'
          BY <4>1 DEF RegistryInv, RowsHaveModel, VersionsOf
        <4>3. ProductionIsServed'
          BY <4>1 DEF RegistryInv, ProductionIsServed, InStage
        <4> QED
          BY <4>2, <4>3
      <3>2. CASE Next
        <4>1. PICK c \in Clients : Step(c)
          BY <3>2 DEF Next
        <4> QED
          BY <4>1, RowsStep, ProductionStep DEF RegistryInv
      <3> QED
        BY <3>1, <3>2
    <2> QED
      BY <2>1, <2>2, <2>3 DEF RegistryInv
  <1> QED
    BY <1>1, <1>2, PTL DEF Spec

\* The tables of the registry and the calls under way keep their types.
THEOREM RegistryTypeCorrect == Spec => []TypeOK
  <1>1. RegistryInv => TypeOK
    BY DEF RegistryInv
  <1> QED
    BY <1>1, RegistryInvHolds, PTL

\* For any number of processes that call the registry, no row outlives its model, a promoted version is the
\* one in Production and the one served, and a score uses what was designated in the course of its call.
THEOREM RegistryIsKept == Spec => []RegistryKept
  <1>1. RegistryInv => RegistryKept
    BY DEF RegistryInv, RegistryKept, SeenInv, ScoresAreCurrent
  <1> QED
    BY <1>1, RegistryInvHolds, PTL

\* Among any number of processes that register, delete and register again, a version that is there keeps
\* the run it was registered from.
THEOREM VersionsAreNotOverwritten == Spec => VersionsKeepTheirRun
  <1>1. RegistryInv /\ [Next]_vars => [\A p \in Rows : stage[p] # "" /\ stage'[p] # "" => run'[p] = run[p]]_vars
    <2> SUFFICES ASSUME RegistryInv, Next, NEW p \in Rows, stage[p] # "", stage'[p] # ""
                 PROVE  run'[p] = run[p]
      OBVIOUS
    <2>1. PICK c \in Clients : Step(c)
      BY DEF Next
    <2> QED
      BY <2>1, RunStep DEF RegistryInv
  <1> QED
    BY <1>1, RegistryInvHolds, PTL DEF Spec, VersionsKeepTheirRun
-----------------------------------------------------------------------------
(* Runs and blocks.                                                        *)
(*                                                                         *)
(* A run that is RUNNING is handed from the call that makes it to the      *)
(* stack and from there to the call that ends it.  The blocks of a thread  *)
(* nobody interferes with stand on the top of its process's stack, one     *)
(* position each but for the fits that found a run active (Placed); and of *)
(* all a process's threads at most one is in a fit or about to enter one   *)
(* (FitInv).                                                               *)

BlockRecords == [run : Handles, kind : Kinds]

Creating == {"check", "insert", "read", "recheck", "reinsert", "reread"}

\* Where a thread is in its call.
CallInOrder(t) ==
    /\ phase[t] \in {"idle", "byname", "create", "assign"} => op[t] = ""
    /\ phase[t] \in Creating \cup {"push"} => op[t] \in {"with", "bare", "fit", "log"}
    /\ phase[t] \in {"read", "reread"} => callRun[t] \in RunIds
    /\ phase[t] \in {"top", "write"} => op[t] = "log"
    /\ phase[t] = "update" => op[t] \in {"exit", "end"}
    /\ op[t] = "exit" => blocks[t] # <<>>
    /\ op[t] \in {"with", "fit"} => Len(blocks[t]) < MaxNest
    /\ Len(blocks[t]) <= MaxNest
TrackedOps == \A t \in Threads : CallInOrder(t)

\* The fits of a process: that a thread has entered, and (0) that it is about to.
FitMark(t, i) == \/ i = 0 /\ op[t] = "fit"
                 \/ i \in DOMAIN blocks[t] /\ blocks[t][i].kind # "with"
FitMarks(p) == {m \in Threads \X Nat : proc[m[1]] = p /\ FitMark(m[1], m[2])}
FitInv ==
    \A p \in Processes : \/ depth[p] = 0 /\ FitMarks(p) = {}
                         \/ depth[p] = 1 /\ \E m \in Threads \X Nat : FitMarks(p) = {m}

RunningInv == \A r \in RunIds : status[r] = "RUNNING" => r \in RunRows /\ r \in OnStack \cup AtStart \cup lost

\* Blocks b on a stack s, the innermost at the given position.
Placed(b, s, top) ==
    \E f \in [1 .. Len(b) -> Nat] :
        /\ f[Len(b)] = top
        /\ \A i \in 1 .. Len(b) : 1 <= f[i] /\ (f[i] <= Len(s) => s[f[i]] = b[i].run)
        /\ \A i, j \in 1 .. Len(b) : i <= j => f[i] <= f[j]
        /\ \A i \in 1 .. Len(b) - 1 : f[i + 1] = f[i] + (IF b[i + 1].kind = "borrowed" THEN 0 ELSE 1)

OnTop(t) ==
    t \notin mixed /\ blocks[t] # <<>> =>
        /\ Placed(blocks[t], Stack(t), IF phase[t] = "update" THEN Len(Stack(t)) + 1 ELSE Len(Stack(t)))
        /\ phase[t] = "update" => op[t] = "exit" /\ Last(blocks[t]).kind # "borrowed"
        /\ phase[t] \in {"write", "update"} => callRun[t] = InnermostRun(t)
        /\ op[t] = "log" => phase[t] = "write"
BlocksInv == \A t \in Threads : OnTop(t)

\* The steps of the two ways to create a run.
LEMMA WayPhases ==
    ASSUME NEW way \in {InProcess, ByHttp}
    PROVE  /\ way.check \in {"check", "recheck"} /\ way.insert \in {"insert", "reinsert"} /\ way.read \in {"read", "reread"}
           /\ ByHttp.check = "recheck"
           /\ {way.check, way.insert, way.read} \subseteq Creating /\ Creating \subseteq Phases
  BY DEF InProcess, ByHttp, Creating, Phases

LEMMA FrontLast ==
    ASSUME NEW S, NEW s \in Seq(S), s # <<>>
    PROVE  /\ Front(s) \in Seq(S) /\ Len(Front(s)) = Len(s) - 1 /\ Len(s) \in Nat /\ Len(s) >= 1
           /\ \A i \in 1 .. Len(s) - 1 : Front(s)[i] = s[i]
           /\ Last(s) = s[Len(s)] /\ Last(s) \in S /\ DOMAIN s = 1 .. Len(s)
  <1>1. Len(s) \in Nat /\ Len(s) >= 1 /\ DOMAIN s = 1 .. Len(s)
    OBVIOUS
  <1>2. Front(s) \in Seq(S) /\ Len(Front(s)) = Len(s) - 1 /\ \A i \in 1 .. Len(s) - 1 : Front(s)[i] = s[i]
    BY <1>1 DEF Front
  <1>3. Last(s) = s[Len(s)] /\ Last(s) \in S
    BY <1>1 DEF Last
  <1> QED
    BY <1>1, <1>2, <1>3

LEMMA AppendLast ==
    ASSUME NEW S, NEW s \in Seq(S), NEW x \in S
    PROVE  /\ Append(s, x) \in Seq(S) /\ Len(Append(s, x)) = Len(s) + 1 /\ Len(s) \in Nat /\ Append(s, x) # <<>>
           /\ \A i \in 1 .. Len(s) : Append(s, x)[i] = s[i]
           /\ Append(s, x)[Len(s) + 1] = x /\ Last(Append(s, x)) = x
           /\ DOMAIN Append(s, x) = 1 .. Len(s) + 1 /\ DOMAIN s = 1 .. Len(s)
  BY DEF Last

\* What a stack holds after a push and after a pop.
LEMMA PushPop ==
    ASSUME NEW S, NEW s \in Seq(S)
    PROVE  /\ \A x \in S : ToSet(s) \cup {x} \subseteq ToSet(Append(s, x))
           /\ s # <<>> => ToSet(s) \subseteq ToSet(Front(s)) \cup {Last(s)}
  <1>1. ASSUME NEW x \in S PROVE ToSet(s) \cup {x} \subseteq ToSet(Append(s, x))
    BY AppendLast DEF ToSet
  <1>2. ASSUME s # <<>> PROVE ToSet(s) \subseteq ToSet(Front(s)) \cup {Last(s)}
    <2>1. /\ DOMAIN s = 1 .. Len(s) /\ DOMAIN Front(s) = 1 .. Len(s) - 1 /\ Len(s) \in Nat
          /\ Last(s) = s[Len(s)] /\ \A i \in 1 .. Len(s) - 1 : Front(s)[i] = s[i]
      BY <1>2, FrontLast
    <2>2. Len(s) \in Nat => \A i \in 1 .. Len(s) : i = Len(s) \/ i \in 1 .. Len(s) - 1
      OBVIOUS
    <2> QED
      BY <2>1, <2>2 DEF ToSet
  <1> QED
    BY <1>1, <1>2

-----------------------------------------------------------------------------
(* Blocks on a stack. *)

LEMMA PlacedTop ==
    ASSUME NEW b \in Seq(BlockRecords), NEW s \in Seq(Handles), b # <<>>, Placed(b, s, Len(s))
    PROVE  s # <<>> /\ Last(s) = Last(b).run
  <1> PICK f \in [1 .. Len(b) -> Nat] : f[Len(b)] = Len(s) /\ \A i \in 1 .. Len(b) : 1 <= f[i] /\ (f[i] <= Len(s) => s[f[i]] = b[i].run)
    BY DEF Placed
  <1>1. Len(b) \in Nat /\ Len(b) >= 1 /\ Last(b) = b[Len(b)]
    BY FrontLast
  <1>2. 1 <= Len(s) /\ s[Len(s)] = b[Len(b)].run
    <2>1. Len(b) \in 1 .. Len(b) /\ Len(s) \in Nat
      BY <1>1
    <2> QED
      BY <2>1
  <1>3. s # <<>>
    BY <1>2
  <1> QED
    BY <1>1, <1>2, <1>3, FrontLast

LEMMA PlacedFirst ==
    ASSUME NEW x \in BlockRecords, NEW s \in Seq(Handles), s # <<>>, Last(s) = x.run
    PROVE  Placed(<<x>>, s, Len(s))
  <1> DEFINE f == [i \in 1 .. 1 |-> Len(s)]
  <1>1. Len(s) \in Nat /\ Len(s) >= 1 /\ s[Len(s)] = x.run
    BY FrontLast
  <1>2. f \in [1 .. Len(<<x>>) -> Nat] /\ Len(<<x>>) = 1 /\ <<x>>[1] = x /\ f[1] = Len(s)
    BY <1>1
  <1> HIDE DEF f
  <1>3. \A i \in 1 .. 1 : i = 1
    OBVIOUS
  <1> QED
    BY <1>1, <1>2, <1>3 DEF Placed

LEMMA PlacedPush ==
    ASSUME NEW b \in Seq(BlockRecords), NEW s \in Seq(Handles), NEW x \in BlockRecords,
           b # <<>>, Placed(b, s, Len(s)), x.kind # "borrowed"
    PROVE  Placed(Append(b, x), Append(s, x.run), Len(s) + 1)
  <1> PICK f \in [1 .. Len(b) -> Nat] :
        /\ f[Len(b)] = Len(s)
        /\ \A i \in 1 .. Len(b) : 1 <= f[i] /\ (f[i] <= Len(s) => s[f[i]] = b[i].run)
        /\ \A i, j \in 1 .. Len(b) : i <= j => f[i] <= f[j]
        /\ \A i \in 1 .. Len(b) - 1 : f[i + 1] = f[i] + (IF b[i + 1].kind = "borrowed" THEN 0 ELSE 1)
    BY DEF Placed
  <1> DEFINE c == Append(b, x)
             t == Append(s, x.run)
             g == [i \in 1 .. Len(b) + 1 |-> IF i = Len(b) + 1 THEN Len(s) + 1 ELSE f[i]]
  <1>1. x.run \in Handles /\ Len(b) >= 1
    BY FrontLast DEF BlockRecords
  <1>2. /\ Len(c) = Len(b) + 1 /\ Len(b) \in Nat /\ c[Len(b) + 1] = x /\ \A i \in 1 .. Len(b) : c[i] = b[i]
    BY AppendLast
  <1>3. /\ Len(t) = Len(s) + 1 /\ Len(s) \in Nat /\ t[Len(s) + 1] = x.run /\ \A i \in 1 .. Len(s) : t[i] = s[i]
    BY <1>1, AppendLast
  <1>4. /\ g \in [1 .. Len(b) + 1 -> Nat] /\ g[Len(b) + 1] = Len(s) + 1 /\ \A i \in 1 .. Len(b) : g[i] = f[i]
    BY <1>2, <1>3
  <1> HIDE DEF c, t, g
  <1>5. \A i \in 1 .. Len(b) : f[i] \in 1 .. Len(s) /\ s[f[i]] = b[i].run
    BY <1>1, <1>2, <1>3
  <1>6. \A i \in 1 .. Len(b) + 1 : i = Len(b) + 1 \/ i \in 1 .. Len(b)
    BY <1>2
  <1>7. \A i \in 1 .. Len(b) + 1 : 1 <= g[i] /\ t[g[i]] = c[i].run
    <2> SUFFICES ASSUME NEW i \in 1 .. Len(b) + 1 PROVE 1 <= g[i] /\ t[g[i]] = c[i].run
      OBVIOUS
    <2>1. CASE i = Len(b) + 1
      BY <1>2, <1>3, <1>4, <2>1
    <2>2. CASE i \in 1 .. Len(b)
      BY <1>2, <1>3, <1>4, <1>5, <2>2
    <2> QED
      BY <1>6, <2>1, <2>2
  <1>8. \A i, j \in 1 .. Len(b) + 1 : i <= j => g[i] <= g[j]
    <2> SUFFICES ASSUME NEW i \in 1 .. Len(b) + 1, NEW j \in 1 .. Len(b) + 1, i <= j PROVE g[i] <= g[j]
      OBVIOUS
    <2>1. CASE j = Len(b) + 1
      BY <1>2, <1>3, <1>4, <1>5, <1>6, <2>1
    <2>2. CASE j # Len(b) + 1
      <3>1. i \in 1 .. Len(b) /\ j \in 1 .. Len(b)
        BY <1>2, <2>2
      <3> QED
        BY <1>4, <3>1
    <2> QED
      BY <2>1, <2>2
  <1>9. \A i \in 1 .. Len(b) : g[i + 1] = g[i] + (IF c[i + 1].kind = "borrowed" THEN 0 ELSE 1)
    <2> SUFFICES ASSUME NEW i \in 1 .. Len(b) PROVE g[i + 1] = g[i] + (IF c[i + 1].kind = "borrowed" THEN 0 ELSE 1)
      OBVIOUS
    <2>1. CASE i = Len(b)
      BY <1>1, <1>2, <1>3, <1>4, <2>1
    <2>2. CASE i # Len(b)
      <3>1. i \in 1 .. Len(b) - 1 /\ i + 1 \in 1 .. Len(b)
        BY <1>2, <2>2
      <3> QED
        BY <1>2, <1>4, <3>1
    <2> QED
      BY <2>1, <2>2
  <1>10. Len(c) - 1 = Len(b)
    BY <1>2
  <1>11. /\ g \in [1 .. Len(c) -> Nat] /\ g[Len(c)] = Len(s) + 1
         /\ \A i \in 1 .. Len(c) : 1 <= g[i] /\ (g[i] <= Len(t) => t[g[i]] = c[i].run)
         /\ \A i, j \in 1 .. Len(c) : i <= j => g[i] <= g[j]
         /\ \A i \in 1 .. Len(c) - 1 : g[i + 1] = g[i] + (IF c[i + 1].kind = "borrowed" THEN 0 ELSE 1)
    BY <1>2, <1>4, <1>7, <1>8, <1>9, <1>10
  <1>12. Placed(c, t, Len(s) + 1)
    BY <1>11 DEF Placed
  <1> QED
    BY <1>12 DEF c, t

LEMMA PlacedBorrow ==
    ASSUME NEW b \in Seq(BlockRecords), NEW s \in Seq(Handles), NEW x \in BlockRecords,
           b # <<>>, Placed(b, s, Len(s)), x.kind = "borrowed", x.run = Last(s)
    PROVE  Placed(Append(b, x), s, Len(s))
  <1> PICK f \in [1 .. Len(b) -> Nat] :
        /\ f[Len(b)] = Len(s)
        /\ \A i \in 1 .. Len(b) : 1 <= f[i] /\ (f[i] <= Len(s) => s[f[i]] = b[i].run)
        /\ \A i, j \in 1 .. Len(b) : i <= j => f[i] <= f[j]
        /\ \A i \in 1 .. Len(b) - 1 : f[i + 1] = f[i] + (IF b[i + 1].kind = "borrowed" THEN 0 ELSE 1)
    BY DEF Placed
  <1> DEFINE c == Append(b, x)
             g == [i \in 1 .. Len(b) + 1 |-> IF i = Len(b) + 1 THEN Len(s) ELSE f[i]]
  <1>1. s # <<>> /\ Len(b) >= 1
    BY PlacedTop, FrontLast
  <1>2. /\ Len(c) = Len(b) + 1 /\ Len(b) \in Nat /\ c[Len(b) + 1] = x /\ \A i \in 1 .. Len(b) : c[i] = b[i]
    BY AppendLast
  <1>3. Len(s) \in Nat /\ Len(s) >= 1 /\ Last(s) = s[Len(s)]
    BY <1>1, FrontLast
  <1>4. /\ g \in [1 .. Len(b) + 1 -> Nat] /\ g[Len(b) + 1] = Len(s) /\ \A i \in 1 .. Len(b) : g[i] = f[i]
    BY <1>2, <1>3
  <1> HIDE DEF c, g
  <1>5. \A i \in 1 .. Len(b) : f[i] \in 1 .. Len(s) /\ s[f[i]] = b[i].run
    BY <1>1, <1>2, <1>3
  <1>6. \A i \in 1 .. Len(b) + 1 : i = Len(b) + 1 \/ i \in 1 .. Len(b)
    BY <1>2
  <1>7. \A i \in 1 .. Len(b) + 1 : 1 <= g[i] /\ s[g[i]] = c[i].run
    <2> SUFFICES ASSUME NEW i \in 1 .. Len(b) + 1 PROVE 1 <= g[i] /\ s[g[i]] = c[i].run
      OBVIOUS
    <2>1. CASE i = Len(b) + 1
      BY <1>2, <1>3, <1>4, <2>1
    <2>2. CASE i \in 1 .. Len(b)
      BY <1>2, <1>3, <1>4, <1>5, <2>2
    <2> QED
      BY <1>6, <2>1, <2>2
  <1>8. \A i, j \in 1 .. Len(b) + 1 : i <= j => g[i] <= g[j]
    <2> SUFFICES ASSUME NEW i \in 1 .. Len(b) + 1, NEW j \in 1 .. Len(b) + 1, i <= j PROVE g[i] <= g[j]
      OBVIOUS
    <2>1. CASE j = Len(b) + 1
      BY <1>2, <1>3, <1>4, <1>5, <1>6, <2>1
    <2>2. CASE j # Len(b) + 1
      <3>1. i \in 1 .. Len(b) /\ j \in 1 .. Len(b)
        BY <1>2, <2>2
      <3> QED
        BY <1>4, <3>1
    <2> QED
      BY <2>1, <2>2
  <1>9. \A i \in 1 .. Len(b) : g[i + 1] = g[i] + (IF c[i + 1].kind = "borrowed" THEN 0 ELSE 1)
    <2> SUFFICES ASSUME NEW i \in 1 .. Len(b) PROVE g[i + 1] = g[i] + (IF c[i + 1].kind = "borrowed" THEN 0 ELSE 1)
      OBVIOUS
    <2>1. CASE i = Len(b)
      BY <1>1, <1>2, <1>3, <1>4, <2>1
    <2>2. CASE i # Len(b)
      <3>1. i \in 1 .. Len(b) - 1 /\ i + 1 \in 1 .. Len(b)
        BY <1>2, <2>2
      <3> QED
        BY <1>2, <1>4, <3>1
    <2> QED
      BY <2>1, <2>2
  <1>10. Len(c) - 1 = Len(b)
    BY <1>2
  <1>11. /\ g \in [1 .. Len(c) -> Nat] /\ g[Len(c)] = Len(s)
         /\ \A i \in 1 .. Len(c) : 1 <= g[i] /\ (g[i] <= Len(s) => s[g[i]] = c[i].run)
         /\ \A i, j \in 1 .. Len(c) : i <= j => g[i] <= g[j]
         /\ \A i \in 1 .. Len(c) - 1 : g[i + 1] = g[i] + (IF c[i + 1].kind = "borrowed" THEN 0 ELSE 1)
    BY <1>2, <1>4, <1>7, <1>8, <1>9, <1>10
  <1>12. Placed(c, s, Len(s))
    BY <1>11 DEF Placed
  <1> QED
    BY <1>12 DEF c

LEMMA PlacedPop ==
    ASSUME NEW b \in Seq(BlockRecords), NEW s \in Seq(Handles), b # <<>>, Placed(b, s, Len(s))
    PROVE  s # <<>> /\ Placed(b, Front(s), Len(Front(s)) + 1)
  <1>1. s # <<>>
    BY PlacedTop
  <1>2. Len(Front(s)) = Len(s) - 1 /\ Len(s) \in Nat /\ \A i \in 1 .. Len(s) - 1 : Front(s)[i] = s[i]
    BY <1>1, FrontLast
  <1>3. Len(Front(s)) + 1 = Len(s)
    BY <1>2
  <1> PICK f \in [1 .. Len(b) -> Nat] :
        /\ f[Len(b)] = Len(s)
        /\ \A i \in 1 .. Len(b) : 1 <= f[i] /\ (f[i] <= Len(s) => s[f[i]] = b[i].run)
        /\ \A i, j \in 1 .. Len(b) : i <= j => f[i] <= f[j]
        /\ \A i \in 1 .. Len(b) - 1 : f[i + 1] = f[i] + (IF b[i + 1].kind = "borrowed" THEN 0 ELSE 1)
    BY DEF Placed
  <1>4. ASSUME NEW i \in 1 .. Len(b), f[i] <= Len(Front(s)) PROVE Front(s)[f[i]] = b[i].run
    <2>1. f[i] \in 1 .. Len(s) - 1
      BY <1>2, <1>4
    <2>2. f[i] <= Len(s)
      BY <1>2, <2>1
    <2> QED
      BY <1>2, <2>1, <2>2
  <1> QED
    BY <1>1, <1>3, <1>4 DEF Placed

\* The innermost block is left: its position goes with it, unless it only borrowed the one below.
LEMMA PlacedLeave ==
    ASSUME NEW b \in Seq(BlockRecords), NEW s \in Seq(Handles), NEW top \in {Len(s), Len(s) + 1}, b # <<>>, Front(b) # <<>>,
           Placed(b, s, top), top = Len(s) <=> Last(b).kind = "borrowed"
    PROVE  Placed(Front(b), s, Len(s))
  <1> PICK f \in [1 .. Len(b) -> Nat] :
        /\ f[Len(b)] = top
        /\ \A i \in 1 .. Len(b) : 1 <= f[i] /\ (f[i] <= Len(s) => s[f[i]] = b[i].run)
        /\ \A i, j \in 1 .. Len(b) : i <= j => f[i] <= f[j]
        /\ \A i \in 1 .. Len(b) - 1 : f[i + 1] = f[i] + (IF b[i + 1].kind = "borrowed" THEN 0 ELSE 1)
    BY DEF Placed
  <1> DEFINE c == Front(b)
             n == Len(b) - 1
             g == [i \in 1 .. n |-> f[i]]
  <1>1. /\ Len(c) = n /\ Len(b) \in Nat /\ Last(b) = b[Len(b)] /\ \A i \in 1 .. n : c[i] = b[i]
        /\ c \in Seq(BlockRecords) /\ Len(b) >= 1
    BY FrontLast
  <1>2. n \in Nat /\ n >= 1 /\ n + 1 = Len(b)
    <2>1. Len(c) # 0
      BY <1>1
    <2> QED
      BY <1>1, <2>1
  <1>3. g \in [1 .. n -> Nat] /\ \A i \in 1 .. n : g[i] = f[i]
    BY <1>2
  <1>4. Len(s) \in Nat
    OBVIOUS
  <1> HIDE DEF c, n, g
  <1>5. f[n + 1] = f[n] + (IF b[n + 1].kind = "borrowed" THEN 0 ELSE 1) /\ f[n] \in Nat
    BY <1>2
  <1>6. g[n] = Len(s)
    BY <1>1, <1>2, <1>3, <1>4, <1>5
  <1>7. \A i \in 1 .. n : i \in 1 .. Len(b) /\ (i \in 1 .. n - 1 => i \in 1 .. Len(b) - 1 /\ i + 1 \in 1 .. n)
    BY <1>2
  <1>8. \A i \in 1 .. n : 1 <= g[i] /\ (g[i] <= Len(s) => s[g[i]] = c[i].run)
    BY <1>1, <1>3, <1>7
  <1>9. \A i, j \in 1 .. n : i <= j => g[i] <= g[j]
    BY <1>3, <1>7
  <1>10. \A i \in 1 .. n - 1 : g[i + 1] = g[i] + (IF c[i + 1].kind = "borrowed" THEN 0 ELSE 1)
    <2> SUFFICES ASSUME NEW i \in 1 .. n - 1 PROVE g[i + 1] = g[i] + (IF c[i + 1].kind = "borrowed" THEN 0 ELSE 1)
      OBVIOUS
    <2>1. i \in 1 .. n /\ i + 1 \in 1 .. n /\ i \in 1 .. Len(b) - 1
      BY <1>2
    <2> QED
      BY <1>1, <1>3, <2>1
  <1>11. Placed(c, s, Len(s))
    BY <1>1, <1>3, <1>6, <1>8, <1>9, <1>10 DEF Placed
  <1> QED
    BY <1>11 DEF c


-----------------------------------------------------------------------------
(* Types. *)

LEMMA LeaveDepth ==
    ASSUME TrackingTypeOK, FitInv, NEW t \in Threads, blocks[t] # <<>>, Last(blocks[t]).kind # "with"
    PROVE  depth[proc[t]] = 1
  <1>1. /\ blocks[t] \in Seq(BlockRecords) /\ proc[t] \in Processes
    BY DEF TrackingTypeOK, BlockRecords
  <1>2. Len(blocks[t]) \in DOMAIN blocks[t] /\ Len(blocks[t]) \in Nat /\ Last(blocks[t]) = blocks[t][Len(blocks[t])]
    <2>1. /\ Len(blocks[t]) \in Nat /\ Len(blocks[t]) >= 1 /\ DOMAIN blocks[t] = 1 .. Len(blocks[t])
          /\ Last(blocks[t]) = blocks[t][Len(blocks[t])]
      BY <1>1, FrontLast
    <2> QED
      BY <2>1
  <1>3. <<t, Len(blocks[t])>> \in FitMarks(proc[t])
    BY <1>1, <1>2 DEF FitMarks, FitMark
  <1> QED
    BY <1>1, <1>3 DEF FitInv

LEMMA StartedDepth ==
    ASSUME TrackingTypeOK, FitInv, NEW t \in Threads, op[t] = "fit"
    PROVE  depth[proc[t]] = 1
  <1>1. proc[t] \in Processes
    BY DEF TrackingTypeOK
  <1>2. <<t, 0>> \in FitMarks(proc[t])
    BY DEF FitMarks, FitMark
  <1> QED
    BY <1>1, <1>2 DEF FitInv

LEMMA LeaveType ==
    ASSUME TrackingTypeOK, FitInv, NEW t \in Threads, blocks[t] # <<>>, Leave(t)
    PROVE  blocks' \in [Threads -> Seq([run : Handles, kind : Kinds])] /\ depth' \in [Processes -> Nat]
  <1>1. blocks' \in [Threads -> Seq([run : Handles, kind : Kinds])]
    <2>1. Front(blocks[t]) \in Seq([run : Handles, kind : Kinds])
      BY FrontLast DEF TrackingTypeOK
    <2> QED
      BY <2>1 DEF Leave, TrackingTypeOK
  <1>2. CASE Last(blocks[t]).kind = "with"
    BY <1>1, <1>2 DEF Leave, TrackingTypeOK
  <1>3. CASE Last(blocks[t]).kind # "with"
    <2>1. depth[proc[t]] = 1
      BY <1>3, LeaveDepth
    <2>2. depth' = [depth EXCEPT ![proc[t]] = @ - 1] /\ depth \in [Processes -> Nat]
      BY <1>3 DEF Leave, TrackingTypeOK
    <2>3. depth' \in [Processes -> Nat]
      <3>1. depth' = [depth EXCEPT ![proc[t]] = 0]
        BY <2>1, <2>2
      <3>2. depth \in [Processes -> Nat]
        BY DEF TrackingTypeOK
      <3> QED
        BY <3>1, <3>2
    <2> QED
      BY <1>1, <2>3
  <1> QED
    BY <1>2, <1>3

LEMMA PopType ==
    ASSUME TrackingTypeOK, NEW t \in Threads, Stack(t) # <<>>
    PROVE  /\ ActiveRun(t) \in Handles /\ ActiveRun(t) \in ToSet(Stack(t)) /\ Stack(t) \in Seq(Handles)
           /\ [stack EXCEPT ![proc[t]] = Front(@)] \in [Processes -> Seq(Handles)]
  <1>1. stack \in [Processes -> Seq(Handles)] /\ proc[t] \in Processes
    BY DEF TrackingTypeOK
  <1>2. Stack(t) \in Seq(Handles)
    BY <1>1 DEF Stack
  <1>3. /\ Front(Stack(t)) \in Seq(Handles) /\ ActiveRun(t) \in Handles /\ Len(Stack(t)) >= 1 /\ Len(Stack(t)) \in Nat
        /\ DOMAIN Stack(t) = 1 .. Len(Stack(t)) /\ ActiveRun(t) = Stack(t)[Len(Stack(t))]
    BY <1>2, FrontLast DEF ActiveRun
  <1>4. ActiveRun(t) \in ToSet(Stack(t))
    BY <1>3 DEF ToSet
  <1>5. [stack EXCEPT ![proc[t]] = Front(@)] \in [Processes -> Seq(Handles)]
    BY <1>1, <1>3 DEF Stack
  <1> QED
    BY <1>2, <1>3, <1>4, <1>5

\* What is made of blocks by a thread that enters one.
LEMMA EnterType ==
    ASSUME TrackingTypeOK, NEW t \in Threads, NEW x \in [run : Handles, kind : Kinds]
    PROVE  [blocks EXCEPT ![t] = Append(@, x)] \in [Threads -> Seq([run : Handles, kind : Kinds])]
  <1>1. Append(blocks[t], x) \in Seq([run : Handles, kind : Kinds])
    BY AppendLast DEF TrackingTypeOK
  <1> QED
    BY <1>1 DEF TrackingTypeOK

\* What the steps all calls are made of do to the thread that makes them.
LEMMA Bounds == MaxExps \in Nat /\ MaxRuns \in Nat /\ MaxNest \in Nat /\ MaxEvents \in Nat
  BY TrackingAssumption

LEMMA EventTypes ==
    ASSUME TrackingTypeOK, Event \/ UNCHANGED events
    PROVE  events' \in 0..MaxEvents
  <1>1. events \in 0..MaxEvents
    BY DEF TrackingTypeOK
  <1> QED
    BY <1>1, Bounds DEF Event

LEMMA ProceedTypes ==
    ASSUME TrackingTypeOK, NEW t \in Threads, NEW step \in Phases, Proceed(t, step)
    PROVE  phase' \in [Threads -> Phases]
  BY DEF Proceed, TrackingTypeOK

LEMMA EnterTypes ==
    ASSUME TrackingTypeOK, NEW t \in Threads, NEW step \in Phases, NEW o \in Ops, Enter(t, o, step)
    PROVE  phase' \in [Threads -> Phases] /\ op' \in [Threads -> Ops]
  BY DEF Enter, Proceed, TrackingTypeOK

LEMMA DoneTypes ==
    ASSUME TrackingTypeOK, NEW t \in Threads, Done(t)
    PROVE  /\ phase' \in [Threads -> Phases] /\ op' \in [Threads -> Ops]
           /\ name' \in [Threads -> ExpNames \cup {"Default", ""}] /\ exp' \in [Threads -> Exps]
           /\ callRun' \in [Threads -> Handles]
  <1>1. "idle" \in Phases /\ "" \in Ops /\ 0 \in Exps /\ 0 \in Handles
    BY Bounds DEF Phases, Ops, Exps, Handles
  <1>2. phase' \in [Threads -> Phases]
    BY <1>1, ProceedTypes DEF Done
  <1>3. op' \in [Threads -> Ops] /\ name' \in [Threads -> ExpNames \cup {"Default", ""}]
    BY <1>1 DEF Done, TrackingTypeOK
  <1>4. exp' \in [Threads -> Exps] /\ callRun' \in [Threads -> Handles]
    BY <1>1 DEF Done, TrackingTypeOK
  <1> QED
    BY <1>2, <1>3, <1>4

LEMMA StartsRunTypes ==
    ASSUME TrackingTypeOK, NEW t \in Threads, NEW o \in Ops, StartsRun(t, o)
    PROVE  /\ phase' \in [Threads -> Phases] /\ op' \in [Threads -> Ops] /\ exp' \in [Threads -> Exps]
           /\ UNCHANGED <<db, stack, current, name, callRun, blocks, trackHistory>>
  <1>1. phase' \in [Threads -> Phases] /\ op' \in [Threads -> Ops]
    BY EnterTypes DEF StartsRun, Phases
  <1>2. current[proc[t]] \in Exps
    BY DEF TrackingTypeOK
  <1> QED
    BY <1>1, <1>2 DEF StartsRun, TrackingTypeOK

LEMMA ExperimentTypes ==
    ASSUME TrackingTypeOK, NEW t \in Threads,
           SetExperiment(t) \/ GetExperimentByName(t) \/ CreateExperiment(t) \/ AssignExperiment(t)
    PROVE  TrackingTypeOK'
  <1>1. CASE SetExperiment(t)
    <2>1. phase' \in [Threads -> Phases] /\ op' \in [Threads -> Ops]
      BY <1>1, EnterTypes DEF SetExperiment, Phases, Ops
    <2>2. events' \in 0..MaxEvents
      BY <1>1, EventTypes DEF SetExperiment, Call
    <2>3. name' \in [Threads -> ExpNames \cup {"Default", ""}]
      BY <1>1 DEF SetExperiment, TrackingTypeOK
    <2>4. UNCHANGED <<proc, db, shim, exp, callRun, blocks, trackHistory>>
      BY <1>1 DEF SetExperiment, Call
    <2> QED
      BY <2>1, <2>2, <2>3, <2>4 DEF TrackingTypeOK, db, shim, trackHistory, RunRows
  <1>2. CASE GetExperimentByName(t)
    <2>1. phase' \in [Threads -> Phases]
      BY <1>2, ProceedTypes DEF GetExperimentByName, Phases
    <2>2. events' \in 0..MaxEvents
      BY <1>2, EventTypes DEF GetExperimentByName, Reached, Unreachable
    <2>3. exp' \in [Threads -> Exps]
      BY <1>2 DEF GetExperimentByName, TrackingTypeOK, Named
    <2>4. UNCHANGED <<proc, db, shim, op, name, callRun, blocks, trackHistory>>
      BY <1>2 DEF GetExperimentByName, At
    <2> QED
      BY <2>1, <2>2, <2>3, <2>4 DEF TrackingTypeOK, db, shim, trackHistory, RunRows
  <1>3. CASE CreateExperiment(t)
    <2>1. phase' \in [Threads -> Phases]
      BY <1>3, ProceedTypes DEF CreateExperiment, Phases
    <2>2. events' \in 0..MaxEvents
      BY <1>3, EventTypes DEF CreateExperiment, Reached, Unreachable
    <2>3. /\ exp' \in [Threads -> Exps] /\ expLive' \subseteq Exps
          /\ expName' \in [Exps -> ExpNames \cup {"Default", ""}]
      <3>1. 0 \in Exps /\ name[t] \in ExpNames \cup {"Default", ""} /\ exp \in [Threads -> Exps]
            /\ expLive \subseteq Exps /\ expName \in [Exps -> ExpNames \cup {"Default", ""}]
        <4>1. 0 \in Exps
          BY Bounds DEF Exps
        <4> QED
          BY <4>1 DEF TrackingTypeOK
      <3>2. CASE exp' = [exp EXCEPT ![t] = 0] /\ UNCHANGED <<expName, expLive>>
        BY <3>1, <3>2
      <3>3. CASE \E e \in NewExps : /\ expName' = [expName EXCEPT ![e] = name[t]] /\ expLive' = expLive \cup {e}
                                    /\ exp' = [exp EXCEPT ![t] = e]
        <4>1. PICK e \in Exps : /\ expName' = [expName EXCEPT ![e] = name[t]] /\ expLive' = expLive \cup {e}
                                /\ exp' = [exp EXCEPT ![t] = e]
          BY <3>3 DEF NewExps
        <4> QED
          BY <3>1, <4>1
      <3> QED
        BY <1>3, <3>2, <3>3 DEF CreateExperiment
    <2>4. UNCHANGED <<proc, runExp, runLive, status, logged, shim, op, name, callRun, blocks, trackHistory>>
      BY <1>3 DEF CreateExperiment, At
    <2> QED
      BY <2>1, <2>2, <2>3, <2>4 DEF TrackingTypeOK, shim, trackHistory, RunRows
  <1>4. CASE AssignExperiment(t)
    <2>1. Done(t) /\ UNCHANGED <<events, proc, db, stack, depth, blocks, trackHistory>>
      BY <1>4 DEF AssignExperiment, At, Reached
    <2>2. current' \in [Processes -> Exps]
      BY <1>4 DEF AssignExperiment, TrackingTypeOK
    <2> QED
      BY <2>1, <2>2, DoneTypes DEF TrackingTypeOK, db, trackHistory, RunRows
  <1> QED
    BY <1>1, <1>2, <1>3, <1>4

LEMMA RunTypes ==
    ASSUME TrackingTypeOK, TrackedOps, FitInv, NEW t \in Threads,
           \/ StartRun(t) \/ PushRun(t)
           \/ \E way \in {InProcess, ByHttp} : CheckExperiment(t, way) \/ InsertRun(t, way) \/ ReadRun(t, way)
    PROVE  TrackingTypeOK'
  <1>1. CASE StartRun(t)
    <2>1. PICK o \in Ops : StartsRun(t, o)
      BY <1>1 DEF StartRun, Ops
    <2>2. events' \in 0..MaxEvents /\ UNCHANGED <<proc, depth>>
      BY <1>1, EventTypes DEF StartRun, Call
    <2> QED
      BY <2>1, <2>2, StartsRunTypes DEF TrackingTypeOK, db, trackHistory, RunRows
  <1>2. ASSUME NEW way \in {InProcess, ByHttp}, CheckExperiment(t, way) PROVE TrackingTypeOK'
    <2>1. phase' \in [Threads -> Phases]
      <3>1. Proceed(t, way.insert) \/ Proceed(t, "push")
        BY <1>2 DEF CheckExperiment
      <3>2. way.insert \in Phases /\ "push" \in Phases
        BY WayPhases DEF Phases
      <3> QED
        BY <3>1, <3>2, ProceedTypes
    <2>2. events' \in 0..MaxEvents
      BY <1>2, EventTypes DEF CheckExperiment, Reached, Unreachable
    <2>3. UNCHANGED <<proc, db, shim, op, name, exp, callRun, blocks, trackHistory>>
      BY <1>2 DEF CheckExperiment, At
    <2> QED
      BY <2>1, <2>2, <2>3 DEF TrackingTypeOK, db, shim, trackHistory, RunRows
  <1>3. ASSUME NEW way \in {InProcess, ByHttp}, InsertRun(t, way) PROVE TrackingTypeOK'
    <2>1. phase' \in [Threads -> Phases]
      <3>1. Proceed(t, way.read)
        BY <1>3 DEF InsertRun
      <3>2. way.read \in Phases
        BY WayPhases
      <3> QED
        BY <3>1, <3>2, ProceedTypes
    <2>2. PICK r \in RunIds \ RunRows :
            /\ runExp' = [runExp EXCEPT ![r] = exp[t]] /\ runLive' = runLive \cup {r}
            /\ status' = [status EXCEPT ![r] = "RUNNING"] /\ callRun' = [callRun EXCEPT ![t] = r]
      BY <1>3 DEF InsertRun
    <2>3. r \in Handles /\ exp[t] \in Exps /\ -1 \notin Exps
      <3>1. r \in Handles /\ -1 \notin Exps
        BY Bounds DEF RunIds, Handles, Exps
      <3> QED
        BY <3>1 DEF TrackingTypeOK
    <2>4. /\ runExp' \in [RunIds -> Exps \cup {-1}] /\ runLive' \subseteq RunIds
          /\ status' \in [RunIds -> Ended \cup {"", "RUNNING"}]
      BY <2>2, <2>3 DEF TrackingTypeOK
    <2>5. callRun' \in [Threads -> Handles]
      BY <2>2, <2>3 DEF TrackingTypeOK
    <2>6. UNCHANGED <<proc, events, expName, expLive, logged, shim, op, name, exp, blocks, trackHistory>>
      BY <1>3 DEF InsertRun, At, Reached
    <2>7. RunRows \subseteq RunRows'
      BY <2>2, <2>3 DEF RunRows, TrackingTypeOK
    <2> QED
      BY <2>1, <2>4, <2>5, <2>6, <2>7 DEF TrackingTypeOK, shim, trackHistory
  <1>4. CASE PushRun(t)
    <2>1. callRun[t] \in Handles /\ proc[t] \in Processes /\ stack[proc[t]] \in Seq(Handles)
      BY DEF TrackingTypeOK
    <2>2. Append(stack[proc[t]], callRun[t]) \in Seq(Handles)
      BY <2>1, AppendLast
    <2>3. stack' \in [Processes -> Seq(Handles)]
      BY <1>4, <2>2 DEF PushRun, Push, TrackingTypeOK
    <2>4. op[t] \in {"with", "fit"} => [run |-> callRun[t], kind |-> op[t]] \in [run : Handles, kind : Kinds]
      BY <2>1 DEF Kinds
    <2>5. blocks' \in [Threads -> Seq([run : Handles, kind : Kinds])]
      <3>1. CASE op[t] \in {"with", "fit"}
        <4>1. blocks' = [blocks EXCEPT ![t] = Append(@, [run |-> callRun[t], kind |-> op[t]])]
          BY <1>4, <3>1 DEF PushRun
        <4> QED
          BY <2>4, <3>1, <4>1, EnterType
      <3>2. CASE op[t] \notin {"with", "fit"}
        BY <1>4, <3>2 DEF PushRun, TrackingTypeOK
      <3> QED
        BY <3>1, <3>2
    <2>6. UNCHANGED <<db, proc, events, current, depth, lost>> /\ mixed' \subseteq Threads
      BY <1>4 DEF PushRun, At, Reached, Mixes, Neighbours, TrackingTypeOK
    <2>7. /\ phase' \in [Threads -> Phases] /\ op' \in [Threads -> Ops]
          /\ name' \in [Threads -> ExpNames \cup {"Default", ""}] /\ exp' \in [Threads -> Exps]
          /\ callRun' \in [Threads -> Handles]
      <3>1. CASE Done(t)
        BY <3>1, DoneTypes
      <3>2. CASE Proceed(t, "top") /\ UNCHANGED <<op, name, exp, callRun>>
        <4>1. phase' \in [Threads -> Phases]
          BY <3>2, ProceedTypes DEF Phases
        <4> QED
          BY <3>2, <4>1 DEF TrackingTypeOK
      <3> QED
        BY <1>4, <3>1, <3>2 DEF PushRun
    <2> QED
      BY <2>3, <2>5, <2>6, <2>7 DEF TrackingTypeOK, db, RunRows
  <1>5. ASSUME NEW way \in {InProcess, ByHttp}, ReadRun(t, way) PROVE TrackingTypeOK'
    <2>1. UNCHANGED <<proc, db, stack, current, blocks, mixed>> /\ callRun[t] \in RunIds
      <3>1. phase[t] = way.read /\ UNCHANGED <<proc, db, stack, current, blocks, mixed>>
        BY <1>5 DEF ReadRun, At
      <3>2. phase[t] \in {"read", "reread"}
        BY <3>1, WayPhases
      <3> QED
        BY <3>1, <3>2 DEF TrackedOps, CallInOrder
    <2>2. events' \in 0..MaxEvents
      BY <1>5, EventTypes DEF ReadRun, Reached, Unreachable
    <2>3. lost' \subseteq RunIds
      BY <1>5, <2>1 DEF ReadRun, TrackingTypeOK
    <2>4. CASE Proceed(t, "push") /\ UNCHANGED <<depth, op, name, exp, callRun>>
      <3>1. phase' \in [Threads -> Phases]
        BY <2>4, ProceedTypes DEF Phases
      <3> QED
        BY <2>1, <2>2, <2>3, <2>4, <3>1 DEF TrackingTypeOK, db, RunRows
    <2>5. CASE Done(t) /\ depth' = IF op[t] = "fit" THEN [depth EXCEPT ![proc[t]] = @ - 1] ELSE depth
      <3>1. depth' \in [Processes -> Nat]
        <4>1. depth \in [Processes -> Nat] /\ proc[t] \in Processes
          BY DEF TrackingTypeOK
        <4>2. CASE op[t] = "fit"
          <5>1. depth[proc[t]] = 1 /\ depth' = [depth EXCEPT ![proc[t]] = @ - 1]
            BY <2>5, <4>2, StartedDepth
          <5>2. depth' = [depth EXCEPT ![proc[t]] = 0]
            BY <5>1
          <5> QED
            BY <4>1, <5>2
        <4>3. CASE op[t] # "fit"
          BY <2>5, <4>1, <4>3
        <4> QED
          BY <4>2, <4>3
      <3> QED
        BY <2>1, <2>2, <2>3, <2>5, <3>1, DoneTypes DEF TrackingTypeOK, db, RunRows
    <2>6. CASE /\ Proceed(t, IF way = InProcess THEN ByHttp.check ELSE "push")
               /\ callRun' = [callRun EXCEPT ![t] = 0] /\ UNCHANGED <<depth, op, name, exp>>
      <3>1. phase' \in [Threads -> Phases]
        <4>1. (IF way = InProcess THEN ByHttp.check ELSE "push") \in Phases
          BY WayPhases DEF Phases
        <4> QED
          BY <2>6, <4>1, ProceedTypes
      <3>2. callRun' \in [Threads -> Handles]
        <4>1. 0 \in Handles
          BY Bounds DEF Handles
        <4> QED
          BY <2>6, <4>1 DEF TrackingTypeOK
      <3> QED
        BY <2>1, <2>2, <2>3, <2>6, <3>1, <3>2 DEF TrackingTypeOK, db, RunRows
    <2> QED
      BY <1>5, <2>4, <2>5, <2>6 DEF ReadRun
  <1> QED
    BY <1>1, <1>2, <1>3, <1>4, <1>5

LEMMA LogTypes ==
    ASSUME TrackingTypeOK, NEW t \in Threads, Log(t) \/ ActiveRunAgain(t) \/ WriteLog(t) \/ Fit(t)
    PROVE  TrackingTypeOK'
  <1> USE DEF RunRows
  <1>1. CASE Log(t)
    <2>1. events' \in 0..MaxEvents /\ UNCHANGED <<proc, depth>>
      BY <1>1, EventTypes DEF Log, Call
    <2>2. CASE Stack(t) # <<>>
      <3>1. /\ Enter(t, "log", "write") /\ callRun' = [callRun EXCEPT ![t] = ActiveRun(t)]
            /\ UNCHANGED <<db, stack, current, name, exp, blocks, trackHistory>>
        BY <1>1, <2>2 DEF Log
      <3>2. phase' \in [Threads -> Phases] /\ op' \in [Threads -> Ops]
        BY <3>1, EnterTypes DEF Phases, Ops
      <3>3. callRun' \in [Threads -> Handles]
        BY <2>2, <3>1, PopType DEF TrackingTypeOK
      <3> QED
        BY <2>1, <3>1, <3>2, <3>3 DEF TrackingTypeOK, db, trackHistory
    <2>3. CASE Stack(t) = <<>>
      <3>1. StartsRun(t, "log") /\ "log" \in Ops
        BY <1>1, <2>3 DEF Log, Ops
      <3> QED
        BY <2>1, <3>1, StartsRunTypes DEF TrackingTypeOK, db, trackHistory
    <2> QED
      BY <2>2, <2>3
  <1>2. CASE ActiveRunAgain(t)
    <2>1. UNCHANGED <<events, proc, db, shim, blocks, trackHistory>>
      BY <1>2 DEF ActiveRunAgain, At, Reached
    <2>2. CASE Stack(t) # <<>>
      <3>1. Proceed(t, "write") /\ callRun' = [callRun EXCEPT ![t] = ActiveRun(t)] /\ UNCHANGED <<op, name, exp>>
        BY <1>2, <2>2 DEF ActiveRunAgain
      <3>2. phase' \in [Threads -> Phases]
        BY <3>1, ProceedTypes DEF Phases
      <3>3. callRun' \in [Threads -> Handles]
        BY <2>2, <3>1, PopType DEF TrackingTypeOK
      <3> QED
        BY <2>1, <3>1, <3>2, <3>3 DEF TrackingTypeOK, db, shim, trackHistory
    <2>3. CASE Stack(t) = <<>>
      <3>1. Done(t)
        BY <1>2, <2>3 DEF ActiveRunAgain
      <3> QED
        BY <2>1, <3>1, DoneTypes DEF TrackingTypeOK, db, shim, trackHistory
    <2> QED
      BY <2>2, <2>3
  <1>3. CASE WriteLog(t)
    <2>1. events' \in 0..MaxEvents
      BY <1>3, EventTypes DEF WriteLog, Reached, Unreachable
    <2>2. Done(t) /\ UNCHANGED <<proc, expName, expLive, runExp, runLive, status, shim, blocks, trackHistory>>
      BY <1>3 DEF WriteLog, At
    <2>3. logged' \subseteq RunRows
      BY <1>3 DEF WriteLog, TrackingTypeOK
    <2> QED
      BY <2>1, <2>2, <2>3, DoneTypes DEF TrackingTypeOK, shim, trackHistory
  <1>4. CASE Fit(t)
    <2>1. depth' \in [Processes -> Nat]
      <3>1. depth' = [depth EXCEPT ![proc[t]] = @ + 1] /\ depth \in [Processes -> Nat] /\ proc[t] \in Processes
        BY <1>4 DEF Fit, TrackingTypeOK
      <3> QED
        BY <3>1
    <2>2. events' \in 0..MaxEvents /\ UNCHANGED proc
      BY <1>4, EventTypes DEF Fit, Call
    <2>3. CASE Stack(t) # <<>>
      <3>1. Borrowed(t) \in [run : Handles, kind : Kinds]
        BY <2>3, PopType DEF Borrowed, Kinds
      <3>2. /\ blocks' = [blocks EXCEPT ![t] = Append(@, Borrowed(t))]
            /\ UNCHANGED <<db, stack, current, thread, trackHistory>>
        BY <1>4, <2>3 DEF Fit
      <3>3. blocks' \in [Threads -> Seq([run : Handles, kind : Kinds])]
        BY <3>1, <3>2, EnterType
      <3> QED
        BY <2>1, <2>2, <3>2, <3>3 DEF TrackingTypeOK, db, thread, trackHistory
    <2>4. CASE Stack(t) = <<>>
      <3>1. StartsRun(t, "fit") /\ "fit" \in Ops
        BY <1>4, <2>4 DEF Fit, Ops
      <3> QED
        BY <2>1, <2>2, <3>1, StartsRunTypes DEF TrackingTypeOK, db, trackHistory
    <2> QED
      BY <2>3, <2>4
  <1> QED
    BY <1>1, <1>2, <1>3, <1>4

LEMMA EndTypes ==
    ASSUME TrackingTypeOK, TrackedOps, FitInv, NEW t \in Threads, ExitBlock(t) \/ EndRun(t) \/ UpdateRun(t)
    PROVE  TrackingTypeOK'
  <1> USE DEF RunRows
  <1>1. ASSUME Enter(t, "exit", "update") \/ Enter(t, "end", "update"), PopRun(t), Stack(t) # <<>>, mixed' \subseteq Threads,
               UNCHANGED <<db, proc, current, depth, blocks, name, exp, lost>>, events' \in 0..MaxEvents
        PROVE  TrackingTypeOK'
    <2>1. callRun' \in [Threads -> Handles] /\ stack' \in [Processes -> Seq(Handles)]
      BY <1>1, PopType DEF PopRun, TrackingTypeOK
    <2>2. phase' \in [Threads -> Phases] /\ op' \in [Threads -> Ops]
      BY <1>1, EnterTypes DEF Phases, Ops
    <2> QED
      BY <1>1, <2>1, <2>2 DEF TrackingTypeOK, db
  <1>2. CASE ExitBlock(t)
    <2>1. events' \in 0..MaxEvents /\ UNCHANGED <<db, proc, current, lost>> /\ blocks[t] # <<>>
      BY <1>2, EventTypes DEF ExitBlock, Call
    <2>2. CASE Last(blocks[t]).kind = "borrowed" \/ Stack(t) = <<>>
      <3>1. Leave(t) /\ mixed' \subseteq Threads /\ UNCHANGED <<stack, thread>>
        BY <1>2, <2>2 DEF ExitBlock, StillMixed, TrackingTypeOK
      <3>2. blocks' \in [Threads -> Seq([run : Handles, kind : Kinds])] /\ depth' \in [Processes -> Nat]
        BY <2>1, <3>1, LeaveType
      <3> QED
        BY <2>1, <3>1, <3>2 DEF TrackingTypeOK, db, thread
    <2>3. CASE ~(Last(blocks[t]).kind = "borrowed" \/ Stack(t) = <<>>)
      <3>1. /\ Enter(t, "exit", "update") /\ PopRun(t) /\ mixed' \subseteq Threads
            /\ UNCHANGED <<depth, blocks, name, exp>>
        BY <1>2, <2>3 DEF ExitBlock, Mixes, Neighbours, TrackingTypeOK
      <3> QED
        BY <1>1, <2>1, <2>3, <3>1
    <2> QED
      BY <2>2, <2>3
  <1>3. CASE EndRun(t)
    <2>1. /\ Enter(t, "end", "update") /\ PopRun(t) /\ mixed' \subseteq Threads
          /\ Stack(t) # <<>> /\ UNCHANGED <<db, proc, current, depth, blocks, name, exp, lost>>
      BY <1>3 DEF EndRun, Call, Mixes, Neighbours, TrackingTypeOK
    <2>2. events' \in 0..MaxEvents
      BY <1>3, EventTypes DEF EndRun, Call
    <2> QED
      BY <1>1, <2>1, <2>2
  <1>4. CASE UpdateRun(t)
    <2>1. events' \in 0..MaxEvents
      BY <1>4, EventTypes DEF UpdateRun, Reached, Unreachable
    <2>2. status' \in [RunIds -> Ended \cup {"", "RUNNING"}] /\ lost' \subseteq RunIds /\ Done(t)
      BY <1>4 DEF UpdateRun, TrackingTypeOK
    <2>3. /\ blocks' \in [Threads -> Seq([run : Handles, kind : Kinds])] /\ depth' \in [Processes -> Nat]
          /\ mixed' \subseteq Threads
      <3>1. CASE op[t] = "exit"
        <4>1. blocks[t] # <<>>
          BY <3>1 DEF TrackedOps, CallInOrder
        <4>2. Leave(t) /\ mixed' \subseteq Threads
          BY <1>4, <3>1 DEF UpdateRun, StillMixed, TrackingTypeOK
        <4> QED
          BY <4>1, <4>2, LeaveType
      <3>2. CASE op[t] # "exit"
        BY <1>4, <3>2 DEF UpdateRun, TrackingTypeOK
      <3> QED
        BY <3>1, <3>2
    <2>4. UNCHANGED <<expName, expLive, runExp, runLive, logged, stack, current, proc>>
      BY <1>4 DEF UpdateRun, At
    <2> QED
      BY <2>1, <2>2, <2>3, <2>4, DoneTypes DEF TrackingTypeOK
  <1> QED
    BY <1>2, <1>3, <1>4

\* The studio leaves a thread's variables and the runs' states alone.
LEMMA StudioQuiet ==
    ASSUME TrackingTypeOK, Studio
    PROVE  /\ UNCHANGED <<status, logged, runExp, shim, proc, thread, blocks, trackHistory>> /\ events' \in 0..MaxEvents
           /\ expName' \in [Exps -> ExpNames \cup {"Default", ""}] /\ expLive' \subseteq Exps /\ runLive' \subseteq RunIds
  <1> DEFINE Untouched == /\ UNCHANGED <<status, logged, runExp, shim, proc, thread, blocks, trackHistory>> /\ events' \in 0..MaxEvents
                      /\ expName' \in [Exps -> ExpNames \cup {"Default", ""}] /\ expLive' \subseteq Exps /\ runLive' \subseteq RunIds
  <1>1. /\ expName \in [Exps -> ExpNames \cup {"Default", ""}] /\ expLive \subseteq Exps /\ runLive \subseteq RunIds
        /\ Edit => /\ UNCHANGED <<status, logged, runExp, shim, proc, thread, blocks, trackHistory>>
                   /\ events' \in 0..MaxEvents
    BY EventTypes DEF Edit, TrackingTypeOK
  <1>2. ASSUME NEW e \in Exps, DeleteExperiment(e) \/ RestoreExperiment(e) PROVE Untouched
    BY <1>1, <1>2 DEF DeleteExperiment, RestoreExperiment, RunsOf
  <1>3. ASSUME NEW e \in Exps, NEW n \in ExpNames, UpdateExperiment(e, n) PROVE Untouched
    BY <1>1, <1>3 DEF UpdateExperiment
  <1>4. ASSUME NEW r \in RunIds, DeleteRun(r) \/ RestoreRun(r) PROVE Untouched
    BY <1>1, <1>4 DEF DeleteRun, RestoreRun
  <1> QED
    BY <1>2, <1>3, <1>4 DEF Studio

\* What the death of a process leaves of its threads, and of the others.
LEMMA Survivors ==
    ASSUME TrackingTypeOK, NEW p \in Processes, ProcessDies(p), NEW t \in Threads
    PROVE  /\ proc' = proc
           /\ proc[t] = p => /\ phase'[t] = "idle" /\ op'[t] = "" /\ callRun'[t] = 0 /\ blocks'[t] = <<>>
           /\ proc[t] # p => /\ phase'[t] = phase[t] /\ op'[t] = op[t] /\ callRun'[t] = callRun[t]
                             /\ blocks'[t] = blocks[t] /\ (t \in mixed' <=> t \in mixed)
  BY DEF ProcessDies, TrackingTypeOK

LEMMA DeathTypes ==
    ASSUME TrackingTypeOK, NEW p \in Processes, ProcessDies(p)
    PROVE  TrackingTypeOK'
  <1>1. /\ "idle" \in Phases /\ "" \in Ops /\ 0 \in Exps /\ 0 \in Handles
        /\ <<>> \in Seq([run : Handles, kind : Kinds]) /\ <<>> \in Seq(Handles)
    <2>1. 0 \in Exps /\ 0 \in Handles
      BY Bounds DEF Exps, Handles
    <2>2. <<>> \in Seq([run : Handles, kind : Kinds]) /\ <<>> \in Seq(Handles)
      OBVIOUS
    <2> QED
      BY <2>1, <2>2 DEF Phases, Ops
  <1>2. /\ phase' = [t \in Threads |-> IF proc[t] = p THEN "idle" ELSE phase[t]]
        /\ op' = [t \in Threads |-> IF proc[t] = p THEN "" ELSE op[t]]
        /\ name' = [t \in Threads |-> IF proc[t] = p THEN "" ELSE name[t]]
        /\ exp' = [t \in Threads |-> IF proc[t] = p THEN 0 ELSE exp[t]]
        /\ callRun' = [t \in Threads |-> IF proc[t] = p THEN 0 ELSE callRun[t]]
        /\ blocks' = [t \in Threads |-> IF proc[t] = p THEN <<>> ELSE blocks[t]]
    BY DEF ProcessDies
  <1>3. /\ phase' \in [Threads -> Phases] /\ op' \in [Threads -> Ops]
        /\ name' \in [Threads -> ExpNames \cup {"Default", ""}]
    BY <1>1, <1>2 DEF TrackingTypeOK
  <1>4. /\ exp' \in [Threads -> Exps] /\ callRun' \in [Threads -> Handles]
        /\ blocks' \in [Threads -> Seq([run : Handles, kind : Kinds])]
    BY <1>1, <1>2 DEF TrackingTypeOK
  <1>5. /\ stack' = [stack EXCEPT ![p] = <<>>] /\ current' = [current EXCEPT ![p] = 0]
        /\ depth' = [depth EXCEPT ![p] = 0]
    BY DEF ProcessDies
  <1>6. stack' \in [Processes -> Seq(Handles)]
    BY <1>1, <1>5 DEF TrackingTypeOK
  <1>7. current' \in [Processes -> Exps] /\ depth' \in [Processes -> Nat]
    BY <1>1, <1>5 DEF TrackingTypeOK
  <1>8. lost' \subseteq RunIds /\ mixed' \subseteq Threads /\ UNCHANGED <<db, proc>>
    BY DEF ProcessDies, RunRows, TrackingTypeOK
  <1>9. events' \in 0..MaxEvents
    BY EventTypes DEF ProcessDies
  <1> QED
    BY <1>3, <1>4, <1>6, <1>7, <1>8, <1>9 DEF TrackingTypeOK, db, RunRows

LEMMA TrackingTypeStep ==
    ASSUME TrackingTypeOK, TrackedOps, FitInv, TrackingNext
    PROVE  TrackingTypeOK'
  <1>1. ASSUME NEW t \in Threads, ThreadStep(t) PROVE TrackingTypeOK'
    BY <1>1, ExperimentTypes, RunTypes, LogTypes, EndTypes DEF ThreadStep
  <1>2. ASSUME Studio PROVE TrackingTypeOK'
    BY <1>2, StudioQuiet DEF TrackingTypeOK, shim, thread, trackHistory, RunRows
  <1>3. ASSUME NEW p \in Processes, ProcessDies(p) PROVE TrackingTypeOK'
    BY <1>3, DeathTypes
  <1> QED
    BY <1>1, <1>2, <1>3 DEF TrackingNext

-----------------------------------------------------------------------------
(* A step of a thread leaves the other threads' calls and blocks alone, and *)
(* ends in the phase its call goes on with.                                 *)

LEMMA DoneOthers ==
    ASSUME TrackingTypeOK, NEW t \in Threads, NEW u \in Threads, u # t
    PROVE  /\ Done(t) => phase'[u] = phase[u] /\ op'[u] = op[u] /\ callRun'[u] = callRun[u]
           /\ \A step \in Phases : Proceed(t, step) => phase'[u] = phase[u]
           /\ \A step \in Phases, o \in Ops : Enter(t, o, step) => phase'[u] = phase[u] /\ op'[u] = op[u]
           /\ PopRun(t) => callRun'[u] = callRun[u]
           /\ Leave(t) => blocks'[u] = blocks[u]
  BY DEF Done, Proceed, Enter, PopRun, Leave, TrackingTypeOK

LEMMA OthersKeep ==
    ASSUME TrackingTypeOK, NEW t \in Threads, ThreadStep(t), NEW u \in Threads, u # t
    PROVE  /\ phase'[u] = phase[u] /\ op'[u] = op[u] /\ callRun'[u] = callRun[u] /\ blocks'[u] = blocks[u]
           /\ proc' = proc
  <1> USE DoneOthers DEF Phases, Ops
  <1> DEFINE Kept == /\ phase'[u] = phase[u] /\ op'[u] = op[u] /\ callRun'[u] = callRun[u] /\ blocks'[u] = blocks[u]
                     /\ proc' = proc
  <1>1. CASE SetExperiment(t) \/ GetExperimentByName(t) \/ CreateExperiment(t) \/ AssignExperiment(t)
    BY <1>1 DEF SetExperiment, GetExperimentByName, CreateExperiment, AssignExperiment, Call, At
  <1>2. ASSUME NEW o \in Ops, StartsRun(t, o)
        PROVE  phase'[u] = phase[u] /\ op'[u] = op[u] /\ callRun'[u] = callRun[u] /\ blocks'[u] = blocks[u]
    BY <1>2 DEF StartsRun
  <1>3. CASE StartRun(t)
    BY <1>2, <1>3 DEF StartRun, Call
  <1>4. ASSUME NEW way \in {InProcess, ByHttp}, CheckExperiment(t, way) PROVE Kept
    <2>1. /\ UNCHANGED <<op, callRun, blocks, proc>> /\ (Proceed(t, way.insert) \/ Proceed(t, "push"))
          /\ way.insert \in Phases
      BY <1>4, WayPhases DEF CheckExperiment, At
    <2> QED
      BY <2>1
  <1>5. ASSUME NEW way \in {InProcess, ByHttp}, InsertRun(t, way) PROVE Kept
    <2>1. phase'[u] = phase[u] /\ UNCHANGED <<op, blocks, proc>>
      <3>1. Proceed(t, way.read) /\ way.read \in Phases /\ UNCHANGED <<op, blocks, proc>>
        BY <1>5, WayPhases DEF InsertRun, At
      <3> QED
        BY <3>1
    <2>2. callRun'[u] = callRun[u]
      <3>1. PICK r \in RunIds : callRun' = [callRun EXCEPT ![t] = r]
        BY <1>5 DEF InsertRun
      <3>2. callRun \in [Threads -> Handles]
        BY DEF TrackingTypeOK
      <3> QED
        BY <3>1, <3>2
    <2> QED
      BY <2>1, <2>2
  <1>read. ASSUME NEW way \in {InProcess, ByHttp}, ReadRun(t, way) PROVE Kept
    <2>1. UNCHANGED <<blocks, proc>>
      BY <1>read DEF ReadRun, At
    <2>2. CASE Done(t)
      BY <2>1, <2>2
    <2>3. CASE Proceed(t, "push") /\ UNCHANGED <<op, callRun>>
      BY <2>1, <2>3
    <2>4. CASE /\ Proceed(t, IF way = InProcess THEN ByHttp.check ELSE "push") /\ UNCHANGED op
               /\ callRun' = [callRun EXCEPT ![t] = 0]
      <3>1. callRun'[u] = callRun[u]
        BY <2>4 DEF TrackingTypeOK
      <3>2. (IF way = InProcess THEN ByHttp.check ELSE "push") \in Phases
        BY WayPhases
      <3> QED
        BY <2>1, <2>4, <3>1, <3>2
    <2> QED
      BY <1>read, <2>2, <2>3, <2>4 DEF ReadRun
  <1>6. CASE PushRun(t)
    <2>1. blocks'[u] = blocks[u] /\ proc' = proc
      BY <1>6 DEF PushRun, At, TrackingTypeOK
    <2> QED
      BY <1>6, <2>1 DEF PushRun
  <1>7. CASE Log(t)
    <2>1. proc' = proc /\ (StartsRun(t, "log") \/ (Enter(t, "log", "write") /\ UNCHANGED blocks))
      BY <1>7 DEF Log, Call
    <2>2. CASE StartsRun(t, "log")
      BY <1>2, <2>1, <2>2
    <2>3. CASE ~StartsRun(t, "log")
      <3>1. callRun' = [callRun EXCEPT ![t] = ActiveRun(t)]
        BY <1>7, <2>3 DEF Log
      <3>2. callRun'[u] = callRun[u]
        BY <3>1 DEF TrackingTypeOK
      <3> QED
        BY <2>1, <2>3, <3>2
    <2> QED
      BY <2>2, <2>3
  <1>8. CASE ActiveRunAgain(t)
    <2>1. UNCHANGED <<blocks, proc>> /\ (Done(t) \/ (Proceed(t, "write") /\ callRun' = [callRun EXCEPT ![t] = ActiveRun(t)] /\ UNCHANGED op))
      BY <1>8 DEF ActiveRunAgain, At
    <2>2. callRun' = [callRun EXCEPT ![t] = ActiveRun(t)] => callRun'[u] = callRun[u]
      BY DEF TrackingTypeOK
    <2> QED
      BY <2>1, <2>2
  <1>9. CASE WriteLog(t)
    BY <1>9 DEF WriteLog, At
  <1>10. CASE Fit(t)
    <2>1. CASE StartsRun(t, "fit")
      BY <1>2, <1>10, <2>1 DEF Fit, Call
    <2>2. CASE ~StartsRun(t, "fit")
      <3>1. proc' = proc /\ blocks' = [blocks EXCEPT ![t] = Append(@, Borrowed(t))] /\ UNCHANGED <<phase, op, callRun>>
        BY <1>10, <2>2 DEF Fit, Call, thread
      <3> QED
        BY <3>1 DEF TrackingTypeOK
    <2> QED
      BY <2>1, <2>2
  <1>11. CASE ExitBlock(t)
    BY <1>11 DEF ExitBlock, Call, thread
  <1>12. CASE EndRun(t)
    BY <1>12 DEF EndRun, Call
  <1>13. CASE UpdateRun(t)
    BY <1>13 DEF UpdateRun, At
  <1> QED
    BY <1>1, <1>3, <1>4, <1>5, <1>read, <1>6, <1>7, <1>8, <1>9, <1>10, <1>11, <1>12, <1>13 DEF ThreadStep

LEMMA DoneOwn ==
    ASSUME TrackingTypeOK, NEW t \in Threads
    PROVE  /\ Done(t) => phase'[t] = "idle" /\ op'[t] = ""
           /\ \A step \in Phases : Proceed(t, step) => phase'[t] = step
           /\ \A step \in Phases, o \in Ops : Enter(t, o, step) => phase'[t] = step /\ op'[t] = o
           /\ \A o \in Ops : StartsRun(t, o) => phase'[t] = "check" /\ op'[t] = o /\ UNCHANGED <<stack, blocks, callRun>>
  BY DEF Done, Proceed, Enter, StartsRun, TrackingTypeOK

\* Where a creation goes on from each of its steps.
LEMMA CreationOwn ==
    ASSUME TrackingTypeOK, NEW t \in Threads, NEW way \in {InProcess, ByHttp}
    PROVE  /\ CheckExperiment(t, way) => /\ phase[t] \in {"check", "recheck"} /\ phase'[t] \in {"insert", "reinsert", "push"}
                                         /\ UNCHANGED <<op, callRun, proc>>
           /\ InsertRun(t, way) => /\ phase[t] \in {"insert", "reinsert"} /\ phase'[t] \in {"read", "reread"}
                                   /\ callRun'[t] \in RunIds /\ UNCHANGED <<op, proc>>
           /\ ReadRun(t, way) => /\ phase[t] \in {"read", "reread"} /\ proc' = proc
                                 /\ \/ phase'[t] \in {"push", "recheck"} /\ UNCHANGED <<op, depth>>
                                    \/ Done(t) /\ phase'[t] = "idle" /\ op'[t] = ""
           /\ CheckExperiment(t, way) \/ InsertRun(t, way) => UNCHANGED <<stack, current, depth, blocks, trackHistory>>
           /\ ReadRun(t, way) => UNCHANGED <<db, stack, current, blocks, mixed>>
  <1> DEFINE next == IF way = InProcess THEN ByHttp.check ELSE "push"
  <1>1. /\ way.check \in {"check", "recheck"} /\ way.insert \in {"insert", "reinsert"} /\ way.read \in {"read", "reread"}
        /\ next \in {"recheck", "push"}
    BY WayPhases
  <1>2. \A step \in {"insert", "reinsert", "read", "reread", "push", "recheck"} : Proceed(t, step) => phase'[t] = step
    BY DEF Proceed, TrackingTypeOK
  <1>3. ASSUME CheckExperiment(t, way)
        PROVE  /\ phase[t] \in {"check", "recheck"} /\ phase'[t] \in {"insert", "reinsert", "push"}
               /\ UNCHANGED <<op, callRun, proc>>
               /\ UNCHANGED <<stack, current, depth, blocks, trackHistory>>
    <2>1. phase[t] = way.check /\ (Proceed(t, way.insert) \/ Proceed(t, "push"))
      BY <1>3 DEF CheckExperiment, At
    <2>2. UNCHANGED <<op, callRun, proc, stack, current, depth, blocks, trackHistory>>
      BY <1>3 DEF CheckExperiment, At, shim
    <2> QED
      BY <1>1, <1>2, <2>1, <2>2
  <1>4. ASSUME InsertRun(t, way)
        PROVE  /\ phase[t] \in {"insert", "reinsert"} /\ phase'[t] \in {"read", "reread"}
               /\ callRun'[t] \in RunIds /\ UNCHANGED <<op, proc>>
               /\ UNCHANGED <<stack, current, depth, blocks, trackHistory>>
    <2>1. phase[t] = way.insert /\ Proceed(t, way.read)
      BY <1>4 DEF InsertRun, At
    <2>2. UNCHANGED <<op, proc, stack, current, depth, blocks, trackHistory>>
      BY <1>4 DEF InsertRun, At, shim
    <2>3. callRun'[t] \in RunIds
      BY <1>4 DEF InsertRun, TrackingTypeOK
    <2> QED
      BY <1>1, <1>2, <2>1, <2>2, <2>3
  <1>5. ASSUME ReadRun(t, way)
        PROVE  /\ phase[t] \in {"read", "reread"} /\ proc' = proc
               /\ \/ phase'[t] \in {"push", "recheck"} /\ UNCHANGED <<op, depth>>
                  \/ Done(t) /\ phase'[t] = "idle" /\ op'[t] = ""
               /\ UNCHANGED <<db, stack, current, blocks, mixed>>
    <2>1. phase[t] = way.read /\ UNCHANGED <<proc, db, stack, current, blocks, mixed>>
      BY <1>5 DEF ReadRun, At
    <2>2. Done(t) \/ ((Proceed(t, "push") \/ Proceed(t, next)) /\ UNCHANGED <<op, depth>>)
      BY <1>5 DEF ReadRun
    <2> QED
      BY <1>1, <1>2, <2>1, <2>2, DoneOwn
  <1> QED
    BY <1>3, <1>4, <1>5

\* Of the blocks of the acting thread.
LEMMA OwnBlocks ==
    ASSUME TrackingTypeOK, NEW t \in Threads
    PROVE  /\ Len(blocks[t]) \in Nat
           /\ \A x : blocks' = [blocks EXCEPT ![t] = Append(@, x)]
                         => blocks'[t] = Append(blocks[t], x) /\ Len(blocks'[t]) = Len(blocks[t]) + 1
           /\ blocks[t] # <<>> /\ Leave(t) => blocks'[t] = Front(blocks[t]) /\ Len(blocks'[t]) = Len(blocks[t]) - 1
  <1>1. blocks[t] \in Seq(BlockRecords) /\ (blocks[t] # <<>> => Len(Front(blocks[t])) = Len(blocks[t]) - 1)
    BY FrontLast DEF TrackingTypeOK, BlockRecords
  <1>2. Len(blocks[t]) \in Nat
    BY <1>1
  <1>3. ASSUME NEW x, blocks' = [blocks EXCEPT ![t] = Append(@, x)]
        PROVE  blocks'[t] = Append(blocks[t], x) /\ Len(blocks'[t]) = Len(blocks[t]) + 1
    <2>1. blocks'[t] = Append(blocks[t], x)
      BY <1>3 DEF TrackingTypeOK
    <2> QED
      BY <1>1, <2>1
  <1>4. Leave(t) => blocks'[t] = Front(blocks[t])
    BY DEF Leave, TrackingTypeOK
  <1> QED
    BY <1>1, <1>2, <1>3, <1>4

LEMMA WithinNest ==
    ASSUME NEW m, NEW n \in Nat, (m = n + 1 /\ n < MaxNest) \/ ((m = n \/ m = n - 1) /\ n <= MaxNest)
    PROVE  m <= MaxNest
  BY Bounds

LEMMA TrackedOpsStep ==
    ASSUME TrackingTypeOK, TrackedOps, TrackingNext
    PROVE  TrackedOps'
  <1> USE DEF Creating
  <1>1. ASSUME NEW t \in Threads, ThreadStep(t) PROVE CallInOrder(t)'
    <2>1. CallInOrder(t) /\ phase[t] \in Phases /\ op[t] \in Ops /\ Len(blocks[t]) \in Nat
      BY OwnBlocks DEF TrackedOps, TrackingTypeOK
    <2>2. CASE SetExperiment(t)
      BY <2>1, <2>2, DoneOwn DEF SetExperiment, Call, CallInOrder, Phases, Ops
    <2>3. CASE GetExperimentByName(t) \/ CreateExperiment(t)
      <3>1. phase'[t] \in {"create", "assign"}
        BY <2>3, DoneOwn DEF GetExperimentByName, CreateExperiment, Phases
      <3>2. op' = op /\ blocks' = blocks /\ phase[t] \in {"byname", "create"}
        BY <2>3 DEF GetExperimentByName, CreateExperiment, At
      <3> QED
        BY <2>1, <3>1, <3>2 DEF CallInOrder
    <2>4. CASE AssignExperiment(t)
      BY <2>1, <2>4, DoneOwn DEF AssignExperiment, CallInOrder
    <2>5. CASE StartRun(t)
      BY <2>1, <2>5, DoneOwn DEF StartRun, CallInOrder, Ops
    <2>6. ASSUME NEW way \in {InProcess, ByHttp}, CheckExperiment(t, way) \/ InsertRun(t, way) \/ ReadRun(t, way)
          PROVE  CallInOrder(t)'
      <3>1. blocks' = blocks /\ phase[t] \in Creating
        BY <2>6, CreationOwn DEF Creating
      <3>2. \/ op' = op /\ phase'[t] \in {"insert", "reinsert", "push", "recheck"}
            \/ op' = op /\ phase'[t] \in {"read", "reread"} /\ callRun'[t] \in RunIds
            \/ phase'[t] = "idle" /\ op'[t] = ""
        BY <2>6, CreationOwn
      <3> QED
        BY <2>1, <3>1, <3>2 DEF CallInOrder, Creating
    <2>7. CASE PushRun(t)
      <3>1. CASE op[t] = "log"
        BY <2>1, <2>7, <3>1, DoneOwn DEF PushRun, At, CallInOrder, Phases
      <3>2. CASE op[t] \in {"with", "fit"}
        <4>1. phase'[t] = "idle" /\ op'[t] = "" /\ Len(blocks'[t]) = Len(blocks[t]) + 1
          BY <2>7, <3>2, DoneOwn, OwnBlocks DEF PushRun
        <4>2. Len(blocks[t]) < MaxNest
          BY <2>1, <3>2 DEF CallInOrder
        <4>3. Len(blocks'[t]) <= MaxNest
          BY <2>1, <4>1, <4>2, WithinNest
        <4> QED
          BY <4>1, <4>3 DEF CallInOrder
      <3>3. CASE op[t] \notin {"with", "fit", "log"}
        BY <2>1, <2>7, <3>3, DoneOwn DEF PushRun, CallInOrder
      <3> QED
        BY <3>1, <3>2, <3>3
    <2>8. CASE Log(t)
      <3>1. blocks' = blocks /\ op'[t] = "log" /\ phase'[t] \in {"write", "check"}
        BY <2>8, DoneOwn DEF Log, Phases, Ops
      <3> QED
        BY <2>1, <3>1 DEF CallInOrder
    <2>9. CASE ActiveRunAgain(t)
      BY <2>1, <2>9, DoneOwn DEF ActiveRunAgain, At, CallInOrder, Phases
    <2>10. CASE WriteLog(t)
      BY <2>1, <2>10, DoneOwn DEF WriteLog, CallInOrder
    <2>11. CASE Fit(t)
      <3>1. CASE StartsRun(t, "fit")
        BY <2>1, <2>11, <3>1, DoneOwn DEF Fit, CallInOrder, Ops
      <3>2. CASE ~StartsRun(t, "fit")
        <4>1. phase' = phase /\ op' = op /\ phase[t] = "idle" /\ Len(blocks'[t]) = Len(blocks[t]) + 1
              /\ Len(blocks[t]) < MaxNest
          BY <2>11, <3>2, OwnBlocks DEF Fit, Call, thread
        <4>2. Len(blocks'[t]) <= MaxNest
          BY <2>1, <4>1, WithinNest DEF CallInOrder
        <4>3. op[t] = ""
          BY <2>1, <4>1 DEF CallInOrder
        <4> QED
          BY <4>1, <4>2, <4>3 DEF CallInOrder
      <3> QED
        BY <3>1, <3>2
    <2>12. CASE ExitBlock(t)
      <3>1. CASE Leave(t) /\ UNCHANGED thread
        <4>1. phase' = phase /\ op' = op /\ phase[t] = "idle" /\ Len(blocks'[t]) = Len(blocks[t]) - 1
          BY <2>12, <3>1, OwnBlocks DEF ExitBlock, Call, thread
        <4>2. Len(blocks'[t]) <= MaxNest
          BY <2>1, <4>1, WithinNest DEF CallInOrder
        <4>3. op[t] = ""
          BY <2>1, <4>1 DEF CallInOrder
        <4> QED
          BY <4>1, <4>2, <4>3 DEF CallInOrder
      <3>2. CASE ~(Leave(t) /\ UNCHANGED thread)
        <4>1. Enter(t, "exit", "update") /\ blocks' = blocks /\ blocks[t] # <<>>
          BY <2>12, <3>2 DEF ExitBlock
        <4> QED
          BY <2>1, <4>1, DoneOwn DEF CallInOrder, Phases, Ops
      <3> QED
        BY <3>1, <3>2
    <2>13. CASE EndRun(t)
      BY <2>1, <2>13, DoneOwn DEF EndRun, CallInOrder, Phases, Ops
    <2>14. CASE UpdateRun(t)
      <3>1. phase'[t] = "idle" /\ op'[t] = ""
        BY <2>14, DoneOwn DEF UpdateRun
      <3>2. Len(blocks'[t]) = Len(blocks[t]) \/ Len(blocks'[t]) = Len(blocks[t]) - 1
        BY <2>1, <2>14, OwnBlocks DEF UpdateRun, CallInOrder
      <3>3. Len(blocks'[t]) <= MaxNest
        BY <2>1, <3>2, WithinNest DEF CallInOrder
      <3> QED
        BY <3>1, <3>3 DEF CallInOrder
    <2> QED
      BY <1>1, <2>2, <2>3, <2>4, <2>5, <2>6, <2>7, <2>8, <2>9, <2>10, <2>11, <2>12, <2>13, <2>14 DEF ThreadStep
  <1>2. ASSUME NEW t \in Threads, ThreadStep(t), NEW u \in Threads, u # t PROVE CallInOrder(u)'
    BY <1>2, OthersKeep DEF TrackedOps, CallInOrder
  <1>3. ASSUME Studio PROVE TrackedOps'
    BY <1>3, StudioQuiet DEF TrackedOps, CallInOrder, thread
  <1>4. ASSUME NEW p \in Processes, ProcessDies(p), NEW t \in Threads PROVE CallInOrder(t)'
    <2>1. CASE proc[t] = p
      <3>1. phase'[t] = "idle" /\ op'[t] = "" /\ blocks'[t] = <<>>
        BY <1>4, <2>1, Survivors
      <3>2. Len(blocks'[t]) <= MaxNest
        <4>1. Len(<<>>) = 0 /\ 0 <= MaxNest
          BY Bounds
        <4> QED
          BY <3>1, <4>1
      <3> QED
        BY <3>1, <3>2 DEF CallInOrder, Creating
    <2>2. CASE proc[t] # p
      BY <1>4, <2>2, Survivors DEF TrackedOps, CallInOrder
    <2> QED
      BY <2>1, <2>2
  <1> QED
    BY <1>1, <1>2, <1>3, <1>4 DEF TrackingNext, TrackedOps

-----------------------------------------------------------------------------
(* One fit at a time. *)

LEMMA OnlyMark ==
    ASSUME TrackingTypeOK, FitInv, NEW t \in Threads
    PROVE  /\ depth[proc[t]] = 0 => \A i \in Nat : ~FitMark(t, i)
           /\ \A k \in Nat : FitMark(t, k) => depth[proc[t]] = 1 /\ \A i \in Nat : FitMark(t, i) => i = k
  <1>1. proc[t] \in Processes
    BY DEF TrackingTypeOK
  <1>2. \A i \in Nat : FitMark(t, i) => <<t, i>> \in FitMarks(proc[t])
    BY DEF FitMarks
  <1>3. \/ depth[proc[t]] = 0 /\ FitMarks(proc[t]) = {}
        \/ depth[proc[t]] = 1 /\ \E m \in Threads \X Nat : FitMarks(proc[t]) = {m}
    BY <1>1 DEF FitInv
  <1>4. ASSUME NEW k \in Nat, FitMark(t, k)
        PROVE  depth[proc[t]] = 1 /\ \A i \in Nat : FitMark(t, i) => i = k
    <2>1. <<t, k>> \in FitMarks(proc[t])
      BY <1>2, <1>4
    <2>2. PICK m \in Threads \X Nat : FitMarks(proc[t]) = {m}
      BY <1>3, <2>1
    <2>3. \A i \in Nat : FitMark(t, i) => <<t, i>> = <<t, k>>
      BY <1>2, <2>1, <2>2
    <2> QED
      BY <1>3, <2>1, <2>3
  <1>5. ASSUME depth[proc[t]] = 0
        PROVE  \A i \in Nat : ~FitMark(t, i)
    <2>1. FitMarks(proc[t]) = {}
      BY <1>3, <1>5
    <2> QED
      BY <1>2, <2>1
  <1> QED
    BY <1>4, <1>5

\* A fit of thread t begins at the mark l, goes on at it, or ends.
FitMoves(t) ==
    LET q == proc[t] IN
    \/ depth'[q] = depth[q] /\ \A i \in Nat : FitMark(t, i)' <=> FitMark(t, i)
    \/ depth[q] = 0 /\ depth'[q] = 1 /\ \E l \in Nat : \A i \in Nat : FitMark(t, i)' <=> i = l
    \/ /\ depth'[q] = depth[q] /\ \E k \in Nat : FitMark(t, k)
       /\ \E l \in Nat : \A i \in Nat : FitMark(t, i)' <=> i = l
    \/ depth[q] = 1 /\ depth'[q] = 0 /\ (\E k \in Nat : FitMark(t, k)) /\ \A i \in Nat : ~FitMark(t, i)'

LEMMA FitKept ==
    ASSUME TrackingTypeOK, FitInv, NEW t \in Threads, proc' = proc, FitMoves(t),
           \A p \in Processes : p # proc[t] => depth'[p] = depth[p],
           \A u \in Threads, i \in Nat : u # t => (FitMark(u, i)' <=> FitMark(u, i))
    PROVE  FitInv'
  <1> SUFFICES ASSUME NEW p \in Processes
               PROVE  \/ depth'[p] = 0 /\ FitMarks(p)' = {}
                      \/ depth'[p] = 1 /\ \E m \in Threads \X Nat : FitMarks(p)' = {m}
    BY DEF FitInv
  <1>1. /\ FitMarks(p) = {m \in Threads \X Nat : proc[m[1]] = p /\ FitMark(m[1], m[2])}
        /\ FitMarks(p)' = {m \in Threads \X Nat : proc[m[1]] = p /\ FitMark(m[1], m[2])'}
    BY DEF FitMarks
  <1>2. \A m \in Threads \X Nat : m = <<m[1], m[2]>> /\ m[1] \in Threads /\ m[2] \in Nat
    OBVIOUS
  <1>3. \/ depth[p] = 0 /\ FitMarks(p) = {}
        \/ depth[p] = 1 /\ \E m \in Threads \X Nat : FitMarks(p) = {m}
    BY DEF FitInv
  <1>4. CASE p # proc[t]
    <2>1. depth'[p] = depth[p] /\ FitMarks(p)' = FitMarks(p)
      BY <1>1, <1>2, <1>4
    <2> QED
      BY <1>3, <2>1
  <1>5. CASE p = proc[t] /\ depth'[p] = depth[p] /\ \A i \in Nat : FitMark(t, i)' <=> FitMark(t, i)
    <2>1. FitMarks(p)' = FitMarks(p)
      BY <1>1, <1>2, <1>5
    <2> QED
      BY <1>3, <1>5, <2>1
  <1>6. ASSUME p = proc[t], NEW k \in Nat, FitMark(t, k) PROVE depth[p] = 1 /\ FitMarks(p) = {<<t, k>>}
    <2>1. <<t, k>> \in FitMarks(p)
      BY <1>1, <1>6
    <2> QED
      BY <1>3, <2>1
  <1>alone. ASSUME FitMarks(p) \subseteq {t} \X Nat
         PROVE  \A u \in Threads, i \in Nat : u # t /\ proc[u] = p => ~FitMark(u, i)
    <2> SUFFICES ASSUME NEW u \in Threads, NEW i \in Nat, u # t, proc[u] = p, FitMark(u, i) PROVE FALSE
      OBVIOUS
    <2>1. <<u, i>> \in FitMarks(p)
      BY <1>1
    <2> QED
      BY <1>alone, <2>1
  <1>7. ASSUME p = proc[t], FitMarks(p) \subseteq {t} \X Nat, NEW l \in Nat, \A i \in Nat : FitMark(t, i)' <=> i = l
        PROVE  FitMarks(p)' = {<<t, l>>}
    <2>1. \A u \in Threads, i \in Nat : u # t /\ proc[u] = p => ~FitMark(u, i)
      BY <1>7, <1>alone
    <2>2. \A m \in FitMarks(p)' : m = <<t, l>>
      BY <1>1, <1>2, <1>7, <2>1
    <2>3. <<t, l>> \in FitMarks(p)'
      <3>1. FitMark(t, l)' /\ <<t, l>> \in Threads \X Nat
        BY <1>7
      <3> QED
        BY <1>1, <1>7, <3>1
    <2> QED
      BY <2>2, <2>3
  <1>8. CASE p = proc[t] /\ depth[p] = 0 /\ depth'[p] = 1 /\ \E l \in Nat : \A i \in Nat : FitMark(t, i)' <=> i = l
    <2>1. FitMarks(p) \subseteq {t} \X Nat
      BY <1>3, <1>8
    <2> QED
      BY <1>7, <1>8, <2>1
  <1>9. CASE /\ p = proc[t] /\ depth'[p] = depth[p] /\ \E k \in Nat : FitMark(t, k)
             /\ \E l \in Nat : \A i \in Nat : FitMark(t, i)' <=> i = l
    <2>1. depth[p] = 1 /\ FitMarks(p) \subseteq {t} \X Nat
      BY <1>6, <1>9
    <2> QED
      BY <1>7, <1>9, <2>1
  <1>10. CASE p = proc[t] /\ depth'[p] = 0 /\ (\E k \in Nat : FitMark(t, k)) /\ \A i \in Nat : ~FitMark(t, i)'
    <2>1. FitMarks(p) \subseteq {t} \X Nat
      BY <1>6, <1>10
    <2>2. \A u \in Threads, i \in Nat : u # t /\ proc[u] = p => ~FitMark(u, i)
      BY <1>alone, <2>1
    <2>3. FitMarks(p)' = {}
      BY <1>1, <1>2, <1>10, <2>2
    <2> QED
      BY <1>10, <2>3
  <1> QED
    BY <1>4, <1>5, <1>8, <1>9, <1>10 DEF FitMoves

\* Blocks that are entered and left.
LEMMA EnteredMark ==
    ASSUME TrackingTypeOK, NEW t \in Threads, NEW x \in BlockRecords, blocks' = [blocks EXCEPT ![t] = Append(@, x)],
           op'[t] # "fit"
    PROVE  /\ x.kind = "with" /\ op[t] # "fit" => \A i \in Nat : FitMark(t, i)' <=> FitMark(t, i)
           /\ x.kind # "with" /\ (\A i \in Nat : FitMark(t, i) => i = 0)
                => \E l \in Nat : \A i \in Nat : FitMark(t, i)' <=> i = l
  <1> DEFINE b == blocks[t]
             c == Append(b, x)
  <1>1. b \in Seq(BlockRecords)
    BY DEF TrackingTypeOK, BlockRecords
  <1>2. /\ DOMAIN b = 1 .. Len(b) /\ DOMAIN c = 1 .. Len(b) + 1 /\ Len(b) \in Nat /\ c[Len(b) + 1] = x
        /\ \A i \in 1 .. Len(b) : c[i] = b[i]
    BY <1>1, AppendLast
  <1>3. blocks'[t] = c
    BY DEF TrackingTypeOK
  <1>4. \A i \in Nat : /\ FitMark(t, i) <=> (i = 0 /\ op[t] = "fit") \/ (i \in 1 .. Len(b) /\ b[i].kind # "with")
                       /\ FitMark(t, i)' <=> i \in 1 .. Len(b) + 1 /\ c[i].kind # "with"
    BY <1>2, <1>3 DEF FitMark
  <1> HIDE DEF b, c
  <1>5. \A i \in Nat : i \in 1 .. Len(b) + 1 <=> i \in 1 .. Len(b) \/ i = Len(b) + 1
    BY <1>2
  <1>6. \A i \in Nat : FitMark(t, i)' <=> (i \in 1 .. Len(b) /\ b[i].kind # "with") \/ (i = Len(b) + 1 /\ x.kind # "with")
    BY <1>2, <1>4, <1>5
  <1>7. ASSUME x.kind # "with", \A i \in Nat : FitMark(t, i) => i = 0
        PROVE  \E l \in Nat : \A i \in Nat : FitMark(t, i)' <=> i = l
    <2>1. \A i \in Nat : ~(i \in 1 .. Len(b) /\ b[i].kind # "with")
      BY <1>2, <1>4, <1>7
    <2>2. \A i \in Nat : FitMark(t, i)' <=> i = Len(b) + 1
      BY <1>6, <1>7, <2>1
    <2>3. Len(b) + 1 \in Nat
      BY <1>2
    <2> QED
      BY <2>2, <2>3
  <1>8. ASSUME x.kind = "with", op[t] # "fit" PROVE \A i \in Nat : FitMark(t, i)' <=> FitMark(t, i)
    BY <1>4, <1>6, <1>8
  <1> QED
    BY <1>7, <1>8

LEMMA LeftMark ==
    ASSUME TrackingTypeOK, NEW t \in Threads, blocks[t] # <<>>, Leave(t), op[t] # "fit", op'[t] # "fit"
    PROVE  /\ Last(blocks[t]).kind = "with" => \A i \in Nat : FitMark(t, i)' <=> FitMark(t, i)
           /\ Last(blocks[t]).kind # "with" => \E k \in Nat : FitMark(t, k) /\ \A i \in Nat : FitMark(t, i)' => FitMark(t, i) /\ i # k
  <1> DEFINE b == blocks[t]
             c == Front(b)
  <1>1. b \in Seq(BlockRecords)
    BY DEF TrackingTypeOK, BlockRecords
  <1>2. /\ DOMAIN b = 1 .. Len(b) /\ DOMAIN c = 1 .. Len(b) - 1 /\ Len(b) \in Nat /\ Len(b) >= 1 /\ Last(b) = b[Len(b)]
        /\ \A i \in 1 .. Len(b) - 1 : c[i] = b[i]
    <2>1. /\ DOMAIN b = 1 .. Len(b) /\ c \in Seq(BlockRecords) /\ Len(c) = Len(b) - 1 /\ Len(b) \in Nat /\ Len(b) >= 1
          /\ Last(b) = b[Len(b)] /\ \A i \in 1 .. Len(b) - 1 : c[i] = b[i]
      BY <1>1, FrontLast
    <2>2. DOMAIN c = 1 .. Len(c)
      BY <2>1
    <2> QED
      BY <2>1, <2>2
  <1>3. blocks'[t] = c
    BY DEF TrackingTypeOK, Leave
  <1>4. \A i \in Nat : /\ FitMark(t, i) <=> i \in 1 .. Len(b) /\ b[i].kind # "with"
                       /\ FitMark(t, i)' <=> i \in 1 .. Len(b) - 1 /\ c[i].kind # "with"
    BY <1>2, <1>3 DEF FitMark
  <1> HIDE DEF b, c
  <1>5. \A i \in Nat : i \in 1 .. Len(b) - 1 <=> i \in 1 .. Len(b) /\ i # Len(b)
    <2>1. \A n, i \in Nat : i \in 1 .. n - 1 <=> i \in 1 .. n /\ i # n
      OBVIOUS
    <2> QED
      BY <1>2, <2>1
  <1>6. \A i \in Nat : FitMark(t, i)' <=> FitMark(t, i) /\ i # Len(b)
    BY <1>2, <1>4, <1>5
  <1>7. FitMark(t, Len(b)) <=> Last(b).kind # "with"
    BY <1>2, <1>4
  <1>8. (Last(b).kind = "with" => \A i \in Nat : FitMark(t, i)' <=> FitMark(t, i))
        /\ (Last(b).kind # "with" => \E k \in Nat : FitMark(t, k) /\ \A i \in Nat : FitMark(t, i)' => FitMark(t, i) /\ i # k)
    BY <1>2, <1>6, <1>7
  <1> QED
    BY <1>8 DEF b

LEMMA LeaveFit ==
    ASSUME TrackingTypeOK, FitInv, NEW t \in Threads, blocks[t] # <<>>, Leave(t), op[t] # "fit", op'[t] # "fit"
    PROVE  FitMoves(t) /\ \A p \in Processes : p # proc[t] => depth'[p] = depth[p]
  <1>1. depth \in [Processes -> Nat] /\ proc[t] \in Processes
    BY DEF TrackingTypeOK
  <1>2. CASE Last(blocks[t]).kind = "with"
    BY <1>2, LeftMark DEF Leave, FitMoves
  <1>3. CASE Last(blocks[t]).kind # "with"
    <2>1. PICK k \in Nat : FitMark(t, k) /\ \A i \in Nat : FitMark(t, i)' => FitMark(t, i) /\ i # k
      BY <1>3, LeftMark
    <2>2. depth[proc[t]] = 1 /\ \A i \in Nat : ~FitMark(t, i)'
      BY <2>1, OnlyMark
    <2>3. depth' = [depth EXCEPT ![proc[t]] = @ - 1]
      BY <1>3 DEF Leave
    <2>4. depth'[proc[t]] = 0 /\ \A p \in Processes : p # proc[t] => depth'[p] = depth[p]
      BY <1>1, <2>2, <2>3
    <2> QED
      BY <2>1, <2>2, <2>4 DEF FitMoves
  <1> QED
    BY <1>2, <1>3

LEMMA FitInvStep ==
    ASSUME TrackingTypeOK, TrackedOps, FitInv, TrackingNext
    PROVE  FitInv'
  <1>1. ASSUME NEW t \in Threads, ThreadStep(t) PROVE FitInv'
    <2>1. CallInOrder(t) /\ phase[t] \in Phases /\ op[t] \in Ops
      BY DEF TrackedOps, TrackingTypeOK
    <2>2. /\ \A u \in Threads, i \in Nat : u # t => (FitMark(u, i)' <=> FitMark(u, i))
          /\ proc' = proc
      <3>1. \A u \in Threads \ {t} : op'[u] = op[u] /\ blocks'[u] = blocks[u] /\ proc' = proc
        BY <1>1, OthersKeep
      <3>2. proc' = proc
        BY <1>1 DEF ThreadStep, SetExperiment, GetExperimentByName, CreateExperiment, AssignExperiment, StartRun, CheckExperiment,
             InsertRun, ReadRun, PushRun, Log, ActiveRunAgain, WriteLog, Fit, ExitBlock, EndRun, UpdateRun, Call, At
      <3> QED
        BY <3>1, <3>2 DEF FitMark
    <2>3. FitMoves(t) /\ (\A p \in Processes : p # proc[t] => depth'[p] = depth[p]) => FitInv'
      BY <2>2, FitKept
    <2> DEFINE Calm == /\ depth' = depth /\ blocks' = blocks
                       /\ op'[t] = "fit" <=> op[t] = "fit"
    <2>4. Calm => FitInv'
      BY <2>3 DEF FitMoves, FitMark
    <2>5. CASE SetExperiment(t)
      BY <2>1, <2>4, <2>5, DoneOwn DEF SetExperiment, Call, CallInOrder, Phases, Ops, shim
    <2>6. CASE GetExperimentByName(t) \/ CreateExperiment(t)
      BY <2>4, <2>6 DEF GetExperimentByName, CreateExperiment, shim
    <2>create. ASSUME NEW way \in {InProcess, ByHttp}, CheckExperiment(t, way) \/ InsertRun(t, way) PROVE FitInv'
      <3>1. UNCHANGED <<op, depth, blocks>>
        BY <2>create, CreationOwn
      <3> QED
        BY <2>4, <3>1
    <2>read. ASSUME NEW way \in {InProcess, ByHttp}, ReadRun(t, way) PROVE FitInv'
      <3>1. blocks' = blocks
        BY <2>read, CreationOwn
      <3>2. CASE UNCHANGED <<op, depth>>
        BY <2>4, <3>1, <3>2
      <3>3. CASE ~UNCHANGED <<op, depth>>
        <4>1. op'[t] = "" /\ depth' = IF op[t] = "fit" THEN [depth EXCEPT ![proc[t]] = @ - 1] ELSE depth
          <5>1. op'[t] = ""
            BY <2>read, <3>3, CreationOwn
          <5>2. depth' = IF op[t] = "fit" THEN [depth EXCEPT ![proc[t]] = @ - 1] ELSE depth
            BY <2>read, <3>3 DEF ReadRun
          <5> QED
            BY <5>1, <5>2
        <4>2. CASE op[t] # "fit"
          BY <2>4, <3>1, <4>1, <4>2
        <4>3. CASE op[t] = "fit"
          <5>1. FitMark(t, 0) /\ depth[proc[t]] = 1
            BY <4>3, StartedDepth DEF FitMark
          <5>2. \A k \in Nat : FitMark(t, k) => k = 0
            BY <5>1, OnlyMark
          <5>3. 0 \notin DOMAIN blocks[t]
            <6>1. blocks[t] \in Seq(BlockRecords)
              BY DEF TrackingTypeOK, BlockRecords
            <6> QED
              BY <6>1
          <5>4. \A k \in Nat : ~FitMark(t, k)'
            BY <3>1, <4>1, <5>2, <5>3 DEF FitMark
          <5>5. depth'[proc[t]] = 0 /\ \A p \in Processes : p # proc[t] => depth'[p] = depth[p]
            <6>1. depth \in [Processes -> Nat] /\ proc[t] \in Processes /\ depth' = [depth EXCEPT ![proc[t]] = @ - 1]
              BY <4>1, <4>3 DEF TrackingTypeOK
            <6> QED
              BY <5>1, <6>1
          <5> QED
            BY <2>3, <5>1, <5>4, <5>5 DEF FitMoves
        <4> QED
          BY <4>2, <4>3
      <3> QED
        BY <3>2, <3>3
    <2>7. CASE AssignExperiment(t)
      BY <2>1, <2>4, <2>7, DoneOwn DEF AssignExperiment, At, CallInOrder
    <2>8. CASE StartRun(t)
      <3>1. phase[t] = "idle" /\ UNCHANGED depth /\ (StartsRun(t, "with") \/ StartsRun(t, "bare"))
        BY <2>8 DEF StartRun, Call
      <3>2. op'[t] # "fit" /\ op[t] # "fit" /\ blocks' = blocks
        BY <2>1, <3>1, DoneOwn DEF Ops, CallInOrder
      <3> QED
        BY <2>4, <3>1, <3>2
    <2>9. CASE PushRun(t)
      <3>1. depth' = depth /\ phase[t] = "push"
        BY <2>9 DEF PushRun, At
      <3>2. CASE op[t] \notin {"with", "fit"}
        <4>1. op'[t] # "fit" /\ blocks' = blocks
          BY <2>9, <3>2, DoneOwn DEF PushRun
        <4> QED
          BY <2>4, <3>1, <3>2, <4>1
      <3>3. CASE op[t] \in {"with", "fit"}
        <4> DEFINE x == [run |-> callRun[t], kind |-> op[t]]
        <4>1. x \in BlockRecords /\ x.kind = op[t] /\ op'[t] # "fit" /\ blocks' = [blocks EXCEPT ![t] = Append(@, x)]
          BY <2>9, <3>3, DoneOwn DEF PushRun, BlockRecords, Kinds, TrackingTypeOK
        <4> HIDE DEF x
        <4>2. CASE op[t] = "with"
          <5>1. \A i \in Nat : FitMark(t, i)' <=> FitMark(t, i)
            BY <4>1, <4>2, EnteredMark
          <5> QED
            BY <2>3, <3>1, <5>1 DEF FitMoves
        <4>3. CASE op[t] = "fit"
          <5>1. FitMark(t, 0) /\ 0 \in Nat
            BY <4>3 DEF FitMark
          <5>2. \A i \in Nat : FitMark(t, i) => i = 0
            BY <5>1, OnlyMark
          <5>3. \E l \in Nat : \A i \in Nat : FitMark(t, i)' <=> i = l
            BY <4>1, <4>3, <5>2, EnteredMark
          <5> QED
            BY <2>3, <3>1, <5>1, <5>3 DEF FitMoves
        <4> QED
          BY <3>3, <4>2, <4>3
      <3> QED
        BY <3>2, <3>3
    <2>10. CASE Log(t)
      <3>1. phase[t] = "idle" /\ UNCHANGED depth /\ op'[t] = "log" /\ blocks' = blocks
        BY <2>10, DoneOwn DEF Log, Call, Phases, Ops
      <3> QED
        BY <2>1, <2>4, <3>1 DEF CallInOrder
    <2>11. CASE ActiveRunAgain(t) \/ WriteLog(t)
      <3>1. phase[t] \in {"top", "write"} /\ depth' = depth /\ blocks' = blocks /\ (op' = op \/ op'[t] = "")
        BY <2>11, DoneOwn DEF ActiveRunAgain, WriteLog, At, shim
      <3> QED
        BY <2>1, <2>4, <3>1 DEF CallInOrder
    <2>12. CASE Fit(t)
      <3>1. /\ depth[proc[t]] = 0 /\ depth'[proc[t]] = 1 /\ phase[t] = "idle"
            /\ \A p \in Processes : p # proc[t] => depth'[p] = depth[p]
        <4>1. depth \in [Processes -> Nat] /\ proc[t] \in Processes
          BY DEF TrackingTypeOK
        <4>2. depth[proc[t]] = 0 /\ depth' = [depth EXCEPT ![proc[t]] = @ + 1] /\ phase[t] = "idle"
          BY <2>12 DEF Fit, Call
        <4> QED
          BY <4>1, <4>2
      <3>2. op[t] = "" /\ \A i \in Nat : ~FitMark(t, i)
        BY <2>1, <3>1, OnlyMark DEF CallInOrder
      <3>3. \E l \in Nat : \A i \in Nat : FitMark(t, i)' <=> i = l
        <4>1. CASE StartsRun(t, "fit")
          <5>1. op'[t] = "fit" /\ blocks' = blocks
            BY <4>1, DoneOwn DEF Ops
          <5>2. \A i \in Nat : FitMark(t, i)' <=> i = 0
            BY <3>2, <5>1 DEF FitMark
          <5> QED
            BY <5>2
        <4>2. CASE ~StartsRun(t, "fit")
          <5>1. blocks' = [blocks EXCEPT ![t] = Append(@, Borrowed(t))] /\ op' = op /\ Stack(t) # <<>>
            BY <2>12, <4>2 DEF Fit, thread
          <5>2. Borrowed(t) \in BlockRecords /\ Borrowed(t).kind # "with"
            BY <5>1, PopType DEF Borrowed, BlockRecords, Kinds
          <5> QED
            BY <3>2, <5>1, <5>2, EnteredMark
        <4> QED
          BY <4>1, <4>2
      <3> QED
        BY <2>3, <3>1, <3>3 DEF FitMoves
    <2>13. CASE ExitBlock(t)
      <3>1. phase[t] = "idle" /\ op[t] = "" /\ blocks[t] # <<>>
        BY <2>1, <2>13 DEF ExitBlock, Call, CallInOrder
      <3>2. CASE Leave(t) /\ UNCHANGED thread
        BY <2>3, <3>1, <3>2, LeaveFit DEF thread
      <3>3. CASE ~(Leave(t) /\ UNCHANGED thread)
        <4>1. Enter(t, "exit", "update") /\ depth' = depth /\ blocks' = blocks
          BY <2>13, <3>3 DEF ExitBlock
        <4> QED
          BY <2>4, <3>1, <4>1, DoneOwn DEF Phases, Ops
      <3> QED
        BY <3>2, <3>3
    <2>14. CASE EndRun(t)
      <3>1. phase[t] = "idle" /\ op[t] = "" /\ op'[t] = "end" /\ depth' = depth /\ blocks' = blocks
        BY <2>1, <2>14, DoneOwn DEF EndRun, Call, CallInOrder, Phases, Ops
      <3> QED
        BY <2>4, <3>1
    <2>15. CASE UpdateRun(t)
      <3>1. op[t] \in {"exit", "end"} /\ op'[t] = "" /\ (op[t] = "exit" => blocks[t] # <<>>)
        BY <2>1, <2>15, DoneOwn DEF UpdateRun, At, CallInOrder
      <3>2. CASE op[t] = "exit"
        BY <2>3, <2>15, <3>1, <3>2, LeaveFit DEF UpdateRun
      <3>3. CASE op[t] # "exit"
        BY <2>4, <2>15, <3>1, <3>3 DEF UpdateRun
      <3> QED
        BY <3>2, <3>3
    <2> QED
      BY <1>1, <2>5, <2>6, <2>create, <2>read, <2>7, <2>8, <2>9, <2>10, <2>11, <2>12, <2>13, <2>14, <2>15 DEF ThreadStep
  <1>2. ASSUME Studio PROVE FitInv'
    <2>1. UNCHANGED <<depth, proc, op, blocks>>
      BY <1>2, StudioQuiet DEF shim, thread
    <2>2. \A p \in Processes : FitMarks(p)' = FitMarks(p)
      BY <2>1 DEF FitMarks, FitMark
    <2> QED
      BY <2>1, <2>2 DEF FitInv
  <1>3. ASSUME NEW p \in Processes, ProcessDies(p) PROVE FitInv'
    <2>1. depth'[p] = 0 /\ \A q \in Processes : q # p => depth'[q] = depth[q]
      BY <1>3 DEF ProcessDies, TrackingTypeOK
    <2>2. proc' = proc
      BY <1>3 DEF ProcessDies
    <2>3. ASSUME NEW t \in Threads, NEW k \in Nat
          PROVE  /\ proc[t] = p => ~FitMark(t, k)'
                 /\ proc[t] # p => (FitMark(t, k)' <=> FitMark(t, k))
      <3>1. DOMAIN <<>> = {}
        OBVIOUS
      <3>2. proc[t] = p => op'[t] = "" /\ blocks'[t] = <<>>
        BY <1>3, Survivors
      <3>3. proc[t] # p => op'[t] = op[t] /\ blocks'[t] = blocks[t]
        BY <1>3, Survivors
      <3> QED
        BY <3>1, <3>2, <3>3 DEF FitMark
    <2>4. FitMarks(p)' = {} /\ \A q \in Processes : q # p => FitMarks(q)' = FitMarks(q)
      BY <2>2, <2>3 DEF FitMarks
    <2> QED
      BY <2>1, <2>4 DEF FitInv
  <1> QED
    BY <1>1, <1>2, <1>3 DEF TrackingNext

-----------------------------------------------------------------------------
(* RUNNING runs are in somebody's hands. *)

InHands(t) == phase[t] \in Hands

LEMMA RunningMoves ==
    ASSUME TrackingTypeOK, RunningInv, NEW t \in Threads,
           \A u \in Threads : u # t => phase'[u] = phase[u] /\ callRun'[u] = callRun[u],
           RunRows \subseteq RunRows', lost \subseteq lost',
           \A p \in Processes : \A r \in ToSet(stack[p]) : r \in ToSet(stack'[p]) \/ (InHands(t)' /\ r = callRun'[t]),
           InHands(t) => \/ \E p \in Processes : callRun[t] \in ToSet(stack'[p])
                         \/ callRun[t] \in lost' \/ callRun[t] \notin RunRows \/ status'[callRun[t]] # "RUNNING"
                         \/ InHands(t)' /\ callRun'[t] = callRun[t],
           \A r \in RunIds : status'[r] = "RUNNING" => \/ status[r] = "RUNNING"
                                                       \/ r \in RunRows' /\ InHands(t)' /\ r = callRun'[t]
    PROVE  RunningInv'
  <1> SUFFICES ASSUME NEW r \in RunIds, status'[r] = "RUNNING"
               PROVE  r \in RunRows' /\ (r \in OnStack' \/ r \in AtStart' \/ r \in lost')
    BY DEF RunningInv
  <1>1. InHands(t)' /\ r = callRun'[t] => r \in AtStart'
    BY DEF AtStart, InHands
  <1>2. CASE r \in RunRows' /\ InHands(t)' /\ r = callRun'[t]
    BY <1>1, <1>2
  <1>3. CASE status[r] = "RUNNING"
    <2>1. r \in RunRows /\ (r \in OnStack \/ r \in AtStart \/ r \in lost)
      BY <1>3 DEF RunningInv
    <2>2. CASE r \in OnStack
      <3>1. PICK p \in Processes : r \in ToSet(stack[p])
        BY <2>2 DEF OnStack
      <3>2. r \in ToSet(stack'[p]) \/ r \in AtStart'
        BY <1>1, <3>1
      <3> QED
        BY <2>1, <3>2 DEF OnStack
    <2>3. CASE r \in AtStart
      <3>1. PICK u \in Threads : phase[u] \in Hands /\ r = callRun[u]
        BY <2>3 DEF AtStart
      <3>2. CASE u = t
        BY <1>1, <2>1, <3>1, <3>2 DEF InHands, OnStack
      <3>3. CASE u # t
        <4>1. phase'[u] \in Hands /\ r = callRun'[u]
          BY <3>1, <3>3
        <4> QED
          BY <2>1, <4>1 DEF AtStart
      <3> QED
        BY <3>2, <3>3
    <2> QED
      BY <2>1, <2>2, <2>3
  <1> QED
    BY <1>2, <1>3

LEMMA RunningInvStep ==
    ASSUME TrackingTypeOK, TrackingNext, RunningInv
    PROVE  RunningInv'
  <1>1. ASSUME NEW t \in Threads, ThreadStep(t) PROVE RunningInv'
    <2>1. \A u \in Threads : u # t => phase'[u] = phase[u] /\ callRun'[u] = callRun[u]
      BY <1>1, OthersKeep
    <2> DEFINE Calm == ~InHands(t) /\ UNCHANGED <<stack, status, runExp, lost>>
    <2>2. Calm => RunningInv'
      BY <2>1, RunningMoves DEF RunRows
    <2>3. CASE SetExperiment(t) \/ GetExperimentByName(t) \/ CreateExperiment(t) \/ AssignExperiment(t)
      BY <2>2, <2>3 DEF SetExperiment, GetExperimentByName, CreateExperiment, AssignExperiment, Call, At, InHands, Hands, db, shim, trackHistory
    <2>4. CASE StartRun(t)
      BY <2>2, <2>4 DEF StartRun, StartsRun, Call, InHands, Hands, db, trackHistory
    <2>check. ASSUME NEW way \in {InProcess, ByHttp}, CheckExperiment(t, way) PROVE RunningInv'
      <3>1. ~InHands(t)
        BY <2>check, CreationOwn DEF InHands, Hands
      <3>2. UNCHANGED <<stack, status, runExp, lost>>
        BY <2>check DEF CheckExperiment, db, shim, trackHistory
      <3> QED
        BY <2>2, <3>1, <3>2
    <2>5. ASSUME NEW way \in {InProcess, ByHttp}, InsertRun(t, way) PROVE RunningInv'
      <3>1. PICK r \in RunIds \ RunRows :
              /\ runExp' = [runExp EXCEPT ![r] = exp[t]] /\ status' = [status EXCEPT ![r] = "RUNNING"]
              /\ callRun' = [callRun EXCEPT ![t] = r]
        BY <2>5 DEF InsertRun
      <3>2. /\ ~InHands(t) /\ InHands(t)' /\ callRun'[t] = r /\ UNCHANGED <<stack, lost>>
        <4>1. callRun'[t] = r
          BY <3>1 DEF TrackingTypeOK
        <4>2. UNCHANGED <<stack, lost>>
          BY <2>5 DEF InsertRun, shim, trackHistory
        <4>3. ~InHands(t) /\ InHands(t)'
          BY <2>5, CreationOwn DEF InHands, Hands
        <4> QED
          BY <4>1, <4>2, <4>3
      <3>3. exp[t] # -1
        <4>1. -1 \notin Exps
          BY Bounds DEF Exps
        <4> QED
          BY <4>1 DEF TrackingTypeOK
      <3>4. RunRows \subseteq RunRows' /\ r \in RunRows'
        BY <3>1, <3>3 DEF RunRows, TrackingTypeOK
      <3>5. \A q \in RunIds : status'[q] = "RUNNING" => status[q] = "RUNNING" \/ q = r
        BY <3>1 DEF TrackingTypeOK
      <3> QED
        BY <2>1, <3>2, <3>4, <3>5, RunningMoves
    <2>read. ASSUME NEW way \in {InProcess, ByHttp}, ReadRun(t, way) PROVE RunningInv'
      <3>1. UNCHANGED <<status, runExp, stack>>
        BY <2>read DEF ReadRun, db
      <3>2. lost \subseteq lost' /\ (callRun[t] \in lost' \/ (Proceed(t, "push") /\ UNCHANGED callRun))
        BY <2>read DEF ReadRun
      <3>3. callRun[t] \in lost' \/ (InHands(t)' /\ callRun'[t] = callRun[t])
        BY <3>2, DoneOwn DEF InHands, Hands, Phases
      <3> QED
        BY <2>1, <3>1, <3>2, <3>3, RunningMoves DEF RunRows
    <2>6. CASE PushRun(t)
      <3>1. proc[t] \in Processes /\ stack \in [Processes -> Seq(Handles)] /\ callRun[t] \in Handles
        BY DEF TrackingTypeOK
      <3>2. stack' = [stack EXCEPT ![proc[t]] = Append(@, callRun[t])] /\ UNCHANGED <<status, runExp, lost>>
        BY <2>6 DEF PushRun, Push, db
      <3>3. ToSet(stack[proc[t]]) \cup {callRun[t]} \subseteq ToSet(stack'[proc[t]])
        BY <3>1, <3>2, PushPop
      <3>4. \A p \in Processes : ToSet(stack[p]) \subseteq ToSet(stack'[p])
        BY <3>1, <3>2, <3>3
      <3> QED
        BY <2>1, <3>1, <3>2, <3>3, <3>4, RunningMoves DEF RunRows
    <2>7. CASE Log(t) \/ ActiveRunAgain(t) \/ WriteLog(t)
      BY <2>2, <2>7 DEF Log, StartsRun, ActiveRunAgain, WriteLog, Call, At, InHands, Hands, db, shim, trackHistory
    <2>8. CASE Fit(t)
      BY <2>2, <2>8 DEF Fit, StartsRun, Call, InHands, Hands, db, trackHistory
    <2>9. ASSUME PopRun(t), Stack(t) # <<>>, phase[t] = "idle", phase'[t] = "update", UNCHANGED <<status, runExp, lost>>
          PROVE  RunningInv'
      <3>1. proc[t] \in Processes /\ stack \in [Processes -> Seq(Handles)]
        BY DEF TrackingTypeOK
      <3>2. stack' = [stack EXCEPT ![proc[t]] = Front(@)] /\ callRun'[t] = Last(stack[proc[t]]) /\ stack[proc[t]] # <<>>
        BY <2>9 DEF PopRun, ActiveRun, Stack, TrackingTypeOK
      <3>3. ToSet(stack[proc[t]]) \subseteq ToSet(stack'[proc[t]]) \cup {callRun'[t]}
        BY <3>1, <3>2, PushPop
      <3>4. \A p \in Processes : \A r \in ToSet(stack[p]) : r \in ToSet(stack'[p]) \/ r = callRun'[t]
        BY <3>1, <3>2, <3>3
      <3>5. InHands(t)' /\ ~InHands(t) /\ RunRows' = RunRows
        BY <2>9 DEF InHands, Hands, RunRows
      <3> QED
        BY <2>1, <2>9, <3>4, <3>5, RunningMoves
    <2>10. CASE ExitBlock(t)
      <3>1. phase[t] = "idle" /\ UNCHANGED <<status, runExp, lost>>
        BY <2>10 DEF ExitBlock, Call, db
      <3>2. CASE UNCHANGED stack
        BY <2>2, <3>1, <3>2 DEF InHands, Hands
      <3>3. CASE stack' # stack
        <4>1. Enter(t, "exit", "update") /\ PopRun(t) /\ Stack(t) # <<>>
          BY <2>10, <3>3 DEF ExitBlock
        <4> QED
          BY <2>9, <3>1, <4>1, DoneOwn DEF Phases, Ops
      <3> QED
        BY <3>2, <3>3
    <2>11. CASE EndRun(t)
      <3>1. phase[t] = "idle" /\ UNCHANGED <<status, runExp, lost>> /\ Enter(t, "end", "update") /\ PopRun(t) /\ Stack(t) # <<>>
        BY <2>11 DEF EndRun, Call, db
      <3> QED
        BY <2>9, <3>1, DoneOwn DEF Phases, Ops
    <2>12. CASE UpdateRun(t)
      <3>1. UNCHANGED <<stack, runExp>> /\ lost \subseteq lost'
        BY <2>12 DEF UpdateRun
      <3>2. callRun[t] \in lost' \/ callRun[t] \notin RunRows \/ status'[callRun[t]] # "RUNNING"
        <4>1. CASE callRun[t] \in RunRows /\ \E s \in Ended : status' = [status EXCEPT ![callRun[t]] = s]
          BY <4>1 DEF Ended, RunRows, TrackingTypeOK
        <4>2. CASE lost' = lost \cup ({callRun[t]} \cap RunRows)
          BY <4>2
        <4> QED
          BY <2>12, <4>1, <4>2 DEF UpdateRun
      <3>3. \A r \in RunIds : status'[r] = "RUNNING" => status[r] = "RUNNING"
        BY <2>12 DEF UpdateRun, Ended, TrackingTypeOK
      <3> QED
        BY <2>1, <3>1, <3>2, <3>3, RunningMoves DEF RunRows
    <2> QED
      BY <1>1, <2>3, <2>4, <2>check, <2>5, <2>read, <2>6, <2>7, <2>8, <2>10, <2>11, <2>12 DEF ThreadStep
  <1>2. ASSUME Studio PROVE RunningInv'
    BY <1>2, StudioQuiet DEF RunningInv, OnStack, AtStart, RunRows, shim, thread, trackHistory
  <1>3. ASSUME NEW p \in Processes, ProcessDies(p), NEW r \in RunIds, status'[r] = "RUNNING"
        PROVE  r \in RunRows' /\ (r \in OnStack' \/ r \in AtStart' \/ r \in lost')
    <2>1. UNCHANGED <<status, runExp>> /\ stack' = [stack EXCEPT ![p] = <<>>] /\ lost \subseteq lost'
          /\ (ToSet(stack[p]) \cup InHandsOf(p)) \cap RunRows \subseteq lost'
      BY <1>3 DEF ProcessDies, db
    <2>2. r \in RunRows /\ (r \in OnStack \/ r \in AtStart \/ r \in lost) /\ RunRows' = RunRows
      BY <1>3, <2>1 DEF RunningInv, RunRows
    <2>3. CASE r \in OnStack
      <3>1. PICK q \in Processes : r \in ToSet(stack[q])
        BY <2>3 DEF OnStack
      <3>2. q # p => stack'[q] = stack[q]
        BY <2>1 DEF TrackingTypeOK
      <3>3. q # p => r \in OnStack'
        BY <3>1, <3>2 DEF OnStack
      <3> QED
        BY <2>1, <2>2, <3>1, <3>3
    <2>4. CASE r \in AtStart
      <3>1. PICK u \in Threads : phase[u] \in Hands /\ r = callRun[u]
        BY <2>4 DEF AtStart
      <3>2. proc[u] = p => r \in InHandsOf(p)
        BY <3>1 DEF InHandsOf
      <3>3. proc[u] # p => phase'[u] = phase[u] /\ callRun'[u] = callRun[u]
        BY <1>3, Survivors
      <3>4. proc[u] # p => r \in AtStart'
        BY <3>1, <3>3 DEF AtStart
      <3> QED
        BY <2>1, <2>2, <3>2, <3>4
    <2> QED
      BY <2>1, <2>2, <2>3, <2>4
  <1>4. ASSUME NEW p \in Processes, ProcessDies(p) PROVE RunningInv'
    BY <1>3, <1>4 DEF RunningInv
  <1> QED
    BY <1>1, <1>2, <1>4 DEF TrackingNext

-----------------------------------------------------------------------------
(* Blocks stay in place. *)

LEMMA PlacedInTime ==
    ASSUME TrackingTypeOK, NEW t \in Threads, OnTop(t), t \notin mixed, blocks[t] # <<>>, phase[t] # "update"
    PROVE  /\ Placed(blocks[t], Stack(t), Len(Stack(t)))
           /\ Stack(t) # <<>> /\ ActiveRun(t) = InnermostRun(t)
  <1>1. Placed(blocks[t], Stack(t), Len(Stack(t)))
    BY DEF OnTop
  <1>2. blocks[t] \in Seq(BlockRecords) /\ Stack(t) \in Seq(Handles)
    BY DEF TrackingTypeOK, BlockRecords, Stack
  <1> QED
    BY <1>1, <1>2, PlacedTop DEF ActiveRun, InnermostRun

\* What a thread's next state has to be, in variables of the next state only.
Stands(t, m, b, s, ph, o, r) ==
    t \notin m /\ b # <<>> =>
        /\ Placed(b, s, IF ph = "update" THEN Len(s) + 1 ELSE Len(s))
        /\ ph = "update" => o = "exit" /\ Last(b).kind # "borrowed"
        /\ ph \in {"write", "update"} => r = Last(b).run
        /\ o = "log" => ph = "write"

LEMMA InPlaceStands ==
    ASSUME NEW t \in Threads, proc' = proc
    PROVE  /\ OnTop(t) <=> Stands(t, mixed, blocks[t], stack[proc[t]], phase[t], op[t], callRun[t])
           /\ OnTop(t)' <=> Stands(t, mixed', blocks'[t], stack'[proc[t]], phase'[t], op'[t], callRun'[t])
  BY DEF OnTop, Stands, InnermostRun, Stack

LEMMA OthersInPlace ==
    ASSUME TrackingTypeOK, BlocksInv, NEW t \in Threads, ThreadStep(t), NEW u \in Threads, u # t,
           u \notin mixed' => u \notin mixed,
           \/ stack'[proc[u]] = stack[proc[u]]
           \/ proc[u] = proc[t] /\ Neighbours(t) \subseteq mixed'
    PROVE  OnTop(u)'
  <1>1. /\ phase'[u] = phase[u] /\ op'[u] = op[u] /\ callRun'[u] = callRun[u] /\ blocks'[u] = blocks[u] /\ proc' = proc
    BY OthersKeep
  <1>2. OnTop(u)
    BY DEF BlocksInv
  <1>3. CASE stack'[proc[u]] = stack[proc[u]]
    BY <1>1, <1>2, <1>3, InPlaceStands DEF Stands
  <1>4. CASE proc[u] = proc[t] /\ Neighbours(t) \subseteq mixed'
    <2>1. u \notin mixed' => blocks[u] = <<>>
      BY <1>4 DEF Neighbours
    <2> QED
      BY <1>1, <2>1, InPlaceStands DEF Stands
  <1> QED
    BY <1>3, <1>4

LEMMA BlocksInvStep ==
    ASSUME TrackingTypeOK, TrackedOps, TrackingNext, BlocksInv
    PROVE  BlocksInv'
  <1>1. ASSUME NEW t \in Threads, ThreadStep(t) PROVE BlocksInv'
    <2> DEFINE b == blocks[t]
               s == stack[proc[t]]
    <2>1. /\ CallInOrder(t) /\ OnTop(t)
          /\ b \in Seq(BlockRecords) /\ s \in Seq(Handles) /\ proc[t] \in Processes
      BY DEF TrackedOps, BlocksInv, TrackingTypeOK, BlockRecords
    <2>2. proc' = proc
      BY <1>1 DEF ThreadStep, SetExperiment, GetExperimentByName, CreateExperiment, AssignExperiment, StartRun, CheckExperiment,
           InsertRun, ReadRun, PushRun, Log, ActiveRunAgain, WriteLog, Fit, ExitBlock, EndRun, UpdateRun, Call, At
    <2>3. Stands(t, mixed, b, s, phase[t], op[t], callRun[t])
      BY <2>1, <2>2, InPlaceStands
    <2>4. ASSUME Stands(t, mixed', blocks'[t], stack'[proc[t]], phase'[t], op'[t], callRun'[t]),
                 \A u \in Threads : u # t /\ u \notin mixed' => u \notin mixed,
                 \/ stack' = stack
                 \/ Neighbours(t) \subseteq mixed' /\ \A p \in Processes : p # proc[t] => stack'[p] = stack[p]
          PROVE  BlocksInv'
      <3>1. OnTop(t)'
        BY <2>2, <2>4, InPlaceStands
      <3>2. ASSUME NEW u \in Threads, u # t PROVE OnTop(u)'
        <4>1. proc[u] \in Processes
          BY DEF TrackingTypeOK
        <4> QED
          BY <1>1, <2>4, <3>2, <4>1, OthersInPlace
      <3> QED
        BY <3>1, <3>2 DEF BlocksInv
    <2> HIDE DEF b, s
    <2> DEFINE Calm == /\ UNCHANGED <<stack, blocks, mixed>> /\ phase[t] # "update" /\ phase'[t] \notin {"write", "update"}
                       /\ op'[t] = "log" => op[t] = "log" /\ phase[t] # "write"
    <2>5. Calm => BlocksInv'
      BY <2>3, <2>4 DEF Stands, b, s
    <2>6. ASSUME t \notin mixed, b # <<>>, phase[t] # "update"
          PROVE  /\ Placed(b, s, Len(s)) /\ s # <<>> /\ Last(s) = Last(b).run
                 /\ op[t] = "log" => phase[t] = "write"
      <3>1. Placed(b, s, Len(s)) /\ (op[t] = "log" => phase[t] = "write")
        BY <2>3, <2>6 DEF Stands
      <3> QED
        BY <2>1, <2>6, <3>1, PlacedTop
    <2>7. CASE SetExperiment(t)
      <3>1. phase[t] = "idle" /\ phase'[t] = "byname" /\ op'[t] = "" /\ UNCHANGED <<stack, blocks, mixed>>
        BY <2>7, DoneOwn DEF SetExperiment, Call, shim, trackHistory, Phases, Ops
      <3> QED
        BY <2>5, <3>1
    <2>8. CASE GetExperimentByName(t) \/ CreateExperiment(t)
      <3>1. UNCHANGED <<stack, blocks, mixed>> /\ op' = op
        BY <2>8 DEF GetExperimentByName, CreateExperiment, shim, trackHistory
      <3>2. phase[t] \in {"byname", "create"}
        BY <2>8 DEF GetExperimentByName, CreateExperiment, At
      <3>3. phase'[t] \in {"assign", "create"}
        BY <2>8, DoneOwn DEF GetExperimentByName, CreateExperiment, Phases
      <3> QED
        BY <2>5, <3>1, <3>2, <3>3
    <2>create. ASSUME NEW way \in {InProcess, ByHttp}, CheckExperiment(t, way) \/ InsertRun(t, way) \/ ReadRun(t, way)
          PROVE  BlocksInv'
      <3>1. UNCHANGED <<stack, blocks, mixed>>
        BY <2>create, CreationOwn DEF trackHistory
      <3>2. phase[t] \in Creating /\ (op' = op \/ op'[t] = "") /\ phase'[t] \in Creating \cup {"push", "idle"}
        BY <2>create, CreationOwn DEF Creating
      <3> QED
        BY <2>5, <3>1, <3>2 DEF Creating
    <2>9. CASE AssignExperiment(t)
      <3>1. phase[t] = "assign" /\ phase'[t] = "idle" /\ op'[t] = "" /\ UNCHANGED <<stack, blocks, mixed>>
        BY <2>9, DoneOwn DEF AssignExperiment, At, trackHistory
      <3> QED
        BY <2>5, <3>1
    <2>10. CASE StartRun(t)
      <3>1. /\ phase[t] = "idle" /\ phase'[t] = "check" /\ op'[t] # "log"
        BY <2>10, DoneOwn DEF StartRun, Call, Ops
      <3>2. UNCHANGED <<stack, blocks, mixed>>
        BY <2>10 DEF StartRun, StartsRun, trackHistory
      <3> QED
        BY <2>5, <3>1, <3>2
    <2>11. CASE PushRun(t)
      <3>1. /\ phase[t] = "push" /\ callRun[t] \in Handles /\ stack' = [stack EXCEPT ![proc[t]] = Append(@, callRun[t])]
            /\ Mixes(t, op[t] \in {"bare", "log"})
        BY <2>11 DEF PushRun, Push, At, TrackingTypeOK
      <3>2. /\ stack'[proc[t]] = Append(s, callRun[t]) /\ \A p \in Processes : p # proc[t] => stack'[p] = stack[p]
        BY <2>1, <3>1 DEF s, TrackingTypeOK
      <3>3. /\ Neighbours(t) \subseteq mixed' /\ mixed \subseteq mixed' /\ t \notin Neighbours(t)
            /\ op[t] \in {"bare", "log"} /\ b # <<>> => t \in mixed'
            /\ op[t] \notin {"bare", "log"} => (t \in mixed' <=> t \in mixed)
        BY <3>1 DEF Mixes, Neighbours, b
      <3>4. CASE op[t] \in {"with", "fit"}
        <4> DEFINE x == [run |-> callRun[t], kind |-> op[t]]
        <4>1. x \in BlockRecords /\ x.kind # "borrowed" /\ x.run = callRun[t]
          BY <3>1, <3>4 DEF BlockRecords, Kinds
        <4>2. phase'[t] = "idle" /\ op'[t] = ""
          BY <2>11, <3>4, DoneOwn DEF PushRun
        <4>3. blocks'[t] = Append(b, x)
          BY <2>11, <3>4 DEF PushRun, b, TrackingTypeOK
        <4> HIDE DEF x
        <4>4. Len(Append(s, callRun[t])) = Len(s) + 1 /\ Append(s, callRun[t]) # <<>> /\ Append(s, callRun[t]) \in Seq(Handles)
              /\ Last(Append(s, callRun[t])) = callRun[t]
          BY <2>1, <3>1, AppendLast
        <4>5. t \notin mixed' => Placed(Append(b, x), Append(s, callRun[t]), Len(s) + 1)
          <5> SUFFICES ASSUME t \notin mixed' PROVE Placed(Append(b, x), Append(s, callRun[t]), Len(s) + 1)
            OBVIOUS
          <5>1. CASE b = <<>>
            <6>1. Append(b, x) = <<x>>
              BY <5>1
            <6> QED
              BY <4>1, <4>4, <6>1, PlacedFirst
          <5>2. CASE b # <<>>
            <6>1. Placed(b, s, Len(s))
              BY <2>6, <3>1, <3>3, <5>2
            <6> QED
              BY <2>1, <4>1, <5>2, <6>1, PlacedPush
          <5> QED
            BY <5>1, <5>2
        <4>6. Stands(t, mixed', blocks'[t], stack'[proc[t]], phase'[t], op'[t], callRun'[t])
          BY <3>2, <4>2, <4>3, <4>4, <4>5 DEF Stands
        <4> QED
          BY <2>4, <3>2, <3>3, <4>6
      <3>5. CASE op[t] \notin {"with", "fit"}
        <4>1. op[t] \in {"bare", "log"} /\ blocks' = blocks
          BY <2>1, <2>11, <3>1, <3>5 DEF PushRun, CallInOrder
        <4>2. Stands(t, mixed', blocks'[t], stack'[proc[t]], phase'[t], op'[t], callRun'[t])
          BY <3>3, <4>1 DEF Stands, b
        <4> QED
          BY <2>4, <3>2, <3>3, <4>2
      <3> QED
        BY <3>4, <3>5
    <2>12. CASE Log(t)
      <3>1. phase[t] = "idle" /\ UNCHANGED <<stack, blocks, mixed>>
        BY <2>12 DEF Log, StartsRun, Call, trackHistory
      <3>2. CASE s # <<>>
        <4>1. phase'[t] = "write" /\ callRun'[t] = Last(s)
          BY <2>12, <3>2, DoneOwn DEF Log, Phases, Ops, Stack, ActiveRun, s, TrackingTypeOK
        <4>2. Stands(t, mixed', blocks'[t], stack'[proc[t]], phase'[t], op'[t], callRun'[t])
          BY <2>6, <3>1, <4>1 DEF Stands, b, s
        <4> QED
          BY <2>4, <3>1, <4>2
      <3>3. CASE s = <<>>
        <4>1. t \in mixed \/ b = <<>>
          BY <2>6, <3>1, <3>3
        <4>2. Stands(t, mixed', blocks'[t], stack'[proc[t]], phase'[t], op'[t], callRun'[t])
          BY <3>1, <4>1 DEF Stands, b
        <4> QED
          BY <2>4, <3>1, <4>2
      <3> QED
        BY <3>2, <3>3
    <2>13. CASE ActiveRunAgain(t)
      <3>1. phase[t] = "top" /\ UNCHANGED <<stack, blocks, mixed>>
        BY <2>13 DEF ActiveRunAgain, At, shim, trackHistory
      <3>2. t \in mixed \/ b = <<>>
        BY <2>1, <2>6, <3>1 DEF CallInOrder
      <3>3. Stands(t, mixed', blocks'[t], stack'[proc[t]], phase'[t], op'[t], callRun'[t])
        BY <3>1, <3>2 DEF Stands, b
      <3> QED
        BY <2>4, <3>1, <3>3
    <2>14. CASE WriteLog(t)
      <3>1. phase[t] = "write" /\ phase'[t] = "idle" /\ op'[t] = "" /\ UNCHANGED <<stack, blocks, mixed>>
        BY <2>14, DoneOwn DEF WriteLog, At, shim, trackHistory
      <3> QED
        BY <2>5, <3>1
    <2>15. CASE Fit(t)
      <3>1. phase[t] = "idle" /\ op[t] = ""
        BY <2>1, <2>15 DEF Fit, Call, CallInOrder
      <3>2. CASE StartsRun(t, "fit")
        <4>1. phase'[t] = "check" /\ op'[t] = "fit" /\ UNCHANGED <<stack, blocks, mixed>>
          BY <3>2, DoneOwn DEF StartsRun, trackHistory, Ops
        <4> QED
          BY <2>5, <3>1, <4>1
      <3>3. CASE ~StartsRun(t, "fit")
        <4>1. /\ blocks' = [blocks EXCEPT ![t] = Append(@, Borrowed(t))] /\ s # <<>>
              /\ UNCHANGED <<stack, mixed, phase, op, callRun>>
          BY <2>15, <3>3 DEF Fit, thread, trackHistory, Stack, s
        <4> DEFINE x == Borrowed(t)
        <4>2. x \in BlockRecords /\ x.kind = "borrowed" /\ x.run = Last(s)
          BY <4>1, PopType DEF Borrowed, BlockRecords, Kinds, ActiveRun, Stack, s
        <4> HIDE DEF x
        <4>3. blocks'[t] = Append(b, x)
          BY <4>1 DEF b, x, TrackingTypeOK
        <4>4. t \notin mixed => Placed(Append(b, x), s, Len(s))
          <5>1. CASE b = <<>>
            <6>1. Append(b, x) = <<x>>
              BY <5>1
            <6> QED
              BY <2>1, <4>1, <4>2, <6>1, PlacedFirst
          <5>2. CASE b # <<>>
            BY <2>1, <2>6, <3>1, <4>2, <5>2, PlacedBorrow
          <5> QED
            BY <5>1, <5>2
        <4>5. Stands(t, mixed', blocks'[t], stack'[proc[t]], phase'[t], op'[t], callRun'[t])
          BY <3>1, <4>1, <4>3, <4>4 DEF Stands, s
        <4> QED
          BY <2>4, <4>1, <4>5
      <3> QED
        BY <3>2, <3>3
    \* The innermost block is left.
    <2>16. ASSUME Leave(t), b # <<>>, mixed' = StillMixed(t), phase'[t] = "idle", op'[t] = "", stack' = stack,
                  t \notin mixed => \E top \in {Len(s), Len(s) + 1} :
                      Placed(b, s, top) /\ (top = Len(s) <=> Last(b).kind = "borrowed")
           PROVE  BlocksInv'
      <3>1. blocks'[t] = Front(b)
        BY <2>16 DEF Leave, b, TrackingTypeOK
      <3>2. Front(b) # <<>> => Len(b) # 1
        <4>1. Len(Front(b)) = Len(b) - 1 /\ Front(b) \in Seq(BlockRecords)
          BY <2>1, <2>16, FrontLast
        <4>2. Len(b) = 1 => Len(Front(b)) = 0
          BY <4>1
        <4> QED
          BY <4>1, <4>2
      <3>3. Front(b) # <<>> /\ t \notin mixed' => t \notin mixed
        BY <2>16, <3>2 DEF StillMixed, b
      <3>4. Front(b) # <<>> /\ t \notin mixed' => Placed(Front(b), s, Len(s))
        BY <2>1, <2>16, <3>3, PlacedLeave
      <3>5. Stands(t, mixed', blocks'[t], stack'[proc[t]], phase'[t], op'[t], callRun'[t])
        BY <2>16, <3>1, <3>4 DEF Stands, s
      <3>6. \A u \in Threads : u # t /\ u \notin mixed' => u \notin mixed
        BY <2>16 DEF StillMixed
      <3> QED
        BY <2>4, <2>16, <3>5, <3>6
    <2>17. CASE ExitBlock(t)
      <3>1. phase[t] = "idle" /\ op[t] = "" /\ b # <<>>
        BY <2>1, <2>17 DEF ExitBlock, Call, CallInOrder, b
      <3>2. CASE Last(b).kind = "borrowed" \/ s = <<>>
        <4>1. Leave(t) /\ mixed' = StillMixed(t) /\ phase'[t] = "idle" /\ op'[t] = "" /\ stack' = stack
          BY <2>17, <3>1, <3>2 DEF ExitBlock, thread, Stack, b, s
        <4>2. t \notin mixed => Placed(b, s, Len(s)) /\ Last(b).kind = "borrowed"
          BY <2>6, <3>1, <3>2
        <4> QED
          BY <2>16, <3>1, <4>1, <4>2
      <3>3. CASE ~(Last(b).kind = "borrowed" \/ s = <<>>)
        <4>1. Enter(t, "exit", "update") /\ PopRun(t) /\ Mixes(t, FALSE) /\ UNCHANGED blocks
          BY <2>17, <3>3 DEF ExitBlock, Stack, b, s
        <4>2. phase'[t] = "update" /\ op'[t] = "exit" /\ callRun'[t] = Last(s)
          BY <4>1, DoneOwn DEF Phases, Ops, PopRun, ActiveRun, Stack, s, TrackingTypeOK
        <4>3. stack'[proc[t]] = Front(s) /\ \A p \in Processes : p # proc[t] => stack'[p] = stack[p]
          BY <2>1, <4>1 DEF PopRun, s, TrackingTypeOK
        <4>4. Neighbours(t) \subseteq mixed' /\ mixed \subseteq mixed'
          BY <4>1 DEF Mixes
        <4>5. t \notin mixed' => Placed(b, Front(s), Len(Front(s)) + 1) /\ Last(s) = Last(b).run
          BY <2>1, <2>6, <3>1, <4>4, PlacedPop
        <4>6. Stands(t, mixed', blocks'[t], stack'[proc[t]], phase'[t], op'[t], callRun'[t])
          BY <3>3, <4>1, <4>2, <4>3, <4>5 DEF Stands, b
        <4> QED
          BY <2>4, <4>3, <4>4, <4>6
      <3> QED
        BY <3>2, <3>3
    <2>18. CASE EndRun(t)
      <3>1. PopRun(t) /\ Mixes(t, TRUE) /\ UNCHANGED blocks
        BY <2>18 DEF EndRun
      <3>2. \A p \in Processes : p # proc[t] => stack'[p] = stack[p]
        BY <2>1, <3>1 DEF PopRun, TrackingTypeOK
      <3>3. Neighbours(t) \subseteq mixed' /\ mixed \subseteq mixed' /\ (b # <<>> => t \in mixed')
        BY <3>1 DEF Mixes, b
      <3>4. Stands(t, mixed', blocks'[t], stack'[proc[t]], phase'[t], op'[t], callRun'[t])
        BY <3>1, <3>3 DEF Stands, b
      <3> QED
        BY <2>4, <3>2, <3>3, <3>4
    <2>19. CASE UpdateRun(t)
      <3>1. phase[t] = "update" /\ phase'[t] = "idle" /\ op'[t] = "" /\ stack' = stack
        BY <2>19, DoneOwn DEF UpdateRun, At
      <3>2. CASE op[t] = "exit"
        <4>1. Leave(t) /\ mixed' = StillMixed(t) /\ b # <<>>
          BY <2>1, <2>19, <3>2 DEF UpdateRun, CallInOrder, b
        <4>2. t \notin mixed => Placed(b, s, Len(s) + 1) /\ Last(b).kind # "borrowed"
          BY <2>3, <3>1, <4>1 DEF Stands
        <4>3. Len(s) + 1 # Len(s)
          BY <2>1
        <4> QED
          BY <2>16, <3>1, <4>1, <4>2, <4>3
      <3>3. CASE op[t] # "exit"
        <4>1. UNCHANGED <<blocks, mixed>> /\ (t \in mixed \/ b = <<>>)
          BY <2>3, <2>19, <3>1, <3>3 DEF UpdateRun, Stands
        <4>2. Stands(t, mixed', blocks'[t], stack'[proc[t]], phase'[t], op'[t], callRun'[t])
          BY <4>1 DEF Stands, b
        <4> QED
          BY <2>4, <3>1, <4>1, <4>2
      <3> QED
        BY <3>2, <3>3
    <2> QED
      BY <1>1, <2>7, <2>8, <2>create, <2>9, <2>10, <2>11, <2>12, <2>13, <2>14, <2>15, <2>17, <2>18, <2>19 DEF ThreadStep
  <1>2. ASSUME Studio PROVE BlocksInv'
    <2>1. UNCHANGED <<stack, proc, phase, op, callRun, blocks, mixed>>
      BY <1>2, StudioQuiet DEF shim, thread, trackHistory
    <2> QED
      BY <2>1, InPlaceStands DEF BlocksInv
  <1>3. ASSUME NEW p \in Processes, ProcessDies(p), NEW t \in Threads PROVE OnTop(t)'
    <2>1. OnTop(t) /\ proc[t] \in Processes
      BY DEF BlocksInv, TrackingTypeOK
    <2>2. CASE proc[t] = p
      <3>1. blocks'[t] = <<>> /\ proc' = proc
        BY <1>3, <2>2, Survivors
      <3> QED
        BY <3>1 DEF OnTop
    <2>3. CASE proc[t] # p
      <3>1. /\ phase'[t] = phase[t] /\ op'[t] = op[t] /\ callRun'[t] = callRun[t] /\ blocks'[t] = blocks[t]
            /\ (t \in mixed' <=> t \in mixed) /\ proc' = proc
        BY <1>3, <2>3, Survivors
      <3>2. stack'[proc[t]] = stack[proc[t]]
        BY <1>3, <2>1, <2>3 DEF ProcessDies, TrackingTypeOK
      <3> QED
        BY <2>1, <3>1, <3>2, InPlaceStands DEF Stands
    <2> QED
      BY <2>2, <2>3
  <1>4. ASSUME NEW p \in Processes, ProcessDies(p) PROVE BlocksInv'
    BY <1>3, <1>4 DEF BlocksInv
  <1> QED
    BY <1>1, <1>2, <1>4 DEF TrackingNext

-----------------------------------------------------------------------------
(* The invariant of tracking, and what it says. *)

TrackingInv == TrackingTypeOK /\ TrackedOps /\ FitInv /\ RunningInv /\ BlocksInv

LEMMA TrackingStarts ==
    ASSUME TrackingInit
    PROVE  TrackingInv
  <1>0. ASSUME NEW S PROVE <<>> \in Seq(S) /\ Len(<<>>) = 0 /\ DOMAIN <<>> = {}
    OBVIOUS
  <1>1. TrackingTypeOK
    <2>1. 0 \in Exps /\ 0 \in Handles /\ 0 \in 0..MaxEvents
      BY Bounds DEF Exps, Handles
    <2>2. /\ expName \in [Exps -> ExpNames \cup {"Default", ""}] /\ expLive \subseteq Exps
          /\ runExp \in [RunIds -> Exps \cup {-1}] /\ runLive \subseteq RunIds
          /\ status \in [RunIds -> Ended \cup {"", "RUNNING"}] /\ logged \subseteq RunRows
      BY <2>1 DEF TrackingInit
    <2>3. /\ stack \in [Processes -> Seq(Handles)] /\ current \in [Processes -> Exps]
          /\ depth \in [Processes -> Nat] /\ proc \in [Threads -> Processes]
      <3>1. stack \in [Processes -> Seq(Handles)]
        BY <1>0 DEF TrackingInit
      <3> QED
        BY <2>1, <3>1 DEF TrackingInit
    <2>4. /\ phase \in [Threads -> Phases] /\ op \in [Threads -> Ops]
          /\ name \in [Threads -> ExpNames \cup {"Default", ""}] /\ exp \in [Threads -> Exps]
          /\ callRun \in [Threads -> Handles]
      BY <2>1 DEF TrackingInit, Phases, Ops
    <2>5. /\ blocks \in [Threads -> Seq([run : Handles, kind : Kinds])]
          /\ events \in 0..MaxEvents /\ mixed \subseteq Threads /\ lost \subseteq RunIds
      <3>1. blocks \in [Threads -> Seq([run : Handles, kind : Kinds])]
        BY <1>0 DEF TrackingInit
      <3> QED
        BY <2>1, <3>1 DEF TrackingInit
    <2> QED
      BY <2>2, <2>3, <2>4, <2>5 DEF TrackingTypeOK
  <1>2. TrackedOps
    <2>1. \A t \in Threads : phase[t] = "idle" /\ op[t] = "" /\ blocks[t] = <<>>
      BY DEF TrackingInit
    <2>2. 0 <= MaxNest
      BY Bounds
    <2> QED
      BY <1>0, <2>1, <2>2 DEF TrackedOps, CallInOrder, Creating
  <1>3. FitInv
    <2>1. \A p \in Processes : depth[p] = 0
      BY DEF TrackingInit
    <2>2. \A t \in Threads : op[t] = "" /\ blocks[t] = <<>>
      BY DEF TrackingInit
    <2>3. \A t \in Threads, i \in Nat : ~FitMark(t, i)
      BY <1>0, <2>2 DEF FitMark
    <2>4. \A p \in Processes : FitMarks(p) = {}
      BY <2>3 DEF FitMarks
    <2> QED
      BY <2>1, <2>4 DEF FitInv
  <1>4. RunningInv
    BY DEF TrackingInit, RunningInv
  <1>5. BlocksInv
    BY DEF TrackingInit, BlocksInv, OnTop
  <1> QED
    BY <1>1, <1>2, <1>3, <1>4, <1>5 DEF TrackingInv

LEMMA TrackingInvariant == TrackingSpec => []TrackingInv
  <1>1. TrackingInit => TrackingInv
    BY TrackingStarts
  <1>2. TrackingInv /\ [TrackingNext]_trackingVars => TrackingInv'
    <2> SUFFICES ASSUME TrackingInv, [TrackingNext]_trackingVars PROVE TrackingInv'
      OBVIOUS
    <2>1. CASE TrackingNext
      BY <2>1, TrackingTypeStep, TrackedOpsStep, FitInvStep, RunningInvStep, BlocksInvStep DEF TrackingInv
    <2>2. CASE UNCHANGED trackingVars
      <3> USE <2>2 DEF trackingVars, db, shim, thread, trackHistory
      <3>1. TrackingTypeOK'
        BY DEF TrackingInv, TrackingTypeOK, RunRows
      <3>2. TrackedOps' /\ RunningInv'
        BY DEF TrackingInv, TrackedOps, CallInOrder, RunningInv, RunRows, OnStack, AtStart, Creating
      <3>3. FitInv'
        BY DEF TrackingInv, FitInv, FitMarks, FitMark
      <3>4. BlocksInv'
        BY InPlaceStands DEF TrackingInv, BlocksInv
      <3> QED
        BY <3>1, <3>2, <3>3, <3>4 DEF TrackingInv
    <2> QED
      BY <2>1, <2>2
  <1> QED
    BY <1>1, <1>2, PTL DEF TrackingSpec

\* The tracking module's variables keep their types: a fit that ends was counted (FitInv).
THEOREM TrackingTypeCorrect == TrackingSpec => []TrackingTypeOK
  <1>1. TrackingInv => TrackingTypeOK
    BY DEF TrackingInv
  <1> QED
    BY <1>1, TrackingInvariant, PTL

\* start_run and end_run: no run is left RUNNING that is neither on a stack nor in the hands of a call, unless its
\* last update failed, its process died, or mlflow_create_run answered without the run it had inserted.
THEOREM RunsAccounted == TrackingSpec => []RunsAreAccountedFor
  <1>1. TrackingInv => RunsAreAccountedFor
    BY DEF TrackingInv, RunningInv, RunsAreAccountedFor
  <1> QED
    BY <1>1, TrackingInvariant, PTL

\* __enter__, __exit__ and _autolog_fit_wrapper: a thread that nobody comes between logs to and ends the runs of its
\* own blocks, and autologging is off exactly while a fit is under way.
THEOREM BlocksAreKept == TrackingSpec => []BlocksKept
  <1>1. ASSUME TrackingInv PROVE BlocksKeepTheirRun
    <2> SUFFICES ASSUME NEW t \in Threads \ mixed, blocks[t] # <<>>
                 PROVE  IF phase[t] \in {"write", "update"} THEN callRun[t] = InnermostRun(t)
                        ELSE Stack(t) # <<>> /\ ActiveRun(t) = InnermostRun(t)
      BY DEF BlocksKeepTheirRun
    <2>1. TrackingTypeOK /\ OnTop(t)
      BY <1>1 DEF TrackingInv, BlocksInv
    <2>2. CASE phase[t] \in {"write", "update"}
      BY <2>1, <2>2 DEF OnTop
    <2>3. CASE phase[t] \notin {"write", "update"}
      BY <2>1, <2>3, PlacedInTime
    <2> QED
      BY <2>2, <2>3
  <1>2. ASSUME TrackingInv PROVE AutologComesBack
    <2> SUFFICES ASSUME NEW p \in Processes PROVE depth[p] > 0 <=> Fitting(p)
      BY DEF AutologComesBack
    <2>1. TrackingTypeOK /\ TrackedOps /\ FitInv
      BY <1>2 DEF TrackingInv
    <2>2. depth[p] > 0 <=> FitMarks(p) # {}
      <3>1. CASE depth[p] = 0 /\ FitMarks(p) = {}
        BY <3>1
      <3>2. CASE depth[p] = 1 /\ \E m \in Threads \X Nat : FitMarks(p) = {m}
        BY <3>2
      <3> QED
        BY <2>1, <3>1, <3>2 DEF FitInv
    <2>3. ASSUME Fitting(p) PROVE FitMarks(p) # {}
      <3>1. CASE \E t \in Threads : proc[t] = p /\ op[t] = "fit"
        <4>1. PICK t \in Threads : proc[t] = p /\ op[t] = "fit"
          BY <3>1
        <4>2. <<t, 0>> \in FitMarks(p)
          BY <4>1 DEF FitMarks, FitMark
        <4> QED
          BY <4>2
      <3>2. CASE FitsOf(p) # {}
        <4>1. PICK m \in Threads \X (1..MaxNest) :
                proc[m[1]] = p /\ m[2] <= Len(blocks[m[1]]) /\ blocks[m[1]][m[2]].kind # "with"
          BY <3>2 DEF FitsOf
        <4>2. blocks[m[1]] \in Seq(BlockRecords) /\ m[1] \in Threads
          BY <2>1, <4>1 DEF TrackingTypeOK, BlockRecords
        <4>5. m[2] \in Nat /\ m[2] >= 1 /\ m \in Threads \X Nat
          BY <4>1, Bounds
        <4>3. m[2] \in DOMAIN blocks[m[1]]
          BY <4>1, <4>2, <4>5
        <4>4. m \in FitMarks(p)
          BY <4>1, <4>3, <4>5 DEF FitMarks, FitMark
        <4> QED
          BY <4>4
      <3> QED
        BY <2>3, <3>1, <3>2 DEF Fitting
    <2>4. ASSUME FitMarks(p) # {} PROVE Fitting(p)
      <3>1. PICK m \in Threads \X Nat : proc[m[1]] = p /\ FitMark(m[1], m[2])
        BY <2>4 DEF FitMarks
      <3>2. CASE op[m[1]] = "fit"
        BY <3>1, <3>2 DEF Fitting
      <3>3. CASE op[m[1]] # "fit"
        <4>1. m[2] \in DOMAIN blocks[m[1]] /\ blocks[m[1]][m[2]].kind # "with" /\ m[1] \in Threads
          BY <3>1, <3>3 DEF FitMark
        <4>2. blocks[m[1]] \in Seq(BlockRecords) /\ Len(blocks[m[1]]) <= MaxNest
          BY <2>1, <4>1 DEF TrackingTypeOK, BlockRecords, TrackedOps, CallInOrder
        <4>3. m[2] \in 1..MaxNest /\ m[2] <= Len(blocks[m[1]])
          BY <4>1, <4>2, Bounds
        <4>4. m \in FitsOf(p)
          BY <3>1, <4>1, <4>3 DEF FitsOf
        <4> QED
          BY <4>4 DEF Fitting
      <3> QED
        BY <3>2, <3>3
    <2> QED
      BY <2>2, <2>3, <2>4
  <1>3. TrackingInv => BlocksKept
    BY <1>1, <1>2 DEF BlocksKept
  <1> QED
    BY <1>3, TrackingInvariant, PTL

-----------------------------------------------------------------------------
(* Lists without some of their elements. *)

UpTo(places, i) == {k \in places : k <= i}
Rank(places, i) == Cardinality(UpTo(places, i))

LEMMA UpToSays ==
    ASSUME NEW N \in Nat, NEW places \in SUBSET (1 .. N), NEW i \in 1 .. N
    PROVE  /\ UpTo(places, 0) = {} /\ UpTo(places, N) = places
           /\ \A j \in 0 .. i - 1 : UpTo(places, j) \subseteq UpTo(places, i - 1)
           /\ i \notin UpTo(places, i - 1)
           /\ UpTo(places, i) = IF i \in places THEN UpTo(places, i - 1) \cup {i} ELSE UpTo(places, i - 1)
  <1>1. \A k \in places : k \in Int /\ 1 <= k /\ k <= N
    OBVIOUS
  <1>2. \A k \in places : ~(k <= 0) /\ (k <= i <=> k <= i - 1 \/ k = i)
    BY <1>1
  <1>3. \A k \in places : \A j \in 0 .. i - 1 : k <= j => k <= i - 1
    BY <1>1
  <1>4. ~(i <= i - 1)
    OBVIOUS
  <1> QED
    BY <1>1, <1>2, <1>3, <1>4, Zenon DEF UpTo

LEMMA RankType ==
    ASSUME NEW N \in Nat, NEW places \in SUBSET (1 .. N)
    PROVE  /\ IsFiniteSet(places) /\ Cardinality(places) \in Nat
           /\ \A i : IsFiniteSet(UpTo(places, i)) /\ Rank(places, i) \in Nat /\ Rank(places, i) <= Cardinality(places)
  <1>1. IsFiniteSet(1 .. N)
    BY FS_Interval
  <1>2. IsFiniteSet(places)
    BY <1>1, FS_Subset
  <1>3. ASSUME NEW i PROVE IsFiniteSet(UpTo(places, i)) /\ Rank(places, i) \in Nat /\ Rank(places, i) <= Cardinality(places)
    <2>1. UpTo(places, i) \subseteq places
      BY DEF UpTo
    <2>2. IsFiniteSet(UpTo(places, i)) /\ Cardinality(UpTo(places, i)) <= Cardinality(places)
      BY <1>2, <2>1, FS_Subset
    <2> QED
      BY <2>2, FS_CardinalityType DEF Rank
  <1> QED
    BY <1>2, <1>3, FS_CardinalityType

\* A place counts itself and those before it.
LEMMA RankStep ==
    ASSUME NEW N \in Nat, NEW places \in SUBSET (1 .. N), NEW i \in 1 .. N
    PROVE  Rank(places, i) = Rank(places, i - 1) + IF i \in places THEN 1 ELSE 0
  <1>1. IsFiniteSet(UpTo(places, i - 1)) /\ Rank(places, i - 1) \in Nat
    BY RankType
  <1>2. i \notin UpTo(places, i - 1)
    BY UpToSays
  <1>3. CASE i \in places
    <2>1. UpTo(places, i) = UpTo(places, i - 1) \cup {i}
      BY <1>3, UpToSays
    <2> QED
      BY <1>1, <1>2, <1>3, <2>1, FS_AddElement DEF Rank
  <1>4. CASE i \notin places
    <2>1. UpTo(places, i) = UpTo(places, i - 1)
      BY <1>4, UpToSays
    <2> QED
      BY <1>1, <1>4, <2>1 DEF Rank
  <1> QED
    BY <1>3, <1>4

LEMMA RankGrows ==
    ASSUME NEW N \in Nat, NEW places \in SUBSET (1 .. N), NEW i \in 0 .. N, NEW j \in places, i < j
    PROVE  Rank(places, i) < Rank(places, j)
  <1>1. UpTo(places, i) \subseteq UpTo(places, j - 1)
    <2>1. j \in 1 .. N /\ i \in 0 .. j - 1
      OBVIOUS
    <2> QED
      BY <2>1, UpToSays
  <1>2. IsFiniteSet(UpTo(places, j - 1)) /\ Rank(places, i) \in Nat /\ Rank(places, j) \in Nat /\ Rank(places, j - 1) \in Nat
    BY RankType
  <1>3. Rank(places, i) <= Rank(places, j - 1)
    BY <1>1, <1>2, FS_Subset DEF Rank
  <1>4. Rank(places, j) = Rank(places, j - 1) + 1
    BY RankStep
  <1> QED
    BY <1>2, <1>3, <1>4

LEMMA RanksDiffer ==
    ASSUME NEW N \in Nat, NEW places \in SUBSET (1 .. N), NEW i \in places, NEW j \in places, Rank(places, i) = Rank(places, j)
    PROVE  i = j
  <1>1. Rank(places, i) \in Nat
    BY RankType
  <1>2. ~(i < j) /\ ~(j < i)
    BY <1>1, RankGrows
  <1> QED
    BY <1>2

LEMMA RankExists ==
    ASSUME NEW N \in Nat, NEW places \in SUBSET (1 .. N), NEW n \in 1 .. Cardinality(places)
    PROVE  \E i \in places : Rank(places, i) = n
  <1>0. Cardinality(places) \in Nat
    BY RankType
  <1> DEFINE T == {i \in 0 .. N : Rank(places, i) >= n}
  <1>1. N \in T
    <2>1. UpTo(places, N) = places
      <3>1. ASSUME NEW k \in places PROVE N \in 1 .. N
        <4>1. k \in 1 .. N
          OBVIOUS
        <4> QED
          BY <4>1
      <3>2. places = {} => UpTo(places, N) = {}
        BY DEF UpTo
      <3>3. places # {} => UpTo(places, N) = places
        BY <3>1, UpToSays
      <3> QED
        BY <3>2, <3>3
    <2> QED
      BY <1>0, <2>1 DEF Rank
  <1>2. PICK i \in T : \A k \in T : i <= k
    <2>1. T \in SUBSET Nat /\ T # {}
      BY <1>1
    <2> HIDE DEF T
    <2> QED
      BY <2>1, SmallestExists
  <1>3. i # 0
    <2>1. UpTo(places, 0) = {}
      <3>1. \A k \in places : ~(k <= 0)
        OBVIOUS
      <3> QED
        BY <3>1 DEF UpTo
    <2>2. Rank(places, 0) = 0
      BY <2>1, FS_EmptySet DEF Rank
    <2> QED
      BY <1>0, <2>2
  <1>4. i \in 1 .. N /\ i - 1 \in 0 .. N /\ i - 1 < i
    BY <1>3
  <1>5. ~(Rank(places, i - 1) >= n)
    BY <1>2, <1>4
  <1>6. Rank(places, i) = Rank(places, i - 1) + IF i \in places THEN 1 ELSE 0
    BY <1>4, RankStep
  <1>7. Rank(places, i) \in Nat /\ Rank(places, i - 1) \in Nat
    BY RankType
  <1> QED
    BY <1>0, <1>2, <1>5, <1>6, <1>7

\* The places a list was cut down to: each one once.
Picks(list, places) ==
    {f \in [1 .. Cardinality(places) -> places] :
        /\ \A m, n \in 1 .. Cardinality(places) : f[m] = f[n] => m = n
        /\ \A i \in places : \E n \in 1 .. Cardinality(places) : f[n] = i
        /\ Sublist(list, places) = [n \in 1 .. Cardinality(places) |-> list[f[n]]]}

LEMMA SublistPicks ==
    ASSUME NEW S, NEW list \in Seq(S), NEW places \in SUBSET (1 .. Len(list))
    PROVE  Picks(list, places) # {} /\ Cardinality(places) \in Nat
  <1> DEFINE N == Len(list)
             C == Cardinality(places)
             nth(n) == CHOOSE i \in places : Cardinality({k \in places : k <= i}) = n
             f == [n \in 1 .. C |-> nth(n)]
  <1>1. N \in Nat /\ places \in SUBSET (1 .. N)
    OBVIOUS
  <1>2. C \in Nat
    BY <1>1, RankType
  <1>3. \A n \in 1 .. C : nth(n) \in places /\ Rank(places, nth(n)) = n
    <2> TAKE n \in 1 .. C
    <2>1. \E i \in places : Cardinality({k \in places : k <= i}) = n
      BY <1>1, RankExists DEF Rank, UpTo
    <2> QED
      BY <2>1 DEF Rank, UpTo
  <1>4. Sublist(list, places) = [n \in 1 .. C |-> list[nth(n)]]
    BY DEF Sublist
  <1> HIDE DEF nth, N
  <1>5. f \in [1 .. C -> places]
    BY <1>3
  <1>6. Sublist(list, places) = [n \in 1 .. C |-> list[f[n]]]
    BY <1>4
  <1>7. \A m, n \in 1 .. C : f[m] = f[n] => m = n
    BY <1>3
  <1>8. ASSUME NEW i \in places PROVE \E n \in 1 .. C : f[n] = i
    <2> DEFINE n == Rank(places, i)
    <2>1. n \in Nat /\ n <= C
      BY <1>1, RankType
    <2>2. n >= 1
      <3>1. i \in 1 .. N /\ i - 1 \in 0 .. N
        BY <1>1
      <3>2. Rank(places, i - 1) \in Nat /\ n = Rank(places, i - 1) + 1
        BY <1>1, <3>1, RankStep, RankType
      <3> QED
        BY <3>2
    <2>3. n \in 1 .. C
      BY <1>2, <2>1, <2>2
    <2>4. nth(n) \in places /\ Rank(places, nth(n)) = Rank(places, i)
      BY <1>3, <2>3
    <2>5. nth(n) = i
      BY <1>1, <2>4, RanksDiffer
    <2> QED
      BY <2>3, <2>5
  <1> HIDE DEF f
  <1> QED
    BY <1>2, <1>5, <1>6, <1>7, <1>8 DEF Picks

LEMMA SublistFacts ==
    ASSUME NEW S, NEW list \in Seq(S), NEW places \in SUBSET (1 .. Len(list))
    PROVE  /\ Sublist(list, places) \in Seq(S)
           /\ \A i \in places : \E n \in DOMAIN Sublist(list, places) : Sublist(list, places)[n] = list[i]
           /\ \A n \in DOMAIN Sublist(list, places) : \E i \in places : Sublist(list, places)[n] = list[i]
  <1>1. PICK f \in Picks(list, places) : TRUE
    BY SublistPicks
  <1> DEFINE C == Cardinality(places)
             out == Sublist(list, places)
  <1>2. C \in Nat
    BY SublistPicks
  <1>3. /\ f \in [1 .. C -> places] /\ out = [n \in 1 .. C |-> list[f[n]]]
        /\ \A i \in places : \E n \in 1 .. C : f[n] = i
    BY DEF Picks
  <1>4. \A i \in places : list[i] \in S
    OBVIOUS
  <1> HIDE DEF C, out
  <1>5. out \in [1 .. C -> S]
    BY <1>3, <1>4
  <1>6. out \in Seq(S)
    BY <1>2, <1>5
  <1>7. DOMAIN out = 1 .. C /\ \A n \in 1 .. C : f[n] \in places /\ out[n] = list[f[n]]
    BY <1>3
  <1>8. \A i \in places : \E n \in DOMAIN out : out[n] = list[i]
    BY <1>3, <1>7
  <1> QED
    BY <1>6, <1>7, <1>8 DEF out

-----------------------------------------------------------------------------
(* The webhooks. *)

HookIds == Nat \X Nat
Hook == [id : HookIds, name : HookNames, number : Nat \ {0}, sent : Nat, enabled : BOOLEAN]
Given == HookIds \cup {<<0>>}   \* what the settings may name, a webhook or not
Conf == [hooks : Seq(Hook), default : Given \cup {NoDefault}, enabled : BOOLEAN]

\* A list of store s at some second, after some removals, of some of the first webhooks.
HooksFit(s, l, now, removals, number) ==
    /\ \A i \in DOMAIN l : l[i].id[2] <= now /\ l[i].number <= number
    /\ \A i, j \in DOMAIN l : i # j => l[i].number # l[j].number
    /\ \A i, j \in DOMAIN l : i # j /\ l[i].id = l[j].id => <<s, l[i].id[2]>> \in removals

\* The next id is a new one, or the second is one of a removal.
FreshIds(s, l, now, removals) ==
    <<s, now>> \in removals \/ \A i \in DOMAIN l : l[i].id[2] = now => l[i].id[1] < Len(l)

DefaultNamed(c) ==
    \/ c.hooks = <<>> /\ c.default = NoDefault
    \/ \E i \in DOMAIN c.hooks : c.hooks[i].id = c.default

Counted(l, reached, unsaved) == \A i \in DOMAIN l : l[i].sent = reached[l[i].number] \/ l[i].number \in unsaved

SendStages == {"post", "log", "failed", "count"}

WebhookTypes ==
    /\ wbText \in [Stores -> {"none", "cut", "whole"}] /\ wbSaved \in [Stores -> Conf]
    /\ wbDefaults \in [Stores -> Seq(Hook)]
    /\ wbNow \in Nat /\ wbNumber \in Nat /\ wbSteps \in 0 .. MaxHookSteps /\ wbNumber <= wbSteps
    /\ wbReached \in [HookNumbers -> Nat] /\ \A n \in HookNumbers : n > wbNumber => wbReached[n] = 0
    /\ wbSend \in [id : HookIds \cup {NoDefault}, stage : SendStages \cup {"none"}, tries : Nat, ok : BOOLEAN]

\* A send has a webhook, and no call of it has got through before the last.
SendInv ==
    \/ wbSend = NotSending
    \/ wbSend.stage \in SendStages /\ WithId(Generic, wbSend.id) # {} /\ (wbSend.stage \in {"post", "failed"} => ~wbSend.ok)

\* The counts when the send under way has been added.
CountInv ==
    \A i \in DOMAIN Hooks(Generic) :
        LET h == Hooks(Generic)[i]
        IN  (IF UnderWay(h) THEN h.sent + 1 ELSE h.sent) = wbReached[h.number] \/ h.number \in wbUnsaved

ListsInv ==
    \A s \in Stores : /\ HooksFit(s, wbSaved[s].hooks, wbNow, wbGone, wbNumber)
                      /\ HooksFit(s, wbDefaults[s], wbNow, wbGone, wbNumber)
                      /\ FreshIds(s, Hooks(s), wbNow, wbGone)

DefaultsInv == Slack \in wbMoved \/ DefaultNamed(Config(Slack))

WebhookInv == WebhookTypes /\ ListsInv /\ DefaultsInv /\ SendInv /\ CountInv

LEMMA NobodySends ==
    ASSUME WebhookInv, wbSend = NotSending
    PROVE  Counted(Hooks(Generic), wbReached, wbUnsaved)
  <1>1. ~wbSend.ok
    BY DEF NotSending
  <1> QED
    BY <1>1 DEF WebhookInv, CountInv, UnderWay, Counted

LEMMA ConfType ==
    ASSUME WebhookTypes, NEW s \in Stores
    PROVE  /\ Config(s) \in Conf /\ Hooks(s) \in Seq(Hook) /\ Hooks(s) = Config(s).hooks
           /\ Hooks(s) = IF Readable(s) THEN wbSaved[s].hooks ELSE wbDefaults[s]
  <1>1. wbSaved[s] \in Conf /\ wbDefaults[s] \in Seq(Hook)
    BY DEF WebhookTypes
  <1>2. CASE Readable(s)
    BY <1>1, <1>2 DEF Config, Hooks, Conf
  <1>3. CASE ~Readable(s)
    <2>1. Config(s) = [Empty EXCEPT !.hooks = wbDefaults[s]]
      BY <1>3 DEF Config
    <2>2. Empty \in Conf
      BY DEF Empty, Conf
    <2>3. Config(s) \in Conf /\ Config(s).hooks = wbDefaults[s]
      BY <1>1, <2>1, <2>2 DEF Conf
    <2> QED
      BY <1>1, <1>3, <2>3 DEF Hooks
  <1> QED
    BY <1>2, <1>3

LEMMA FitGrows ==
    ASSUME NEW s \in Stores, NEW l \in Seq(Hook), NEW now \in Nat, NEW removals, NEW number \in Nat,
           HooksFit(s, l, now, removals, number),
           NEW later \in Nat, now <= later, NEW more, removals \subseteq more, NEW above \in Nat, number <= above
    PROVE  HooksFit(s, l, later, more, above)
  <1>1. \A i \in DOMAIN l : l[i].number \in Nat /\ l[i].id[2] \in Nat
    <2>1. \A i \in DOMAIN l : l[i] \in Hook
      OBVIOUS
    <2> QED
      BY <2>1 DEF Hook, HookIds
  <1>2. \A i \in DOMAIN l : l[i].id[2] <= later /\ l[i].number <= above
    BY <1>1 DEF HooksFit
  <1> QED
    BY <1>2 DEF HooksFit

\* An operation of store s that saves c, and has changed the defaults' list to c's if c was made from that.
LEMMA OperationKeeps ==
    ASSUME WebhookInv, NEW s \in Stores, NEW c \in Conf, Save(s, c),
           \/ Operation
           \/ s = Generic /\ wbSend' = NotSending /\ UNCHANGED <<wbSteps, wbNumber>>,
           \/ wbDefaults' = wbDefaults
           \/ ~Readable(s) /\ wbDefaults' = [wbDefaults EXCEPT ![s] = c.hooks],
           wbNow' = wbNow, wbNumber' \in {wbNumber, wbNumber + 1},
           wbGone \subseteq wbGone', wbMoved \subseteq wbMoved', Cut(s) => s \in wbMoved' /\ <<s, wbNow>> \in wbGone',
           HooksFit(s, c.hooks, wbNow, wbGone', wbNumber'), FreshIds(s, c.hooks, wbNow, wbGone'),
           s = Slack => wbReached' = wbReached /\ (Slack \in wbMoved' \/ DefaultNamed(c)),
           wbReached' \in [HookNumbers -> Nat], \A n \in HookNumbers : n > wbNumber' => wbReached'[n] = 0,
           s = Generic => Counted(c.hooks, wbReached', wbUnsaved)
    PROVE  WebhookInv'
  <1>0. WebhookTypes /\ ListsInv /\ DefaultsInv /\ wbSend' = NotSending
    BY DEF WebhookInv, Operation, OnLoop
  <1>t. /\ wbText \in [Stores -> {"none", "cut", "whole"}] /\ wbSaved \in [Stores -> Conf]
        /\ wbDefaults \in [Stores -> Seq(Hook)] /\ wbNow \in Nat /\ wbNumber \in Nat
        /\ wbSteps \in 0 .. MaxHookSteps /\ wbNumber <= wbSteps
    BY <1>0 DEF WebhookTypes
  <1>c. c.hooks \in Seq(Hook) /\ Empty \in Conf /\ Empty.hooks = <<>>
    BY DEF Conf, Empty
  <1>s. \/ /\ wbText' = [wbText EXCEPT ![s] = "whole"] /\ wbSaved' = [wbSaved EXCEPT ![s] = c] /\ wbUnsaved' = wbUnsaved
        \/ /\ wbText' = [wbText EXCEPT ![s] = "cut"] /\ wbSaved' = [wbSaved EXCEPT ![s] = Empty]
           /\ wbUnsaved' = wbUnsaved \cup 1 .. wbNumber
    BY DEF Save
  <1>d. wbDefaults' \in [Stores -> Seq(Hook)] /\ wbDefaults'[s] \in {wbDefaults[s], c.hooks}
        /\ \A r \in Stores \ {s} : wbDefaults'[r] = wbDefaults[r]
    BY <1>t, <1>c
  <1>1. WebhookTypes'
    <2>1. wbText' \in [Stores -> {"none", "cut", "whole"}] /\ wbSaved' \in [Stores -> Conf]
      BY <1>t, <1>s, <1>c
    <2>2. MaxHookSteps \in Nat
      BY WebhookAssumption
    <2>3. wbSteps' \in 0 .. MaxHookSteps /\ wbNumber' \in Nat /\ wbNumber' <= wbSteps'
      BY <1>t, <2>2 DEF Operation, OnLoop
    <2>4. wbSend' \in [id : HookIds \cup {NoDefault}, stage : SendStages \cup {"none"}, tries : Nat, ok : BOOLEAN]
      BY <1>0 DEF NotSending
    <2> QED
      BY <1>t, <1>d, <2>1, <2>3, <2>4 DEF WebhookTypes
  <1>h. ASSUME NEW r \in Stores
        PROVE  /\ Hooks(r)' = IF wbText'[r] = "whole" THEN wbSaved'[r].hooks ELSE wbDefaults'[r]
               /\ Hooks(r) = IF wbText[r] = "whole" THEN wbSaved[r].hooks ELSE wbDefaults[r]
    BY DEF Hooks, Config, Readable, Empty
  <1>f. HooksFit(s, <<>>, wbNow, wbGone', wbNumber')
    BY DEF HooksFit
  <1>w. \A r \in Stores \ {s} : wbText'[r] = wbText[r] /\ wbSaved'[r] = wbSaved[r]
    BY <1>t, <1>s
  <1>o. \/ wbText'[s] = "whole" /\ wbSaved'[s] = c /\ wbUnsaved' = wbUnsaved
        \/ wbText'[s] = "cut" /\ wbSaved'[s] = Empty /\ wbUnsaved' = wbUnsaved \cup 1 .. wbNumber
    <2>1. /\ wbText' = [wbText EXCEPT ![s] = "whole"] => wbText'[s] = "whole"
          /\ wbText' = [wbText EXCEPT ![s] = "cut"] => wbText'[s] = "cut"
          /\ wbSaved' = [wbSaved EXCEPT ![s] = c] => wbSaved'[s] = c
          /\ wbSaved' = [wbSaved EXCEPT ![s] = Empty] => wbSaved'[s] = Empty
      BY <1>t
    <2> QED
      BY <1>s, <2>1
  <1>2. ListsInv'
    <2> SUFFICES ASSUME NEW r \in Stores
                 PROVE  /\ HooksFit(r, wbSaved'[r].hooks, wbNow, wbGone', wbNumber')
                        /\ HooksFit(r, wbDefaults'[r], wbNow, wbGone', wbNumber')
                        /\ FreshIds(r, Hooks(r)', wbNow, wbGone')
      BY DEF ListsInv
    <2>1. wbSaved[r].hooks \in Seq(Hook) /\ wbDefaults[r] \in Seq(Hook)
      BY <1>t DEF Conf
    <2>2. /\ HooksFit(r, wbSaved[r].hooks, wbNow, wbGone, wbNumber)
          /\ HooksFit(r, wbDefaults[r], wbNow, wbGone, wbNumber) /\ FreshIds(r, Hooks(r), wbNow, wbGone)
      BY <1>0 DEF ListsInv
    <2>3. wbNumber' \in Nat /\ wbNumber <= wbNumber' /\ wbNow <= wbNow
      BY <1>t
    <2>4. /\ HooksFit(r, wbSaved[r].hooks, wbNow, wbGone', wbNumber')
          /\ HooksFit(r, wbDefaults[r], wbNow, wbGone', wbNumber')
      BY <1>t, <2>1, <2>2, <2>3, FitGrows
    <2>5. CASE r = s
      <3>1. HooksFit(r, wbSaved'[r].hooks, wbNow, wbGone', wbNumber')
        BY <1>o, <1>f, <1>c, <2>5
      <3>2. HooksFit(r, wbDefaults'[r], wbNow, wbGone', wbNumber')
        BY <1>d, <2>4, <2>5
      <3>3. FreshIds(r, Hooks(r)', wbNow, wbGone')
        <4>1. CASE wbText'[s] = "whole" /\ wbSaved'[s] = c
          BY <1>h, <2>5, <4>1
        <4>2. CASE wbText'[s] = "cut"
          BY <2>5, <4>2 DEF Cut, FreshIds
        <4> QED
          BY <1>o, <4>1, <4>2
      <3> QED
        BY <3>1, <3>2, <3>3
    <2>6. CASE r # s
      <3>1. wbSaved'[r] = wbSaved[r] /\ wbDefaults'[r] = wbDefaults[r] /\ Hooks(r)' = Hooks(r)
        BY <1>w, <1>d, <1>h, <2>6
      <3>2. FreshIds(r, Hooks(r), wbNow, wbGone')
        BY <2>2 DEF FreshIds
      <3> QED
        BY <2>4, <3>1, <3>2
    <2> QED
      BY <2>5, <2>6
  <1>3. DefaultsInv'
    <2>2. ASSUME Slack \notin wbMoved' PROVE DefaultNamed(Config(Slack))'
      <3>1. CASE s = Slack
        <4>1. wbText'[s] = "whole" /\ wbSaved'[s] = c
          BY <1>o, <2>2, <3>1 DEF Cut
        <4>2. Config(Slack)' = c
          BY <3>1, <4>1 DEF Config, Readable
        <4> QED
          BY <2>2, <3>1, <4>2 DEF DefaultNamed
      <3>2. CASE s # Slack
        <4>1. Slack \in Stores \ {s} /\ Slack \notin wbMoved
          BY <2>2, <3>2 DEF Stores
        <4>2. Config(Slack)' = Config(Slack)
          BY <1>w, <1>d, <4>1 DEF Config, Readable
        <4> QED
          BY <1>0, <4>1, <4>2 DEF DefaultsInv, DefaultNamed
      <3> QED
        BY <3>1, <3>2
    <2> QED
      BY <2>2 DEF DefaultsInv
  <1>4. Counted(Hooks(Generic), wbReached, wbUnsaved)'
    <2>0. Generic \in Stores
      BY DEF Stores
    <2>1. CASE s = Generic
      <3>1. CASE wbText'[s] = "whole" /\ wbSaved'[s] = c /\ wbUnsaved' = wbUnsaved
        BY <1>h, <2>0, <2>1, <3>1
      <3>2. CASE wbText'[s] = "cut" /\ wbUnsaved' = wbUnsaved \cup 1 .. wbNumber
        <4>1. Hooks(Generic)' = wbDefaults'[s]
          BY <1>h, <2>0, <2>1, <3>2
        <4>2. CASE wbDefaults'[s] = c.hooks
          BY <2>1, <3>2, <4>1, <4>2 DEF Counted
        <4>3. CASE wbDefaults'[s] = wbDefaults[s]
          <5>1. \A i \in DOMAIN wbDefaults[s] : wbDefaults[s][i].number \in 1 .. wbNumber
            <6>1. \A i \in DOMAIN wbDefaults[s] : wbDefaults[s][i] \in Hook /\ wbDefaults[s][i].number <= wbNumber
              <7>1. wbDefaults[s] \in Seq(Hook)
                BY <1>t
              <7> QED
                BY <1>0, <7>1 DEF ListsInv, HooksFit
            <6> QED
              BY <1>t, <6>1 DEF Hook
          <5> QED
            BY <3>2, <4>1, <4>3, <5>1 DEF Counted
        <4> QED
          BY <1>d, <4>2, <4>3
      <3> QED
        BY <1>o, <3>1, <3>2
    <2>2. CASE s # Generic
      <3>1. s = Slack /\ Generic \in Stores \ {s} /\ wbSend = NotSending
        BY <2>2 DEF Stores, Operation, OnLoop
      <3>2. Hooks(Generic)' = Hooks(Generic) /\ wbReached' = wbReached /\ wbUnsaved \subseteq wbUnsaved'
        BY <1>h, <1>w, <1>d, <1>o, <3>1
      <3>3. Counted(Hooks(Generic), wbReached, wbUnsaved)
        BY <3>1, NobodySends
      <3> QED
        BY <3>2, <3>3 DEF Counted
    <2> QED
      BY <2>1, <2>2
  <1>5. CountInv' /\ SendInv'
    <2>1. ~wbSend'.ok
      BY <1>0 DEF NotSending
    <2> QED
      BY <1>0, <1>4, <2>1 DEF CountInv, UnderWay, Counted, SendInv
  <1> QED
    BY <1>1, <1>2, <1>3, <1>5 DEF WebhookInv

LEMMA Excuses ==
    ASSUME NEW s \in Stores, NEW moved \in BOOLEAN, NEW removed \in BOOLEAN, Moved(s, moved), Gone(s, removed)
    PROVE  /\ wbMoved \subseteq wbMoved' /\ wbGone \subseteq wbGone'
           /\ Cut(s) => s \in wbMoved' /\ <<s, wbNow>> \in wbGone'
           /\ moved => s \in wbMoved'
           /\ removed => <<s, wbNow>> \in wbGone'
  BY DEF Moved, Gone

\* What is known of the list an operation of store s begins with.
LEMMA HooksNow ==
    ASSUME WebhookInv, NEW s \in Stores, NEW more, wbGone \subseteq more, NEW number \in {wbNumber, wbNumber + 1}
    PROVE  /\ HooksFit(s, Hooks(s), wbNow, more, number) /\ FreshIds(s, Hooks(s), wbNow, more)
           /\ Config(s) \in Conf /\ Hooks(s) \in Seq(Hook) /\ Hooks(s) = Config(s).hooks
           /\ wbNow \in Nat /\ wbNumber \in Nat /\ wbReached \in [HookNumbers -> Nat]
           /\ \A n \in HookNumbers : n > wbNumber => wbReached[n] = 0
           /\ s = Generic /\ wbSend = NotSending => Counted(Hooks(s), wbReached, wbUnsaved)
           /\ s = Slack => s \in wbMoved \/ DefaultNamed(Config(s))
  <1>1. /\ Config(s) \in Conf /\ Hooks(s) \in Seq(Hook) /\ Hooks(s) = Config(s).hooks
        /\ Hooks(s) = IF Readable(s) THEN wbSaved[s].hooks ELSE wbDefaults[s]
    BY ConfType DEF WebhookInv
  <1>2. /\ wbNow \in Nat /\ wbNumber \in Nat /\ wbReached \in [HookNumbers -> Nat]
        /\ \A n \in HookNumbers : n > wbNumber => wbReached[n] = 0
    BY DEF WebhookInv, WebhookTypes
  <1>3. HooksFit(s, Hooks(s), wbNow, wbGone, wbNumber) /\ FreshIds(s, Hooks(s), wbNow, wbGone)
    BY <1>1 DEF WebhookInv, ListsInv
  <1>4. number \in Nat /\ wbNumber <= number /\ wbNow <= wbNow
    BY <1>2
  <1>5. HooksFit(s, Hooks(s), wbNow, more, number)
    BY <1>1, <1>2, <1>3, <1>4, FitGrows
  <1>6. FreshIds(s, Hooks(s), wbNow, more)
    BY <1>3 DEF FreshIds
  <1> QED
    BY <1>1, <1>2, <1>5, <1>6, NobodySends DEF WebhookInv, DefaultsInv

LEMMA AddStep ==
    ASSUME WebhookInv, NEW s \in Stores, NEW called \in HookNames, AddWebhook(s, called)
    PROVE  WebhookInv'
  <1>1. PICK l : l = Hooks(s)
    OBVIOUS
  <1>2. PICK h : h = [id |-> <<Len(l), wbNow>>, name |-> called, number |-> wbNumber + 1, sent |-> 0, enabled |-> TRUE]
    OBVIOUS
  <1>3. PICK m : m = Append(l, h)
    OBVIOUS
  <1>4. PICK c : c = [Config(s) EXCEPT !.hooks = m, !.default = IF s = Slack /\ Config(s).default = NoDefault THEN h.id ELSE Config(s).default]
    OBVIOUS
  <1>5. /\ Operation /\ wbSend = NotSending /\ wbNumber' = wbNumber + 1 /\ Save(s, c) /\ wbNow' = wbNow /\ wbReached' = wbReached
        /\ wbDefaults' = IF Readable(s) THEN wbDefaults ELSE [wbDefaults EXCEPT ![s] = m]
        /\ Moved(s, FALSE) /\ Gone(s, FALSE)
    BY <1>1, <1>2, <1>3, <1>4 DEF AddWebhook, InPlace, NewId, Operation, OnLoop
  <1>6. wbMoved \subseteq wbMoved' /\ wbGone \subseteq wbGone' /\ (Cut(s) => s \in wbMoved' /\ <<s, wbNow>> \in wbGone')
    BY <1>5, Excuses
  <1>7. /\ HooksFit(s, l, wbNow, wbGone', wbNumber) /\ FreshIds(s, l, wbNow, wbGone')
        /\ Config(s) \in Conf /\ l \in Seq(Hook) /\ l = Config(s).hooks
        /\ wbNow \in Nat /\ wbNumber \in Nat /\ wbReached \in [HookNumbers -> Nat]
        /\ \A n \in HookNumbers : n > wbNumber => wbReached[n] = 0
        /\ s = Generic => Counted(l, wbReached, wbUnsaved)
        /\ s = Slack => s \in wbMoved \/ DefaultNamed(Config(s))
    BY <1>1, <1>5, <1>6, HooksNow
  <1>8. Len(l) \in Nat /\ h \in Hook
    <2>1. Len(l) \in Nat /\ wbNumber + 1 \in Nat \ {0}
      BY <1>7
    <2> QED
      BY <1>2, <1>7, <2>1 DEF Hook, HookIds
  <1>9. /\ m \in Seq(Hook) /\ Len(m) = Len(l) + 1 /\ m[Len(l) + 1] = h /\ DOMAIN m = 1 .. Len(l) + 1
        /\ \A i \in 1 .. Len(l) : m[i] = l[i]
    BY <1>3, <1>7, <1>8, AppendProperties
  <1>10. DOMAIN l = 1 .. Len(l) /\ \A i \in DOMAIN m : i \in DOMAIN l \/ i = Len(l) + 1
    BY <1>7, <1>8, <1>9
  <1>11. \A i \in DOMAIN l : l[i] \in Hook /\ l[i].number \in Nat /\ l[i].number <= wbNumber /\ l[i].id[2] <= wbNow
    <2>1. \A i \in DOMAIN l : l[i] \in Hook
      BY <1>7
    <2>2. \A i \in DOMAIN l : l[i].number \in Nat
      BY <2>1 DEF Hook
    <2> QED
      BY <1>7, <2>1, <2>2 DEF HooksFit
  <1>12. c \in Conf /\ c.hooks = m /\ (c.default = IF s = Slack /\ Config(s).default = NoDefault THEN h.id ELSE Config(s).default)
    BY <1>4, <1>7, <1>8, <1>9 DEF Conf, Given, Hook
  <1>13. \A i \in DOMAIN m : m[i] = h \/ (i \in DOMAIN l /\ m[i] = l[i])
    BY <1>9, <1>10
  <1>14. h.number = wbNumber + 1 /\ h.id = <<Len(l), wbNow>> /\ h.id[1] = Len(l) /\ h.id[2] = wbNow /\ h.sent = 0
    BY <1>2
  <1>15. HooksFit(s, m, wbNow, wbGone', wbNumber + 1)
    <2>1. \A i \in DOMAIN m : m[i].id[2] <= wbNow /\ m[i].number <= wbNumber + 1
      BY <1>7, <1>11, <1>13, <1>14
    <2>2. \A i \in DOMAIN l : l[i].number # h.number /\ (l[i].id = h.id => <<s, wbNow>> \in wbGone')
      <3> TAKE i \in DOMAIN l
      <3>1. l[i].number # h.number
        BY <1>7, <1>11, <1>14
      <3>2. l[i].id = h.id => l[i].id[2] = wbNow /\ ~(l[i].id[1] < Len(l))
        BY <1>8, <1>14
      <3> QED
        BY <1>7, <3>1, <3>2 DEF FreshIds
    <2>3. ASSUME NEW i \in DOMAIN m, NEW j \in DOMAIN m, i # j
          PROVE  m[i].number # m[j].number /\ (m[i].id = m[j].id => <<s, m[i].id[2]>> \in wbGone')
      <3>1. CASE i \in DOMAIN l /\ j \in DOMAIN l
        <4>1. m[i] = l[i] /\ m[j] = l[j]
          BY <1>9, <1>10, <3>1
        <4>2. l[i].number # l[j].number /\ (l[i].id = l[j].id => <<s, l[i].id[2]>> \in wbGone')
          BY <1>7, <2>3, <3>1 DEF HooksFit
        <4> QED
          BY <2>3, <3>1, <4>1, <4>2
      <3>2. CASE i = Len(l) + 1 /\ j \in DOMAIN l
        BY <1>9, <1>10, <1>14, <2>2, <3>2
      <3>3. CASE j = Len(l) + 1 /\ i \in DOMAIN l
        BY <1>9, <1>10, <1>14, <2>2, <3>3
      <3> QED
        BY <1>10, <2>3, <3>1, <3>2, <3>3
    <2> QED
      BY <2>1, <2>3 DEF HooksFit
  <1>16. FreshIds(s, m, wbNow, wbGone')
    <2>1. ASSUME <<s, wbNow>> \notin wbGone', NEW i \in DOMAIN m, m[i].id[2] = wbNow PROVE m[i].id[1] < Len(m)
      <3>1. CASE m[i] = h
        BY <1>8, <1>9, <1>14, <3>1
      <3>2. CASE i \in DOMAIN l /\ m[i] = l[i]
        <4>1. l[i].id[1] < Len(l) /\ l[i].id[1] \in Nat
          BY <1>7, <1>11, <2>1, <3>2 DEF FreshIds, Hook, HookIds
        <4> QED
          BY <1>8, <1>9, <3>2, <4>1
      <3> QED
        BY <1>13, <3>1, <3>2
    <2> QED
      BY <2>1 DEF FreshIds
  <1>17. s = Slack => Slack \in wbMoved' \/ DefaultNamed(c)
    <2> SUFFICES ASSUME s = Slack, Slack \notin wbMoved' PROVE DefaultNamed(c)
      OBVIOUS
    <2>1. DefaultNamed(Config(s))
      BY <1>6, <1>7
    <2>2. CASE Config(s).default = NoDefault
      <3>1. c.default = h.id /\ Len(l) + 1 \in DOMAIN m
        BY <1>8, <1>9, <1>12, <2>2
      <3> QED
        BY <1>9, <1>12, <3>1 DEF DefaultNamed
    <2>3. CASE Config(s).default # NoDefault
      <3>1. PICK i \in DOMAIN l : l[i].id = Config(s).default
        BY <1>7, <2>1, <2>3 DEF DefaultNamed
      <3>2. i \in DOMAIN m /\ m[i] = l[i]
        BY <1>8, <1>9, <1>10
      <3> QED
        BY <1>12, <2>3, <3>1, <3>2 DEF DefaultNamed
    <2> QED
      BY <2>2, <2>3
  <1>18. s = Generic => Counted(m, wbReached, wbUnsaved)
    <2> SUFFICES ASSUME s = Generic, NEW i \in DOMAIN m
                 PROVE  m[i].sent = wbReached[m[i].number] \/ m[i].number \in wbUnsaved
      BY DEF Counted
    <2>1. CASE m[i] = h
      <3>1. wbNumber + 1 \in HookNumbers /\ wbNumber + 1 > wbNumber
        <4>1. wbSteps < MaxHookSteps /\ wbSteps \in 0 .. MaxHookSteps /\ wbNumber <= wbSteps /\ MaxHookSteps \in Nat
          BY <1>5, WebhookAssumption DEF Operation, OnLoop, WebhookInv, WebhookTypes
        <4> QED
          BY <1>7, <4>1 DEF HookNumbers
      <3> QED
        BY <1>7, <1>14, <2>1, <3>1
    <2>2. CASE i \in DOMAIN l /\ m[i] = l[i]
      BY <1>7, <2>2 DEF Counted
    <2> QED
      BY <1>13, <2>1, <2>2
  <1>19. \A n \in HookNumbers : n > wbNumber + 1 => wbReached[n] = 0
    <2>1. \A n \in HookNumbers : n > wbNumber + 1 => n > wbNumber
      BY <1>7, WebhookAssumption DEF HookNumbers
    <2> QED
      BY <1>7, <2>1
  <1> QED
    BY <1>5, <1>6, <1>7, <1>12, <1>15, <1>16, <1>17, <1>18, <1>19, OperationKeeps

\* Hooks that are changed without their ids and numbers.
LEMMA SameIds ==
    ASSUME NEW s \in Stores, NEW l \in Seq(Hook), NEW m \in Seq(Hook), Len(m) = Len(l),
           \A i \in DOMAIN l : m[i].id = l[i].id /\ m[i].number = l[i].number
    PROVE  /\ \A now, removals, number : HooksFit(s, l, now, removals, number) => HooksFit(s, m, now, removals, number)
           /\ \A now, removals : FreshIds(s, l, now, removals) => FreshIds(s, m, now, removals)
           /\ DOMAIN m = DOMAIN l /\ (l = <<>> => m = <<>>)
  <1>1. DOMAIN m = DOMAIN l /\ (l = <<>> => m = <<>>)
    OBVIOUS
  <1>2. \A now, removals, number : HooksFit(s, l, now, removals, number) => HooksFit(s, m, now, removals, number)
    BY <1>1 DEF HooksFit
  <1>3. \A now, removals : FreshIds(s, l, now, removals) => FreshIds(s, m, now, removals)
    BY <1>1 DEF FreshIds
  <1> QED
    BY <1>1, <1>2, <1>3

\* The first webhook of an id.
LEMMA FirstFound ==
    ASSUME WebhookTypes, NEW s \in Stores, NEW id, WithId(s, id) # {}
    PROVE  Min(WithId(s, id)) \in DOMAIN Hooks(s) /\ Hooks(s)[Min(WithId(s, id))].id = id
  <1>1. Hooks(s) \in Seq(Hook)
    BY ConfType
  <1>2. WithId(s, id) \in SUBSET Nat
    BY <1>1 DEF WithId
  <1>3. \E x \in WithId(s, id) : \A y \in WithId(s, id) : x <= y
    BY <1>2, SmallestExists
  <1>4. Min(WithId(s, id)) \in WithId(s, id)
    BY <1>3 DEF Min
  <1> QED
    BY <1>4 DEF WithId

LEMMA UpdateStep ==
    ASSUME WebhookInv, NEW s \in Stores, NEW id, NEW called \in HookNames, NEW enabled \in BOOLEAN,
           UpdateWebhook(s, id, called, enabled)
    PROVE  WebhookInv'
  <1>1. PICK l : l = Hooks(s)
    OBVIOUS
  <1>2. PICK k : k = Min(WithId(s, id))
    OBVIOUS
  <1>3. PICK m : m = [l EXCEPT ![k].name = called, ![k].enabled = enabled]
    OBVIOUS
  <1>4. PICK c : c = [Config(s) EXCEPT !.hooks = m]
    OBVIOUS
  <1>5. /\ Operation /\ wbSend = NotSending /\ wbNumber' = wbNumber /\ Save(s, c) /\ wbNow' = wbNow /\ wbReached' = wbReached
        /\ wbDefaults' = IF Readable(s) THEN wbDefaults ELSE [wbDefaults EXCEPT ![s] = m]
        /\ Moved(s, FALSE) /\ Gone(s, FALSE)
    BY <1>1, <1>2, <1>3, <1>4 DEF UpdateWebhook, InPlace, Operation, OnLoop
  <1>6. wbMoved \subseteq wbMoved' /\ wbGone \subseteq wbGone' /\ (Cut(s) => s \in wbMoved' /\ <<s, wbNow>> \in wbGone')
    BY <1>5, Excuses
  <1>7. /\ HooksFit(s, l, wbNow, wbGone', wbNumber) /\ FreshIds(s, l, wbNow, wbGone')
        /\ Config(s) \in Conf /\ l \in Seq(Hook) /\ l = Config(s).hooks
        /\ wbNow \in Nat /\ wbNumber \in Nat /\ wbReached \in [HookNumbers -> Nat]
        /\ \A n \in HookNumbers : n > wbNumber => wbReached[n] = 0
        /\ s = Generic => Counted(l, wbReached, wbUnsaved)
        /\ s = Slack => s \in wbMoved \/ DefaultNamed(Config(s))
    BY <1>1, <1>5, <1>6, HooksNow
  <1>8. k \in DOMAIN l /\ l[k] \in Hook
    <2>1. k \in DOMAIN l
      BY <1>1, <1>2, FirstFound DEF UpdateWebhook, WebhookInv
    <2> QED
      BY <1>7, <2>1
  <1>9. m = [l EXCEPT ![k] = [l[k] EXCEPT !.name = called, !.enabled = enabled]]
    BY <1>3, <1>7, <1>8
  <1>10. PICK h : h = [l[k] EXCEPT !.name = called, !.enabled = enabled]
    OBVIOUS
  <1>11. h \in Hook /\ h.id = l[k].id /\ h.number = l[k].number /\ h.sent = l[k].sent
    BY <1>8, <1>10 DEF Hook
  <1>12. m \in Seq(Hook) /\ Len(m) = Len(l) /\ DOMAIN m = DOMAIN l /\ \A i \in DOMAIN l : m[i] = IF i = k THEN h ELSE l[i]
    BY <1>7, <1>8, <1>9, <1>10, <1>11
  <1>13. \A i \in DOMAIN l : m[i].id = l[i].id /\ m[i].number = l[i].number /\ m[i].sent = l[i].sent
    BY <1>11, <1>12
  <1>14. HooksFit(s, m, wbNow, wbGone', wbNumber) /\ FreshIds(s, m, wbNow, wbGone') /\ (l = <<>> => m = <<>>)
    BY <1>7, <1>12, <1>13, SameIds
  <1>15. c \in Conf /\ c.hooks = m /\ c.default = Config(s).default
    BY <1>4, <1>7, <1>12 DEF Conf
  <1>16. s = Slack => Slack \in wbMoved' \/ DefaultNamed(c)
    BY <1>6, <1>7, <1>12, <1>13, <1>14, <1>15 DEF DefaultNamed
  <1>17. s = Generic => Counted(m, wbReached, wbUnsaved)
    BY <1>7, <1>12, <1>13 DEF Counted
  <1> QED
    BY <1>5, <1>6, <1>7, <1>14, <1>15, <1>16, <1>17, OperationKeeps

LEMMA RemoveStep ==
    ASSUME WebhookInv, NEW s \in Stores, NEW id, RemoveWebhook(s, id)
    PROVE  WebhookInv'
  <1>1. PICK l : l = Hooks(s)
    OBVIOUS
  <1>2. PICK places : places = DOMAIN l \ WithId(s, id)
    OBVIOUS
  <1>3. PICK m : m = Sublist(l, places)
    OBVIOUS
  <1>4. PICK c : c = [Config(s) EXCEPT !.hooks = m, !.default = DefaultAfter(s, m, id)]
    OBVIOUS
  <1>5. /\ Operation /\ wbSend = NotSending /\ wbNumber' = wbNumber /\ Save(s, c) /\ wbNow' = wbNow /\ wbReached' = wbReached
        /\ wbDefaults' = wbDefaults /\ Moved(s, FALSE) /\ Gone(s, TRUE) /\ WithId(s, id) # {}
    BY <1>1, <1>2, <1>3, <1>4 DEF RemoveWebhook, Operation, OnLoop
  <1>6. /\ wbMoved \subseteq wbMoved' /\ wbGone \subseteq wbGone' /\ (Cut(s) => s \in wbMoved' /\ <<s, wbNow>> \in wbGone')
        /\ <<s, wbNow>> \in wbGone'
    BY <1>5, Excuses
  <1>7. /\ HooksFit(s, l, wbNow, wbGone', wbNumber)
        /\ Config(s) \in Conf /\ l \in Seq(Hook) /\ l = Config(s).hooks
        /\ wbNow \in Nat /\ wbNumber \in Nat /\ wbReached \in [HookNumbers -> Nat]
        /\ \A n \in HookNumbers : n > wbNumber => wbReached[n] = 0
        /\ s = Generic => Counted(l, wbReached, wbUnsaved)
        /\ s = Slack => s \in wbMoved \/ DefaultNamed(Config(s))
    BY <1>1, <1>5, <1>6, HooksNow
  <1>8. DOMAIN l = 1 .. Len(l) /\ places \in SUBSET (1 .. Len(l))
    BY <1>2, <1>7
  <1>9. PICK f \in Picks(l, places) : TRUE
    BY <1>7, <1>8, SublistPicks
  <1>10. PICK n : n = Cardinality(places)
    OBVIOUS
  <1>11. /\ n \in Nat /\ f \in [1 .. n -> places] /\ m = [i \in 1 .. n |-> l[f[i]]]
         /\ \A i, j \in 1 .. n : f[i] = f[j] => i = j
         /\ \A i \in places : \E j \in 1 .. n : f[j] = i
    BY <1>3, <1>7, <1>8, <1>9, <1>10, SublistPicks DEF Picks
  <1>12. m \in Seq(Hook) /\ DOMAIN m = 1 .. n /\ \A i \in 1 .. n : f[i] \in DOMAIN l /\ m[i] = l[f[i]]
    <2>1. \A i \in 1 .. n : f[i] \in DOMAIN l
      BY <1>8, <1>11
    <2>2. \A i \in 1 .. n : l[f[i]] \in Hook
      BY <1>7, <2>1
    <2>3. m \in [1 .. n -> Hook]
      BY <1>11, <2>2
    <2> QED
      BY <1>11, <2>1, <2>3
  <1>13. HooksFit(s, m, wbNow, wbGone', wbNumber)
    <2>1. HooksFit(s, l, wbNow, wbGone', wbNumber)
      BY <1>7
    <2>2. \A i \in DOMAIN m : m[i].id[2] <= wbNow /\ m[i].number <= wbNumber
      BY <1>12, <2>1 DEF HooksFit
    <2>3. \A i, j \in DOMAIN m : i # j => f[i] # f[j]
      BY <1>11, <1>12
    <2>4. \A i, j \in DOMAIN m : i # j => m[i].number # m[j].number
      BY <1>12, <2>1, <2>3 DEF HooksFit
    <2>5. \A i, j \in DOMAIN m : i # j /\ m[i].id = m[j].id => <<s, m[i].id[2]>> \in wbGone'
      BY <1>12, <2>1, <2>3 DEF HooksFit
    <2> QED
      BY <2>2, <2>4, <2>5 DEF HooksFit
  <1>14. FreshIds(s, m, wbNow, wbGone')
    BY <1>6 DEF FreshIds
  <1>15. DefaultAfter(s, m, id) \in Given \cup {NoDefault}
    <2>1. Config(s).default \in Given \cup {NoDefault}
      BY <1>7 DEF Conf
    <2>2. ASSUME m # <<>> PROVE m[1].id \in HookIds
      <3>1. 1 \in DOMAIN m
        <4>1. n # 0
          BY <1>11, <1>12, <2>2
        <4> QED
          BY <1>11, <1>12, <4>1
      <3>2. m[1] \in Hook
        <4>1. 1 \in 1 .. n /\ m[1] = l[f[1]] /\ f[1] \in DOMAIN l
          BY <1>12, <3>1
        <4> QED
          BY <1>7, <4>1
      <3> QED
        BY <3>2 DEF Hook
    <2> QED
      BY <2>1, <2>2 DEF DefaultAfter, Given
  <1>16. c \in Conf /\ c.hooks = m /\ c.default = DefaultAfter(s, m, id)
    BY <1>4, <1>7, <1>12, <1>15 DEF Conf
  <1>17. s = Slack => Slack \in wbMoved' \/ DefaultNamed(c)
    <2> SUFFICES ASSUME s = Slack, Slack \notin wbMoved' PROVE DefaultNamed(c)
      OBVIOUS
    <2>1. PICK i \in DOMAIN l : l[i].id = Config(s).default
      <3>1. DefaultNamed(Config(s)) /\ l # <<>>
        BY <1>1, <1>5, <1>6, <1>7 DEF WithId
      <3> QED
        BY <1>7, <3>1 DEF DefaultNamed
    <2>2. CASE Config(s).default = id
      <3>1. m # <<>> => 1 \in DOMAIN m
        <4>1. m # <<>> => n # 0
          BY <1>11, <1>12
        <4> QED
          BY <1>11, <1>12, <4>1
      <3> QED
        BY <1>16, <2>2, <3>1 DEF DefaultAfter, DefaultNamed
    <2>3. CASE Config(s).default # id
      <3>1. i \in places
        BY <1>1, <1>2, <2>1, <2>3 DEF WithId
      <3>2. PICK j \in 1 .. n : f[j] = i
        BY <1>11, <3>1
      <3>3. m[j].id = Config(s).default
        BY <1>12, <2>1, <3>2
      <3> QED
        BY <1>12, <1>16, <2>3, <3>3 DEF DefaultAfter, DefaultNamed
    <2> QED
      BY <2>2, <2>3
  <1>18. s = Generic => Counted(m, wbReached, wbUnsaved)
    BY <1>7, <1>12 DEF Counted
  <1> QED
    BY <1>5, <1>6, <1>7, <1>13, <1>14, <1>16, <1>17, <1>18, OperationKeeps

LEMMA SettingsStep ==
    ASSUME WebhookInv, NEW s \in Stores, NEW enabled \in BOOLEAN, SaveSettings(s, enabled)
    PROVE  WebhookInv'
  <1>1. PICK l : l = Hooks(s)
    OBVIOUS
  <1>2. PICK c : c = [Config(s) EXCEPT !.enabled = enabled]
    OBVIOUS
  <1>3. /\ Operation /\ wbSend = NotSending /\ wbNumber' = wbNumber /\ Save(s, c) /\ wbNow' = wbNow /\ wbReached' = wbReached
        /\ wbDefaults' = wbDefaults /\ Moved(s, FALSE) /\ Gone(s, FALSE)
    BY <1>2 DEF SaveSettings, Operation, OnLoop
  <1>4. wbMoved \subseteq wbMoved' /\ wbGone \subseteq wbGone' /\ (Cut(s) => s \in wbMoved' /\ <<s, wbNow>> \in wbGone')
    BY <1>3, Excuses
  <1>5. /\ HooksFit(s, l, wbNow, wbGone', wbNumber) /\ FreshIds(s, l, wbNow, wbGone')
        /\ Config(s) \in Conf /\ l = Config(s).hooks
        /\ wbNow \in Nat /\ wbNumber \in Nat /\ wbReached \in [HookNumbers -> Nat]
        /\ \A n \in HookNumbers : n > wbNumber => wbReached[n] = 0
        /\ s = Generic => Counted(l, wbReached, wbUnsaved)
        /\ s = Slack => s \in wbMoved \/ DefaultNamed(Config(s))
    BY <1>1, <1>3, <1>4, HooksNow
  <1>6. c \in Conf /\ c.hooks = l /\ c.default = Config(s).default
    BY <1>2, <1>5 DEF Conf
  <1>7. s = Slack => Slack \in wbMoved' \/ DefaultNamed(c)
    BY <1>4, <1>5, <1>6 DEF DefaultNamed
  <1> QED
    BY <1>3, <1>4, <1>5, <1>6, <1>7, OperationKeeps

LEMMA SetDefaultStep ==
    ASSUME WebhookInv, NEW id \in Given, SetDefault(id)
    PROVE  WebhookInv'
  <1>0. Slack \in Stores /\ Slack # Generic
    BY WebhookAssumption DEF Stores
  <1>1. PICK l : l = Hooks(Slack)
    OBVIOUS
  <1>2. PICK c : c = [Config(Slack) EXCEPT !.default = id]
    OBVIOUS
  <1>3. /\ Operation /\ wbNumber' = wbNumber /\ Save(Slack, c) /\ wbNow' = wbNow /\ wbReached' = wbReached
        /\ wbDefaults' = wbDefaults /\ Moved(Slack, TRUE) /\ Gone(Slack, FALSE)
    BY <1>2 DEF SetDefault
  <1>4. /\ wbMoved \subseteq wbMoved' /\ wbGone \subseteq wbGone' /\ (Cut(Slack) => Slack \in wbMoved' /\ <<Slack, wbNow>> \in wbGone')
        /\ Slack \in wbMoved'
    BY <1>0, <1>3, Excuses
  <1>5. /\ HooksFit(Slack, l, wbNow, wbGone', wbNumber) /\ FreshIds(Slack, l, wbNow, wbGone')
        /\ Config(Slack) \in Conf /\ l = Config(Slack).hooks
        /\ wbNow \in Nat /\ wbNumber \in Nat /\ wbReached \in [HookNumbers -> Nat]
        /\ \A n \in HookNumbers : n > wbNumber => wbReached[n] = 0
    BY <1>0, <1>1, <1>4, HooksNow
  <1>6. c \in Conf /\ c.hooks = l
    BY <1>2, <1>5 DEF Conf
  <1> QED
    BY <1>0, <1>3, <1>4, <1>5, <1>6, OperationKeeps

\* A step that leaves the stores and the clock alone.
LEMMA StoresStay ==
    ASSUME WebhookInv,
           UNCHANGED <<wbText, wbSaved, wbDefaults, wbNow, wbNumber, wbMoved, wbGone>>,
           wbSteps' \in {wbSteps, wbSteps + 1}, wbSteps' <= MaxHookSteps,
           wbReached' \in [HookNumbers -> Nat], \A n \in HookNumbers : n > wbNumber => wbReached'[n] = 0,
           wbSend' \in [id : HookIds \cup {NoDefault}, stage : SendStages \cup {"none"}, tries : Nat, ok : BOOLEAN]
    PROVE  /\ WebhookTypes' /\ ListsInv' /\ DefaultsInv'
           /\ \A s \in Stores : Config(s)' = Config(s) /\ Hooks(s)' = Hooks(s)
           /\ \A s \in Stores : \A id : WithId(s, id)' = WithId(s, id)
           /\ \A id : Target(id)' = Target(id)
  <1>0. wbSteps' \in 0 .. MaxHookSteps /\ wbNumber <= wbSteps'
    <2>1. wbSteps \in 0 .. MaxHookSteps /\ wbNumber \in Nat /\ wbNumber <= wbSteps /\ MaxHookSteps \in Nat
      BY WebhookAssumption DEF WebhookInv, WebhookTypes
    <2> QED
      BY <2>1
  <1>1. WebhookTypes'
    BY <1>0 DEF WebhookInv, WebhookTypes
  <1>2. ASSUME NEW s \in Stores PROVE Config(s)' = Config(s) /\ Hooks(s)' = Hooks(s)
    BY DEF Hooks, Config, Readable
  <1>3. ASSUME NEW s \in Stores, NEW id PROVE WithId(s, id)' = WithId(s, id)
    BY <1>2 DEF WithId
  <1>4. ASSUME NEW id PROVE Target(id)' = Target(id)
    <2>1. Generic \in Stores
      BY DEF Stores
    <2> QED
      BY <1>2, <1>3, <2>1 DEF Target
  <1>5. ListsInv'
    <2> SUFFICES ASSUME NEW s \in Stores
                 PROVE  /\ HooksFit(s, wbSaved[s].hooks, wbNow, wbGone, wbNumber)
                        /\ HooksFit(s, wbDefaults[s], wbNow, wbGone, wbNumber)
                        /\ FreshIds(s, Hooks(s), wbNow, wbGone)
      BY <1>2 DEF ListsInv
    <2> QED
      BY DEF WebhookInv, ListsInv
  <1>6. DefaultsInv'
    <2>1. Slack \in Stores
      BY DEF Stores
    <2> QED
      BY <1>2, <2>1 DEF WebhookInv, DefaultsInv, DefaultNamed
  <1> QED
    BY <1>1, <1>2, <1>3, <1>4, <1>5, <1>6

\* The webhook a send calls.
LEMMA Called ==
    ASSUME WebhookInv, wbSend # NotSending
    PROVE  /\ Min(WithId(Generic, wbSend.id)) \in DOMAIN Hooks(Generic) /\ Target(wbSend.id) \in Hook
           /\ Target(wbSend.id).number \in HookNumbers /\ Target(wbSend.id).number <= wbNumber
           /\ \A i \in DOMAIN Hooks(Generic) : Hooks(Generic)[i].number \in HookNumbers
           /\ \A i \in DOMAIN Hooks(Generic) :
                Hooks(Generic)[i].number = Target(wbSend.id).number => i = Min(WithId(Generic, wbSend.id))
  <1> DEFINE l == Hooks(Generic)
             k == Min(WithId(Generic, wbSend.id))
  <1>1. Generic \in Stores
    BY DEF Stores
  <1>2. l \in Seq(Hook) /\ HooksFit(Generic, l, wbNow, wbGone, wbNumber)
    BY <1>1, HooksNow
  <1>3. k \in DOMAIN l
    BY <1>1, FirstFound DEF WebhookInv, SendInv
  <1>4. \A i \in DOMAIN l : l[i] \in Hook
    BY <1>2
  <1>5. \A i \in DOMAIN l : l[i].number \in Nat \ {0} /\ l[i].number <= wbNumber
    BY <1>2, <1>4 DEF HooksFit, Hook
  <1>6. wbNumber \in Nat /\ wbNumber <= wbSteps /\ wbSteps \in 0 .. MaxHookSteps /\ MaxHookSteps \in Nat
    BY WebhookAssumption DEF WebhookInv, WebhookTypes
  <1>7. \A i \in DOMAIN l : l[i].number \in HookNumbers
    BY <1>5, <1>6 DEF HookNumbers
  <1>8. \A i \in DOMAIN l : l[i].number = l[k].number => i = k
    BY <1>2, <1>3 DEF HooksFit
  <1>9. Target(wbSend.id) = l[k]
    BY DEF Target
  <1> QED
    BY <1>3, <1>4, <1>5, <1>7, <1>8, <1>9

LEMMA BeginStep ==
    ASSUME WebhookInv, NEW id \in Ids(Generic), SendWebhook(id)
    PROVE  WebhookInv'
  <1>1. PICK none : none = NotSending
    OBVIOUS
  <1>2. none \in [id : HookIds \cup {NoDefault}, stage : SendStages \cup {"none"}, tries : Nat, ok : BOOLEAN] /\ none.ok = FALSE
    BY <1>1 DEF NotSending
  <1>3. id \in HookIds
    <2>1. Hooks(Generic) \in Seq(Hook)
      BY ConfType DEF Stores, WebhookInv
    <2>2. \A i \in DOMAIN Hooks(Generic) : Hooks(Generic)[i] \in Hook
      BY <2>1
    <2> QED
      BY <2>2 DEF Ids, Hook
  <1>4. /\ wbSend = NotSending /\ wbSteps < MaxHookSteps /\ wbSteps' = wbSteps + 1 /\ WithId(Generic, id) # {}
        /\ wbSend' = [none EXCEPT !.id = id, !.stage = "post"]
        /\ UNCHANGED <<wbText, wbSaved, wbDefaults, wbNow, wbNumber, wbMoved, wbGone, wbReached, wbUnsaved>>
    BY <1>1 DEF SendWebhook, OnLoop
  <1>5. /\ wbSend' \in [id : HookIds \cup {NoDefault}, stage : SendStages \cup {"none"}, tries : Nat, ok : BOOLEAN]
        /\ wbSend'.id = id /\ wbSend'.stage = "post" /\ wbSend'.ok = FALSE
    BY <1>2, <1>3, <1>4 DEF SendStages
  <1>6. wbSteps' <= MaxHookSteps /\ wbReached' \in [HookNumbers -> Nat] /\ \A n \in HookNumbers : n > wbNumber => wbReached'[n] = 0
    <2>1. wbSteps \in 0 .. MaxHookSteps /\ MaxHookSteps \in Nat
      BY WebhookAssumption DEF WebhookInv, WebhookTypes
    <2> QED
      BY <1>4, <2>1 DEF WebhookInv, WebhookTypes
  <1>7. /\ WebhookTypes' /\ ListsInv' /\ DefaultsInv' /\ Hooks(Generic)' = Hooks(Generic)
        /\ WithId(Generic, id)' = WithId(Generic, id)
    BY <1>4, <1>5, <1>6, StoresStay DEF Stores
  <1>8. Counted(Hooks(Generic), wbReached, wbUnsaved)
    BY <1>4, NobodySends
  <1>9. CountInv'
    BY <1>4, <1>5, <1>7, <1>8 DEF CountInv, UnderWay, Counted
  <1>10. SendInv'
    BY <1>4, <1>5, <1>7 DEF SendInv, SendStages, WithId
  <1> QED
    BY <1>7, <1>9, <1>10 DEF WebhookInv

LEMMA PostStep ==
    ASSUME WebhookInv, NEW answer \in {"ok", "refused", "timeout"}, Post(answer)
    PROVE  WebhookInv'
  <1> DEFINE n == Target(wbSend.id).number
             after == IF answer = "timeout" THEN AfterFailure(wbSend.tries + 1) ELSE "log"
  <1>1. wbSend.stage = "post" /\ wbSend # NotSending /\ ~wbSend.ok
    BY DEF Post, NotSending, WebhookInv, SendInv
  <1>2. wbSend \in [id : HookIds \cup {NoDefault}, stage : SendStages \cup {"none"}, tries : Nat, ok : BOOLEAN]
    BY DEF WebhookInv, WebhookTypes
  <1>3. after \in SendStages /\ (answer = "ok" => after = "log")
    BY DEF AfterFailure, SendStages
  <1>4. wbSend' = [wbSend EXCEPT !.tries = @ + 1, !.ok = (answer = "ok"), !.stage = after]
    BY DEF Post
  <1>5. n \in HookNumbers /\ n <= wbNumber
    BY <1>1, Called
  <1>6. /\ wbReached' = IF answer = "ok" THEN [wbReached EXCEPT ![n] = @ + 1] ELSE wbReached
        /\ UNCHANGED <<wbText, wbSaved, wbDefaults, wbNow, wbNumber, wbMoved, wbGone, wbUnsaved, wbSteps>>
    BY DEF Post
  <1> HIDE DEF n, after
  <1>16. PICK got \in BOOLEAN : got = (answer = "ok")
    OBVIOUS
  <1>17. wbSend.tries + 1 \in Nat
    BY <1>2
  <1>18. wbSend' = [wbSend EXCEPT !.tries = @ + 1, !.ok = got, !.stage = after]
    BY <1>4, <1>16
  <1>7. /\ wbSend' \in [id : HookIds \cup {NoDefault}, stage : SendStages \cup {"none"}, tries : Nat, ok : BOOLEAN]
        /\ wbSend'.id = wbSend.id /\ wbSend'.stage = after /\ (wbSend'.ok <=> answer = "ok")
    <2>1. wbSend' \in [id : HookIds \cup {NoDefault}, stage : SendStages \cup {"none"}, tries : Nat, ok : BOOLEAN]
      BY <1>2, <1>3, <1>17, <1>18
    <2>2. wbSend'.id = wbSend.id /\ wbSend'.stage = after /\ wbSend'.ok = got
      BY <1>2, <1>18
    <2> QED
      BY <1>16, <2>1, <2>2
  <1>8. /\ wbReached \in [HookNumbers -> Nat] /\ (\A m \in HookNumbers : m > wbNumber => wbReached[m] = 0)
        /\ wbNumber \in Nat /\ wbSteps <= MaxHookSteps
    BY WebhookAssumption DEF WebhookInv, WebhookTypes
  <1>9. wbReached' \in [HookNumbers -> Nat] /\ \A m \in HookNumbers : m # n => wbReached'[m] = wbReached[m]
    BY <1>5, <1>6, <1>8
  <1>10. wbReached'[n] = IF answer = "ok" THEN wbReached[n] + 1 ELSE wbReached[n]
    BY <1>5, <1>6, <1>8
  <1>11. \A m \in HookNumbers : m > wbNumber => wbReached'[m] = 0
    <2>1. \A m \in HookNumbers : m > wbNumber => m # n
      BY <1>5, <1>8, WebhookAssumption DEF HookNumbers
    <2> QED
      BY <1>8, <1>9, <2>1
  <1>12. /\ WebhookTypes' /\ ListsInv' /\ DefaultsInv' /\ Hooks(Generic)' = Hooks(Generic)
         /\ WithId(Generic, wbSend.id)' = WithId(Generic, wbSend.id)
    <2>1. wbSteps' \in {wbSteps, wbSteps + 1} /\ wbSteps' <= MaxHookSteps
      BY <1>6, <1>8
    <2>2. Generic \in Stores
      BY DEF Stores
    <2>3. /\ WebhookTypes' /\ ListsInv' /\ DefaultsInv' /\ \A s \in Stores : Hooks(s)' = Hooks(s)
      BY <1>6, <1>7, <1>9, <1>11, <2>1, StoresStay
    <2>4. WithId(Generic, wbSend.id)' = WithId(Generic, wbSend.id)
      BY <1>7, <2>2, <2>3 DEF WithId
    <2> QED
      BY <2>2, <2>3, <2>4
  <1>13. Target(wbSend.id)' = Target(wbSend.id)
    BY <1>7, <1>12 DEF Target
  <1>14. CountInv'
    <2> SUFFICES ASSUME NEW i \in DOMAIN Hooks(Generic)
                 PROVE  \/ (IF answer = "ok" /\ Hooks(Generic)[i].number = n THEN Hooks(Generic)[i].sent + 1 ELSE Hooks(Generic)[i].sent)
                             = wbReached'[Hooks(Generic)[i].number]
                        \/ Hooks(Generic)[i].number \in wbUnsaved
      BY <1>6, <1>7, <1>12, <1>13 DEF CountInv, UnderWay, n
    <2>1. Hooks(Generic)[i].sent = wbReached[Hooks(Generic)[i].number] \/ Hooks(Generic)[i].number \in wbUnsaved
      BY <1>1 DEF WebhookInv, CountInv, UnderWay
    <2>2. Hooks(Generic)[i].number \in HookNumbers
      BY <1>1, Called
    <2> QED
      BY <1>9, <1>10, <2>1, <2>2
  <1>15. SendInv'
    <2>1. WithId(Generic, wbSend.id) # {}
      BY <1>1 DEF WebhookInv, SendInv
    <2>2. (WithId(Generic, wbSend.id))' # {}
      BY <1>12, <2>1
    <2> QED
      BY <1>3, <1>7, <2>2 DEF SendInv
  <1> QED
    BY <1>12, <1>14, <1>15 DEF WebhookInv

LEMMA RecordStep ==
    ASSUME WebhookInv, RecordSend
    PROVE  WebhookInv'
  <1> DEFINE after == IF wbSend.ok \/ wbSend.stage = "failed" THEN "count" ELSE AfterFailure(wbSend.tries)
  <1>1. wbSend.stage \in {"log", "failed"} /\ wbSend # NotSending
    BY DEF RecordSend, NotSending
  <1>2. wbSend \in [id : HookIds \cup {NoDefault}, stage : SendStages \cup {"none"}, tries : Nat, ok : BOOLEAN]
    BY DEF WebhookInv, WebhookTypes
  <1>3. after \in SendStages /\ (after \in {"post", "failed"} => ~wbSend.ok)
    BY DEF AfterFailure, SendStages
  <1>4. /\ wbSend' = [wbSend EXCEPT !.stage = after]
        /\ UNCHANGED <<wbText, wbSaved, wbDefaults, wbNow, wbNumber, wbMoved, wbGone, wbReached, wbUnsaved, wbSteps>>
    BY DEF RecordSend
  <1> HIDE DEF after
  <1>5. /\ wbSend' \in [id : HookIds \cup {NoDefault}, stage : SendStages \cup {"none"}, tries : Nat, ok : BOOLEAN]
        /\ wbSend'.id = wbSend.id /\ wbSend'.stage = after /\ wbSend'.ok = wbSend.ok
    BY <1>2, <1>3, <1>4
  <1>6. /\ WebhookTypes' /\ ListsInv' /\ DefaultsInv' /\ Hooks(Generic)' = Hooks(Generic)
    <2>1. wbSteps' \in {wbSteps, wbSteps + 1} /\ wbSteps' <= MaxHookSteps
      BY <1>4, WebhookAssumption DEF WebhookInv, WebhookTypes
    <2>2. wbReached' \in [HookNumbers -> Nat] /\ \A n \in HookNumbers : n > wbNumber => wbReached'[n] = 0
      BY <1>4 DEF WebhookInv, WebhookTypes
    <2>3. /\ WebhookTypes' /\ ListsInv' /\ DefaultsInv' /\ \A s \in Stores : Hooks(s)' = Hooks(s)
      BY <1>4, <1>5, <2>1, <2>2, StoresStay
    <2> QED
      BY <2>3 DEF Stores
  <1>7. (WithId(Generic, wbSend.id))' = WithId(Generic, wbSend.id) /\ (Target(wbSend.id))' = Target(wbSend.id)
    BY <1>5, <1>6 DEF WithId, Target
  <1>8. CountInv'
    BY <1>4, <1>5, <1>6, <1>7 DEF WebhookInv, CountInv, UnderWay
  <1>9. SendInv'
    BY <1>1, <1>3, <1>5, <1>7 DEF WebhookInv, SendInv
  <1> QED
    BY <1>6, <1>8, <1>9 DEF WebhookInv

LEMMA CountStep ==
    ASSUME WebhookInv, CountSend
    PROVE  WebhookInv'
  <1>0. Generic \in Stores /\ Generic # Slack /\ wbSend # NotSending
    BY WebhookAssumption DEF Stores, CountSend, NotSending
  <1>1. PICK l : l = Hooks(Generic)
    OBVIOUS
  <1>2. PICK k : k = Min(WithId(Generic, wbSend.id))
    OBVIOUS
  <1>3. PICK got : got = Count(wbSend)
    OBVIOUS
  <1>4. PICK m : m = [l EXCEPT ![k].sent = @ + got]
    OBVIOUS
  <1>5. PICK c : c = [Config(Generic) EXCEPT !.hooks = m]
    OBVIOUS
  <1>6. PICK h : h = l[k]
    OBVIOUS
  <1>7. got \in {0, 1} /\ (got = 1 <=> wbSend.ok)
    BY <1>3 DEF Count, WebhookInv, WebhookTypes
  <1>8. /\ wbSend' = NotSending /\ UNCHANGED <<wbSteps, wbNumber>> /\ Save(Generic, c) /\ wbNow' = wbNow
        /\ wbReached' = wbReached
        /\ wbDefaults' = IF Readable(Generic) THEN wbDefaults ELSE [wbDefaults EXCEPT ![Generic] = m]
        /\ Moved(Generic, FALSE) /\ Gone(Generic, FALSE)
    BY <1>1, <1>2, <1>3, <1>4, <1>5 DEF CountSend, InPlace
  <1>9. /\ wbMoved \subseteq wbMoved' /\ wbGone \subseteq wbGone'
        /\ Cut(Generic) => Generic \in wbMoved' /\ <<Generic, wbNow>> \in wbGone'
    BY <1>0, <1>8, Excuses
  <1>10. /\ HooksFit(Generic, l, wbNow, wbGone', wbNumber) /\ FreshIds(Generic, l, wbNow, wbGone')
         /\ Config(Generic) \in Conf /\ l \in Seq(Hook) /\ l = Config(Generic).hooks
         /\ wbNow \in Nat /\ wbNumber \in Nat /\ wbReached \in [HookNumbers -> Nat]
         /\ \A n \in HookNumbers : n > wbNumber => wbReached[n] = 0
    BY <1>0, <1>1, <1>9, HooksNow
  <1>11. k \in DOMAIN l /\ h \in Hook /\ h = Target(wbSend.id)
    BY <1>0, <1>1, <1>2, <1>6, Called DEF Target
  <1>12. h.sent \in Nat
    BY <1>11 DEF Hook
  <1>14. PICK g : g = [h EXCEPT !.sent = @ + got]
    OBVIOUS
  <1>15. g \in Hook /\ g.id = h.id /\ g.number = h.number /\ g.sent = h.sent + got
    <2>1. h.sent + got \in Nat
      BY <1>7, <1>12
    <2> QED
      BY <1>11, <1>14, <2>1 DEF Hook
  <1>16. m = [l EXCEPT ![k] = g]
    BY <1>4, <1>6, <1>10, <1>11, <1>14
  <1>17. m \in Seq(Hook) /\ Len(m) = Len(l) /\ DOMAIN m = DOMAIN l /\ \A i \in DOMAIN l : m[i] = IF i = k THEN g ELSE l[i]
    BY <1>10, <1>11, <1>15, <1>16
  <1>18. \A i \in DOMAIN l : m[i].id = l[i].id /\ m[i].number = l[i].number
    BY <1>6, <1>15, <1>17
  <1>19. HooksFit(Generic, m, wbNow, wbGone', wbNumber) /\ FreshIds(Generic, m, wbNow, wbGone')
    BY <1>0, <1>10, <1>17, <1>18, SameIds
  <1>20. c \in Conf /\ c.hooks = m
    BY <1>5, <1>10, <1>17 DEF Conf
  <1>21. Counted(m, wbReached, wbUnsaved)
    <2> SUFFICES ASSUME NEW i \in DOMAIN l
                 PROVE  m[i].sent = wbReached[m[i].number] \/ m[i].number \in wbUnsaved
      BY <1>17 DEF Counted
    <2>1. \/ (IF wbSend.ok /\ l[i].number = h.number THEN l[i].sent + 1 ELSE l[i].sent) = wbReached[l[i].number]
          \/ l[i].number \in wbUnsaved
      BY <1>1, <1>11 DEF WebhookInv, CountInv, UnderWay
    <2>2. CASE i = k
      BY <1>6, <1>7, <1>12, <1>15, <1>17, <2>1, <2>2
    <2>3. CASE i # k
      <3>1. l[i].number # h.number
        BY <1>0, <1>1, <1>2, <1>11, <2>3, Called
      <3> QED
        BY <1>17, <2>1, <2>3, <3>1
    <2> QED
      BY <2>2, <2>3
  <1>22. /\ wbNumber' \in {wbNumber, wbNumber + 1} /\ wbReached' \in [HookNumbers -> Nat]
         /\ \A n \in HookNumbers : n > wbNumber' => wbReached'[n] = 0
         /\ HooksFit(Generic, c.hooks, wbNow, wbGone', wbNumber') /\ FreshIds(Generic, c.hooks, wbNow, wbGone')
         /\ Counted(c.hooks, wbReached', wbUnsaved)
    BY <1>8, <1>10, <1>19, <1>20, <1>21
  <1> QED
    BY <1>0, <1>8, <1>9, <1>20, <1>22, OperationKeeps

\* Nothing of what the invariant names changes but what is given.
LEMMA TickStep ==
    ASSUME WebhookInv, Tick
    PROVE  WebhookInv'
  <1>1. WebhookTypes /\ ListsInv /\ DefaultsInv /\ SendInv /\ CountInv
    BY DEF WebhookInv
  <1>2. /\ wbNow' = wbNow + 1
        /\ UNCHANGED <<wbText, wbSaved, wbDefaults, wbNumber, wbMoved, wbGone, wbReached, wbUnsaved, wbSend, wbSteps>>
    BY DEF Tick
  <1>3. WebhookTypes' /\ wbNow \in Nat /\ wbNow <= wbNow + 1 /\ wbNow + 1 \in Nat /\ wbNumber \in Nat /\ wbNumber <= wbNumber
    BY <1>1, <1>2 DEF WebhookTypes
  <1>4. ASSUME NEW s \in Stores PROVE Hooks(s)' = Hooks(s) /\ Config(s)' = Config(s)
    BY <1>2 DEF Hooks, Config, Readable
  <1>5. ListsInv'
    <2> SUFFICES ASSUME NEW s \in Stores
                 PROVE  /\ HooksFit(s, wbSaved[s].hooks, wbNow + 1, wbGone, wbNumber)
                        /\ HooksFit(s, wbDefaults[s], wbNow + 1, wbGone, wbNumber)
                        /\ FreshIds(s, Hooks(s), wbNow + 1, wbGone)
      BY <1>2, <1>4 DEF ListsInv
    <2>1. wbSaved[s].hooks \in Seq(Hook) /\ wbDefaults[s] \in Seq(Hook)
      BY <1>1 DEF WebhookTypes, Conf
    <2>2. HooksFit(s, wbSaved[s].hooks, wbNow, wbGone, wbNumber) /\ HooksFit(s, wbDefaults[s], wbNow, wbGone, wbNumber)
      BY <1>1 DEF ListsInv
    <2>3. /\ HooksFit(s, wbSaved[s].hooks, wbNow + 1, wbGone, wbNumber)
          /\ HooksFit(s, wbDefaults[s], wbNow + 1, wbGone, wbNumber)
      BY <1>3, <2>1, <2>2, FitGrows
    <2>4. Hooks(s) \in Seq(Hook) /\ \A i \in DOMAIN Hooks(s) : Hooks(s)[i].id[2] <= wbNow
      BY <1>1, <2>2, ConfType DEF HooksFit
    <2>5. \A i \in DOMAIN Hooks(s) : Hooks(s)[i].id[2] # wbNow + 1
      BY <1>3, <2>4
    <2> QED
      BY <2>3, <2>5 DEF FreshIds
  <1>6. DefaultsInv'
    <2>1. Slack \in Stores
      BY DEF Stores
    <2> QED
      BY <1>1, <1>2, <1>4, <2>1 DEF DefaultsInv, DefaultNamed
  <1>7. CountInv' /\ SendInv'
    <2>1. Hooks(Generic)' = Hooks(Generic)
      BY <1>4 DEF Stores
    <2>2. (WithId(Generic, wbSend.id))' = WithId(Generic, wbSend.id) /\ (Target(wbSend.id))' = Target(wbSend.id)
      BY <1>2, <2>1 DEF WithId, Target
    <2> QED
      BY <1>1, <1>2, <2>1, <2>2 DEF CountInv, UnderWay, SendInv
  <1> QED
    BY <1>3, <1>5, <1>6, <1>7 DEF WebhookInv

\* What a process that starts does not know was only in stores that are there and cannot be read.
LEMMA ProcessStep ==
    ASSUME WebhookInv, NewProcess
    PROVE  WebhookInv'
  <1>1. WebhookTypes /\ ListsInv /\ DefaultsInv /\ CountInv
    BY DEF WebhookInv
  <1>2. /\ wbDefaults' = [s \in Stores |-> <<>>] /\ wbSend' = NotSending
        /\ wbUnsaved' = IF wbSend.ok THEN wbUnsaved \cup {Target(wbSend.id).number} ELSE wbUnsaved
        /\ UNCHANGED <<wbText, wbSaved, wbNow, wbNumber, wbMoved, wbGone, wbReached, wbSteps>>
    BY DEF NewProcess
  <1>3. WebhookTypes'
    <2>1. wbDefaults' \in [Stores -> Seq(Hook)]
      BY <1>2
    <2>2. wbSend' \in [id : HookIds \cup {NoDefault}, stage : SendStages \cup {"none"}, tries : Nat, ok : BOOLEAN]
      BY <1>2 DEF NotSending
    <2> QED
      BY <1>1, <1>2, <2>1, <2>2 DEF WebhookTypes
  <1>4. ASSUME NEW s \in Stores PROVE Hooks(s)' = IF Readable(s) THEN Hooks(s) ELSE <<>>
    BY <1>2 DEF Hooks, Config, Readable, Empty
  <1>5. ListsInv'
    <2> SUFFICES ASSUME NEW s \in Stores
                 PROVE  /\ HooksFit(s, wbSaved[s].hooks, wbNow, wbGone, wbNumber)
                        /\ HooksFit(s, <<>>, wbNow, wbGone, wbNumber)
                        /\ FreshIds(s, Hooks(s)', wbNow, wbGone)
      BY <1>2 DEF ListsInv
    <2>1. HooksFit(s, wbSaved[s].hooks, wbNow, wbGone, wbNumber) /\ FreshIds(s, Hooks(s), wbNow, wbGone)
      BY <1>1 DEF ListsInv
    <2>2. HooksFit(s, <<>>, wbNow, wbGone, wbNumber) /\ FreshIds(s, <<>>, wbNow, wbGone)
      BY DEF HooksFit, FreshIds
    <2> QED
      BY <1>4, <2>1, <2>2
  <1>6. DefaultsInv'
    <2>1. \A s \in Stores : wbDefaults'[s] = <<>>
      BY <1>2
    <2>2. ASSUME Slack \notin wbMoved PROVE DefaultNamed(Config(Slack))'
      <3>1. Slack \in Stores /\ DefaultNamed(Config(Slack))
        BY <1>1, <2>2 DEF DefaultsInv, Stores
      <3>2. CASE Readable(Slack)
        <4>1. Config(Slack)' = Config(Slack)
          BY <1>2, <3>2 DEF Config, Readable
        <4> QED
          BY <3>1, <4>1 DEF DefaultNamed
      <3>3. CASE ~Readable(Slack)
        <4>1. Config(Slack)' = [Empty EXCEPT !.hooks = <<>>]
          BY <1>2, <2>1, <3>1, <3>3 DEF Config, Readable
        <4>2. Config(Slack)'.hooks = <<>> /\ Config(Slack)'.default = NoDefault
          BY <4>1 DEF Empty
        <4> QED
          BY <4>2 DEF DefaultNamed
      <3> QED
        BY <3>2, <3>3
    <2> QED
      BY <1>2, <2>2 DEF DefaultsInv
  <1>7. CountInv' /\ SendInv'
    <2>1. ~wbSend'.ok
      BY <1>2 DEF NotSending
    <2>2. Hooks(Generic)' = Hooks(Generic) \/ Hooks(Generic)' = <<>>
      BY <1>4 DEF Stores
    <2>3. \A i \in DOMAIN Hooks(Generic) : LET h == Hooks(Generic)[i] IN h.sent = wbReached[h.number] \/ h.number \in wbUnsaved'
      BY <1>1, <1>2 DEF CountInv, UnderWay
    <2> QED
      BY <1>2, <2>1, <2>2, <2>3 DEF CountInv, UnderWay, SendInv
  <1> QED
    BY <1>3, <1>5, <1>6, <1>7 DEF WebhookInv

LEMMA WebhookRest ==
    ASSUME WebhookInv,
           UNCHANGED <<wbText, wbSaved, wbDefaults, wbNow, wbNumber, wbMoved, wbGone, wbReached, wbUnsaved, wbSend>>,
           Operation \/ wbSteps' = wbSteps
    PROVE  WebhookInv'
  <1>1. wbSteps' \in {wbSteps, wbSteps + 1} /\ wbSteps' <= MaxHookSteps
    <2>1. wbSteps \in 0 .. MaxHookSteps /\ MaxHookSteps \in Nat
      BY WebhookAssumption DEF WebhookInv, WebhookTypes
    <2> QED
      BY <2>1 DEF Operation, OnLoop
  <1>2. /\ wbReached' \in [HookNumbers -> Nat] /\ \A n \in HookNumbers : n > wbNumber => wbReached'[n] = 0
        /\ wbSend' \in [id : HookIds \cup {NoDefault}, stage : SendStages \cup {"none"}, tries : Nat, ok : BOOLEAN]
    BY DEF WebhookInv, WebhookTypes
  <1>3. WebhookTypes' /\ ListsInv' /\ DefaultsInv' /\ \A s \in Stores : Hooks(s)' = Hooks(s)
    BY <1>1, <1>2, StoresStay
  <1>4. Hooks(Generic)' = Hooks(Generic)
    BY <1>3 DEF Stores
  <1>5. (WithId(Generic, wbSend.id))' = WithId(Generic, wbSend.id) /\ (Target(wbSend.id))' = Target(wbSend.id)
    BY <1>4 DEF WithId, Target
  <1>6. CountInv' /\ SendInv'
    BY <1>4, <1>5 DEF WebhookInv, CountInv, UnderWay, SendInv
  <1> QED
    BY <1>3, <1>6 DEF WebhookInv

LEMMA WebhookStart == WebhookInit => WebhookInv
  <1> SUFFICES ASSUME WebhookInit PROVE WebhookInv
    OBVIOUS
  <1>1. Empty \in Conf /\ Empty.hooks = <<>> /\ MaxHookSteps \in Nat
    BY WebhookAssumption DEF Empty, Conf
  <1>2. WebhookTypes
    <2>1. wbSend \in [id : HookIds \cup {NoDefault}, stage : SendStages \cup {"none"}, tries : Nat, ok : BOOLEAN]
      BY DEF WebhookInit, NotSending
    <2> QED
      BY <1>1, <2>1 DEF WebhookInit, WebhookTypes, HookNumbers
  <1>3. \A s \in Stores : wbSaved[s] = Empty /\ wbText[s] = "none" /\ wbDefaults[s] = <<>>
    BY DEF WebhookInit
  <1>4. \A s \in Stores : Config(s).hooks = <<>> /\ Config(s).default = NoDefault /\ Hooks(s) = <<>>
    BY <1>3 DEF Config, Hooks, Readable, Empty
  <1>5. ListsInv
    BY <1>1, <1>3, <1>4 DEF ListsInv, HooksFit, FreshIds
  <1>6. DefaultsInv
    <2>1. Slack \in Stores
      BY DEF Stores
    <2> QED
      BY <1>3, <1>4, <2>1 DEF DefaultsInv, DefaultNamed
  <1>7. CountInv /\ SendInv
    <2>1. Generic \in Stores /\ wbSend = NotSending
      BY DEF Stores, WebhookInit
    <2> QED
      BY <1>4, <2>1 DEF CountInv, SendInv
  <1> QED
    BY <1>2, <1>5, <1>6, <1>7 DEF WebhookInv

LEMMA WebhookStep == WebhookInv /\ [WebhookNext]_webhookVars => WebhookInv'
  <1> SUFFICES ASSUME WebhookInv, [WebhookNext]_webhookVars PROVE WebhookInv'
    OBVIOUS
  <1>1. ASSUME NEW s \in Stores, NEW called \in HookNames, AddWebhook(s, called) PROVE WebhookInv'
    BY <1>1, AddStep
  <1>2. ASSUME NEW s \in Stores, NEW id, RemoveWebhook(s, id) PROVE WebhookInv'
    BY <1>2, RemoveStep
  <1>3. ASSUME NEW s \in Stores, NEW id, NEW called \in HookNames, NEW enabled \in BOOLEAN, UpdateWebhook(s, id, called, enabled)
        PROVE  WebhookInv'
    BY <1>3, UpdateStep
  <1>4. ASSUME NEW s \in Stores, NEW enabled \in BOOLEAN, SaveSettings(s, enabled) PROVE WebhookInv'
    BY <1>4, SettingsStep
  <1>5. ASSUME NEW id, id \in Ids(Slack) \/ id = << 0 >>, SetDefault(id) PROVE WebhookInv'
    <2>1. Hooks(Slack) \in Seq(Hook)
      BY ConfType DEF Stores, WebhookInv
    <2>2. \A i \in DOMAIN Hooks(Slack) : Hooks(Slack)[i] \in Hook
      BY <2>1
    <2>3. \A i \in DOMAIN Hooks(Slack) : Hooks(Slack)[i].id \in HookIds
      BY <2>2 DEF Hook
    <2>4. id \in Given
      BY <1>5, <2>3 DEF Ids, Given
    <2> QED
      BY <1>5, <2>4, SetDefaultStep
  <1>6. ASSUME NEW id \in Ids(Generic), SendWebhook(id) PROVE WebhookInv'
    BY <1>6, BeginStep
  <1>post. ASSUME NEW answer \in {"ok", "refused", "timeout"}, Post(answer) PROVE WebhookInv'
    BY <1>post, PostStep
  <1>7. CASE ClearHistory
    BY <1>7, WebhookRest DEF ClearHistory, Operation
  <1>8. CASE UNCHANGED webhookVars
    BY <1>8, WebhookRest DEF webhookVars
  <1> QED
    BY <1>1, <1>2, <1>3, <1>4, <1>5, <1>6, <1>post, <1>7, <1>8, RecordStep, CountStep, TickStep, ProcessStep DEF WebhookNext

LEMMA WebhookSafe == WebhookInv => HooksKept
  <1> SUFFICES ASSUME WebhookInv PROVE HooksKept
    OBVIOUS
  <1>0. WebhookTypes /\ ListsInv /\ DefaultsInv /\ CountInv /\ Slack \in Stores /\ Generic \in Stores
    BY DEF WebhookInv, Stores
  <1>1. IdsExplained
    <2> SUFFICES ASSUME NEW s \in Stores, NEW i \in DOMAIN Hooks(s), NEW j \in DOMAIN Hooks(s), i # j,
                        Hooks(s)[i].id = Hooks(s)[j].id
                 PROVE  <<s, Hooks(s)[i].id[2]>> \in wbGone
      BY DEF IdsExplained
    <2>1. HooksFit(s, Hooks(s), wbNow, wbGone, wbNumber)
      BY <1>0, ConfType DEF ListsInv
    <2>2. \A a, b \in DOMAIN Hooks(s) : a # b => (Hooks(s)[a].id = Hooks(s)[b].id => <<s, Hooks(s)[a].id[2]>> \in wbGone)
      BY <2>1 DEF HooksFit
    <2> QED
      BY <2>2
  <1>2. DefaultExists
    <2> SUFFICES ASSUME Slack \notin wbMoved, Hooks(Slack) # <<>> PROVE SlackTarget(NoDefault) # NoDefault
      BY DEF DefaultExists
    <2>1. DefaultNamed(Config(Slack)) /\ Hooks(Slack) = Config(Slack).hooks
      BY <1>0, ConfType DEF DefaultsInv
    <2>2. WithId(Slack, Config(Slack).default) # {}
      BY <2>1 DEF DefaultNamed, WithId
    <2>3. PICK k : k = Min(WithId(Slack, Config(Slack).default))
      OBVIOUS
    <2>4. k \in DOMAIN Hooks(Slack)
      BY <1>0, <2>2, <2>3, FirstFound
    <2>5. Hooks(Slack)[k] \in Hook
      BY <1>0, <2>4, ConfType
    <2>6. Hooks(Slack)[k].id \in HookIds
      BY <2>5 DEF Hook
    <2>7. SlackTarget(NoDefault) = Hooks(Slack)[k].id
      BY <2>2, <2>3 DEF SlackTarget
    <2>8. <<>> \notin HookIds
      BY DEF HookIds
    <2> QED
      BY <2>6, <2>7, <2>8 DEF NoDefault
  <1>3. CountsMatch
    <2>1. Hooks(Generic) \in Seq(Hook)
      BY <1>0, ConfType
    <2>2. \A i \in DOMAIN Hooks(Generic) : Hooks(Generic)[i] \in Hook
      BY <2>1
    <2>3. \A i \in DOMAIN Hooks(Generic) : Hooks(Generic)[i].sent \in Nat
      BY <2>2 DEF Hook
    <2> QED
      BY <1>0, <2>3 DEF CountsMatch, CountInv
  <1> QED
    BY <1>1, <1>2, <1>3 DEF HooksKept

\* Whatever is added, changed, removed and sent, whatever saves are cut off and wherever in a send the process dies,
\* two webhooks of a store share an id only through a removal in the second both were made in, a notification that
\* names none finds the default unless the settings moved it, and the counts are those of the sends that got through,
\* the one under way included and those a death cut off before their save excepted (slack_integration and
\* webhook_alerts: add_webhook, remove_webhook, update_webhook, send_webhook).
THEOREM HooksAreKept == WebhookSpec => []HooksKept
  <1>1. WebhookInit => WebhookInv
    BY WebhookStart
  <1>2. WebhookInv /\ [WebhookNext]_webhookVars => WebhookInv'
    BY WebhookStep
  <1>3. WebhookInv => HooksKept
    BY WebhookSafe
  <1> QED
    BY <1>1, <1>2, <1>3, PTL DEF WebhookSpec

-----------------------------------------------------------------------------
(* Lists put together. *)

LEMMA EveryNumber ==
    ASSUME NEW P \in SUBSET Nat, 0 \in P, \A n \in P : n + 1 \in P
    PROVE  P = Nat
  <1> DEFINE Q == Nat \ P
  <1> SUFFICES ASSUME Q # {} PROVE FALSE
    OBVIOUS
  <1>1. PICK n \in Q : \A k \in Q : n <= k
    <2>1. Q \in SUBSET Nat
      OBVIOUS
    <2> HIDE DEF Q
    <2> QED
      BY <2>1, SmallestExists
  <1>2. n # 0 /\ n - 1 \in Nat /\ n - 1 \notin Q
    BY <1>1
  <1>3. n - 1 \in P /\ (n - 1) + 1 = n
    BY <1>2
  <1> QED
    BY <1>1, <1>3

\* The partial results of FlattenSeq for the first n lists.
Partials(seqs, S, n) ==
    {f \in [1 .. n -> S] : f = [i \in 1 .. n |-> IF i = 1 THEN seqs[i] ELSE f[i - 1] \o seqs[i]]}

LEMMA PartialsExist ==
    ASSUME NEW S, \A a, b \in S : a \o b \in S, NEW seqs \in Seq(S), NEW N \in Nat, N <= Len(seqs)
    PROVE  Partials(seqs, S, N) # {}
  <1> DEFINE P == {n \in Nat : n <= Len(seqs) => Partials(seqs, S, n) # {}}
  <1>0. Len(seqs) \in Nat /\ \A i \in 1 .. Len(seqs) : seqs[i] \in S
    OBVIOUS
  <1>1. 0 \in P
    <2> DEFINE f == [i \in 1 .. 0 |-> seqs[i]]
    <2>1. f \in [1 .. 0 -> S]
      OBVIOUS
    <2>2. f = [i \in 1 .. 0 |-> IF i = 1 THEN seqs[i] ELSE f[i - 1] \o seqs[i]]
      OBVIOUS
    <2> HIDE DEF f
    <2>3. f \in Partials(seqs, S, 0)
      BY <2>1, <2>2 DEF Partials
    <2> QED
      BY <2>3
  <1>2. ASSUME NEW n \in P PROVE n + 1 \in P
    <2> SUFFICES ASSUME n + 1 <= Len(seqs) PROVE Partials(seqs, S, n + 1) # {}
      OBVIOUS
    <2>1. n \in Nat /\ n <= Len(seqs) /\ n + 1 \in 1 .. Len(seqs)
      BY <1>0
    <2>2. PICK f \in Partials(seqs, S, n) : TRUE
      BY <2>1
    <2>3. f \in [1 .. n -> S] /\ f = [i \in 1 .. n |-> IF i = 1 THEN seqs[i] ELSE f[i - 1] \o seqs[i]]
      BY DEF Partials
    <2> DEFINE last == IF n = 0 THEN seqs[1] ELSE f[n] \o seqs[n + 1]
               g == [i \in 1 .. n + 1 |-> IF i = n + 1 THEN last ELSE f[i]]
    <2>4. last \in S
      <3>1. CASE n = 0
        BY <1>0, <2>1, <3>1
      <3>2. CASE n # 0
        <4>1. f[n] \in S /\ seqs[n + 1] \in S
          BY <1>0, <2>1, <2>3, <3>2
        <4> QED
          BY <3>2, <4>1
      <3> QED
        BY <3>1, <3>2
    <2> HIDE DEF last
    <2>5. g \in [1 .. n + 1 -> S] /\ g[n + 1] = last /\ \A i \in 1 .. n : g[i] = f[i]
      <3>1. n + 1 \in 1 .. n + 1 /\ \A i \in 1 .. n : i \in 1 .. n + 1 /\ i # n + 1 /\ f[i] \in S
        BY <2>1, <2>3
      <3>2. \A i \in 1 .. n + 1 : i # n + 1 => i \in 1 .. n
        BY <2>1
      <3>3. \A i \in 1 .. n + 1 : (IF i = n + 1 THEN last ELSE f[i]) \in S
        BY <2>4, <3>1, <3>2
      <3> QED
        BY <3>1, <3>3
    <2>6. g = [i \in 1 .. n + 1 |-> g[i]]
      OBVIOUS
    <2> HIDE DEF g
    <2>7. ASSUME NEW i \in 1 .. n + 1
          PROVE  g[i] = IF i = 1 THEN seqs[i] ELSE g[i - 1] \o seqs[i]
      <3>1. CASE i = n + 1
        <4>1. CASE n = 0
          BY <2>5, <3>1, <4>1 DEF last
        <4>2. CASE n # 0
          <5>1. i # 1 /\ i - 1 = n /\ n \in 1 .. n
            BY <2>1, <3>1, <4>2
          <5> QED
            BY <2>5, <3>1, <4>2, <5>1 DEF last
        <4> QED
          BY <4>1, <4>2
      <3>2. CASE i \in 1 .. n
        <4>1. g[i] = f[i] /\ (i # 1 => i - 1 \in 1 .. n /\ g[i - 1] = f[i - 1])
          BY <2>1, <2>5, <3>2
        <4>2. f[i] = IF i = 1 THEN seqs[i] ELSE f[i - 1] \o seqs[i]
          BY <2>3, <3>2
        <4> QED
          BY <4>1, <4>2
      <3> QED
        BY <2>1, <3>1, <3>2
    <2>8. g = [i \in 1 .. n + 1 |-> IF i = 1 THEN seqs[i] ELSE g[i - 1] \o seqs[i]]
      BY <2>6, <2>7
    <2>9. g \in Partials(seqs, S, n + 1)
      BY <2>5, <2>8 DEF Partials
    <2> QED
      BY <2>9
  <1>3. P = Nat
    <2>1. P \in SUBSET Nat
      OBVIOUS
    <2> HIDE DEF P
    <2> QED
      BY <1>1, <1>2, <2>1, EveryNumber
  <1> QED
    BY <1>3

\* What is closed under concatenation is closed under FlattenSeq.
LEMMA FlattenIn ==
    ASSUME NEW S, \A a, b \in S : a \o b \in S, NEW seqs \in Seq(S), <<>> \in S
    PROVE  FlattenSeq(seqs) \in S
  <1> DEFINE N == Len(seqs)
             Says(f) == f = [i \in 1 .. N |-> IF i = 1 THEN seqs[i] ELSE f[i - 1] \o seqs[i]]
             flatten == CHOOSE f : Says(f)
  <1>0. N \in Nat /\ \A i \in 1 .. N : seqs[i] \in S
    OBVIOUS
  <1>1. CASE N = 0
    BY <1>1 DEF FlattenSeq
  <1>2. CASE N # 0
    <2>1. FlattenSeq(seqs) = flatten[N]
      BY <1>2 DEF FlattenSeq
    <2>2. \E f : Says(f)
      <3>1. PICK f \in Partials(seqs, S, N) : TRUE
        BY <1>0, PartialsExist
      <3> QED
        BY DEF Partials
    <2>3. Says(flatten)
      BY <2>2
    <2> HIDE DEF flatten
    <2> DEFINE P == {n \in Nat : n + 1 <= N => flatten[n + 1] \in S}
    <2>4. 0 \in P
      <3>1. 1 \in 1 .. N
        BY <1>0, <1>2
      <3>2. flatten[1] = seqs[1]
        BY <2>3, <3>1
      <3> QED
        BY <1>0, <3>1, <3>2
    <2>5. ASSUME NEW n \in P PROVE n + 1 \in P
      <3> SUFFICES ASSUME (n + 1) + 1 <= N PROVE flatten[(n + 1) + 1] \in S
        OBVIOUS
      <3>1. n \in Nat /\ (n + 1) + 1 \in 1 .. N /\ (n + 1) + 1 # 1 /\ ((n + 1) + 1) - 1 = n + 1 /\ n + 1 <= N
        BY <1>0
      <3>2. flatten[(n + 1) + 1] = flatten[n + 1] \o seqs[(n + 1) + 1]
        BY <2>3, <3>1
      <3>3. flatten[n + 1] \in S /\ seqs[(n + 1) + 1] \in S
        BY <1>0, <3>1
      <3> QED
        BY <3>2, <3>3
    <2>6. P = Nat
      <3>1. P \in SUBSET Nat
        OBVIOUS
      <3> HIDE DEF P
      <3> QED
        BY <2>4, <2>5, <3>1, EveryNumber
    <2>7. N - 1 \in Nat /\ (N - 1) + 1 = N
      BY <1>0, <1>2
    <2>8. N - 1 \in P
      BY <2>6, <2>7
    <2>9. flatten[N] \in S
      BY <1>0, <2>7, <2>8
    <2> QED
      BY <2>1, <2>9
  <1> QED
    BY <1>1, <1>2

LEMMA Listing ==
    ASSUME NEW S, IsFiniteSet(S)
    PROVE  Cardinality(S) \in Nat /\ SetToSeq(S) \in [1 .. Cardinality(S) -> S]
  <1>1. Cardinality(S) \in Nat /\ ExistsBijection(1 .. Cardinality(S), S)
    BY FS_CardinalityType
  <1>2. PICK f \in Bijection(1 .. Cardinality(S), S) : TRUE
    BY <1>1 DEF ExistsBijection
  <1>3. f \in [1 .. Cardinality(S) -> S] /\ IsInjective(f)
    BY DEF Bijection, Injection
  <1> QED
    BY <1>1, <1>3 DEF SetToSeq

-----------------------------------------------------------------------------
(* The lineage graph. *)

\* What the writers may write: the nodes some part of the studio names, and the edges.
NodesOf(s) == s.reads \cup s.files \cup {s.target}
Nodes ==
    Volumes \cup Tables \cup (UNION {NodesOf(s) : s \in ReadStatements})
    \cup {k.job : k \in TasksSeen} \cup {k.optimizes : k \in {t \in TasksSeen : "optimizes" \in DOMAIN t}}
    \cup {r.id : r \in Readers} \cup {m.id : m \in DbtModels} \cup (UNION {m.sources \cup m.refs : m \in DbtModels})
    \cup {r.table : r \in TrainedRuns} \cup {r.run : r \in TrainedRuns}
EdgeTypes == {"INGESTS_TO", "TRANSFORMS_TO", "MAINTAINS", "ORCHESTRATES", "READ_BY", "TRAINED_ON"}
Write ==
    [op : {"node"}, node : Nodes]
    \cup [op : {"edge"}, edge : [source : Nodes, target : Nodes, type : EdgeTypes] \cup {PipeEdge(x) : x \in Places}]
    \cup [op : {"clear"}] \cup [op : {"untie"}, place : Places] \cup [op : {"row"}, pipe : Pipes]
    \cup [op : {"drop"}, node : Volumes, seen : {{}}]

\* The ends of an edge of a section are put before it, by the section itself if they are not in the set put.
PutBy(s, k) == {s[i].node : i \in {j \in DOMAIN s : j < k /\ s[j].op = "node"}}
Supported(s, put) ==
    \A k \in DOMAIN s : s[k].op = "edge" => s[k].edge \in Refs \/ Ends(s[k].edge) \subseteq put \cup PutBy(s, k)
Sound(put) == {s \in Seq(Write) : Supported(s, put)}
Sections(put) == {s \in Sound(put) : s # <<>>}

PlacesInv ==
    /\ lnPipe \in [Pipes -> Places \cup {NoPlace}] /\ lnHeld \in [Loaders -> Places \cup {NoPlace}]
    /\ lnTodo \in [Writers -> Seq(Seq(Write))] /\ lnPut \in [Writers -> SUBSET Nodes]
TodoInv == \A w \in Writers : lnTodo[w] \in Seq(Sections(lnPut[w]))
KeptInv == lnKept \subseteq lnEdges /\ \A e \in lnKept : e.source \in Volumes /\ e.target \in Tables
LineageInv == PlacesInv /\ TodoInv /\ KeptInv /\ EndsExplained

LEMMA WriteKinds ==
    ASSUME NEW x \in Write
    PROVE  /\ x.op = "node" => x.node \in Nodes
           /\ x.op = "edge" => x.edge \in [source : Nodes, target : Nodes, type : EdgeTypes] \cup {PipeEdge(y) : y \in Places}
           /\ x.op = "untie" => x.place \in Places
           /\ x.op = "row" => x.pipe \in Pipes
           /\ x.op = "drop" => x.node \in Volumes /\ x.seen = {}
  BY DEF Write

LEMMA MorePut ==
    ASSUME NEW put, NEW more, put \subseteq more
    PROVE  Sound(put) \subseteq Sound(more) /\ Sections(put) \subseteq Sections(more)
  <1>1. \A s : Supported(s, put) => Supported(s, more)
    BY DEF Supported
  <1> QED
    BY <1>1 DEF Sound, Sections

LEMMA JoinSound ==
    ASSUME NEW put, NEW a \in Sound(put), NEW b \in Seq(Write), Supported(b, put \cup PutBy(a, Len(a) + 1))
    PROVE  a \o b \in Sound(put)
  <1>1. a \in Seq(Write) /\ Supported(a, put) /\ Len(a) \in Nat /\ Len(b) \in Nat /\ DOMAIN a = 1 .. Len(a) /\ DOMAIN b = 1 .. Len(b)
    BY DEF Sound
  <1>2. PICK c : c = a \o b
    OBVIOUS
  <1>3. /\ c \in Seq(Write) /\ Len(c) = Len(a) + Len(b)
        /\ \A i \in 1 .. Len(a) + Len(b) : c[i] = IF i <= Len(a) THEN a[i] ELSE b[i - Len(a)]
    BY <1>1, <1>2, ConcatProperties
  <1>4. DOMAIN c = 1 .. Len(a) + Len(b)
    BY <1>1, <1>3
  <1>5. \A i \in DOMAIN a : i \in DOMAIN c /\ c[i] = a[i]
    BY <1>1, <1>3, <1>4
  <1>6. \A i \in DOMAIN b : Len(a) + i \in DOMAIN c /\ c[Len(a) + i] = b[i]
    BY <1>1, <1>3, <1>4
  <1>7. ASSUME NEW k \in DOMAIN c, c[k].op = "edge"
        PROVE  c[k].edge \in Refs \/ Ends(c[k].edge) \subseteq put \cup PutBy(c, k)
    <2>1. CASE k \in DOMAIN a
      <3>1. c[k] = a[k]
        BY <1>5, <2>1
      <3>2. a[k].edge \in Refs \/ Ends(a[k].edge) \subseteq put \cup PutBy(a, k)
        BY <1>1, <1>7, <2>1, <3>1 DEF Supported
      <3>3. PutBy(a, k) \subseteq PutBy(c, k)
        BY <1>5 DEF PutBy
      <3> QED
        BY <3>1, <3>2, <3>3
    <2>2. CASE k \notin DOMAIN a
      <3>1. PICK j \in DOMAIN b : k = Len(a) + j
        <4>1. k - Len(a) \in DOMAIN b /\ k = Len(a) + (k - Len(a))
          BY <1>1, <1>4, <2>2
        <4> QED
          BY <4>1
      <3>2. c[k] = b[j]
        BY <1>6, <3>1
      <3>3. b[j].edge \in Refs \/ Ends(b[j].edge) \subseteq (put \cup PutBy(a, Len(a) + 1)) \cup PutBy(b, j)
        BY <1>7, <3>2 DEF Supported
      <3>4. PutBy(a, Len(a) + 1) \subseteq PutBy(c, k)
        <4>1. \A i \in DOMAIN a : i < k
          BY <1>1, <3>1
        <4> QED
          BY <1>5, <4>1 DEF PutBy
      <3>5. PutBy(b, j) \subseteq PutBy(c, k)
        <4>1. \A i \in DOMAIN b : i < j => Len(a) + i < k
          BY <1>1, <3>1
        <4> QED
          BY <1>6, <4>1 DEF PutBy
      <3> QED
        BY <3>2, <3>3, <3>4, <3>5
    <2> QED
      BY <2>1, <2>2
  <1>8. Supported(c, put)
    BY <1>7 DEF Supported
  <1> QED
    BY <1>2, <1>3, <1>8 DEF Sound

LEMMA SoundClosed ==
    ASSUME NEW put
    PROVE  <<>> \in Sound(put) /\ \A a, b \in Sound(put) : a \o b \in Sound(put)
  <1>1. <<>> \in Sound(put)
    BY DEF Sound, Supported
  <1>2. ASSUME NEW a \in Sound(put), NEW b \in Sound(put) PROVE a \o b \in Sound(put)
    <2>1. b \in Seq(Write) /\ Supported(b, put \cup PutBy(a, Len(a) + 1))
      <3>1. b \in Sound(put \cup PutBy(a, Len(a) + 1))
        BY MorePut
      <3> QED
        BY <3>1 DEF Sound
    <2> QED
      BY <2>1, JoinSound
  <1> QED
    BY <1>1, <1>2

LEMMA AsList ==
    ASSUME NEW S, NEW N \in Nat, NEW f \in [1 .. N -> S]
    PROVE  f \in Seq(S)
  OBVIOUS

LEMMA FlatSound ==
    ASSUME NEW put, NEW seqs \in Seq(Sound(put))
    PROVE  FlattenSeq(seqs) \in Sound(put)
  <1>1. <<>> \in Sound(put) /\ \A a, b \in Sound(put) : a \o b \in Sound(put)
    BY SoundClosed
  <1>2. PICK S : S = Sound(put)
    OBVIOUS
  <1>3. seqs \in Seq(S) /\ <<>> \in S /\ \A a, b \in S : a \o b \in S
    BY <1>1, <1>2
  <1> QED
    BY <1>2, <1>3, FlattenIn

LEMMA TypesAre ==
    /\ "INGESTS_TO" \in EdgeTypes /\ "TRANSFORMS_TO" \in EdgeTypes /\ "MAINTAINS" \in EdgeTypes
    /\ "ORCHESTRATES" \in EdgeTypes /\ "READ_BY" \in EdgeTypes /\ "TRAINED_ON" \in EdgeTypes
  BY DEF EdgeTypes

LEMMA SmallWrites ==
    /\ \A n \in Nodes : PutNode(n) \in Write /\ PutNode(n).op = "node" /\ PutNode(n).node = n
    /\ \A n, m \in Nodes, type \in EdgeTypes :
          /\ PutEdge(n, m, type) \in Write /\ PutEdge(n, m, type).op = "edge"
          /\ PutEdge(n, m, type).edge = Edge(n, m, type) /\ Ends(PutEdge(n, m, type).edge) = {n, m}
    /\ \A x \in Places :
          /\ PutEdge(x.volume, x.table, "AUTOLOADED_TO") \in Write
          /\ PutEdge(x.volume, x.table, "AUTOLOADED_TO").op = "edge"
          /\ Ends(PutEdge(x.volume, x.table, "AUTOLOADED_TO").edge) = {x.volume, x.table}
  <1>1. ASSUME NEW n \in Nodes PROVE PutNode(n) \in Write /\ PutNode(n).op = "node" /\ PutNode(n).node = n
    BY DEF PutNode, Write
  <1>2. ASSUME NEW n \in Nodes, NEW m \in Nodes, NEW type \in EdgeTypes
        PROVE  /\ PutEdge(n, m, type) \in Write /\ PutEdge(n, m, type).op = "edge"
               /\ PutEdge(n, m, type).edge = Edge(n, m, type) /\ Ends(PutEdge(n, m, type).edge) = {n, m}
    <2>1. Edge(n, m, type) \in [source : Nodes, target : Nodes, type : EdgeTypes] /\ Ends(Edge(n, m, type)) = {n, m}
      BY DEF Edge, Ends
    <2> QED
      BY <2>1 DEF PutEdge, Write
  <1>3. ASSUME NEW x \in Places
        PROVE  /\ PutEdge(x.volume, x.table, "AUTOLOADED_TO") \in Write
               /\ PutEdge(x.volume, x.table, "AUTOLOADED_TO").op = "edge"
               /\ Ends(PutEdge(x.volume, x.table, "AUTOLOADED_TO").edge) = {x.volume, x.table}
    <2>1. Edge(x.volume, x.table, "AUTOLOADED_TO") = PipeEdge(x)
      BY DEF PipeEdge
    <2>2. Ends(Edge(x.volume, x.table, "AUTOLOADED_TO")) = {x.volume, x.table}
      BY DEF Edge, Ends
    <2> QED
      BY <2>1, <2>2 DEF PutEdge, Write
  <1> QED
    BY <1>1, <1>2, <1>3

LEMMA EdgeWrite ==
    ASSUME NEW n \in Nodes, NEW m \in Nodes, NEW type \in EdgeTypes
    PROVE  /\ PutEdge(n, m, type) \in Write /\ PutEdge(n, m, type).op = "edge"
           /\ PutEdge(n, m, type).edge = Edge(n, m, type) /\ Ends(PutEdge(n, m, type).edge) = {n, m}
  BY SmallWrites

LEMMA OneNode ==
    ASSUME NEW n \in Nodes
    PROVE  /\ \A put : <<PutNode(n)>> \in Sound(put)
           /\ \A b \in Sound({n}) : <<PutNode(n)>> \o b \in Sound({})
  <1>1. PICK a : a = <<PutNode(n)>>
    OBVIOUS
  <1>2. a \in Seq(Write) /\ Len(a) = 1 /\ DOMAIN a = {1} /\ a[1].op = "node" /\ a[1].node = n
    BY <1>1, SmallWrites
  <1>3. \A put : a \in Sound(put)
    BY <1>2 DEF Sound, Supported
  <1>4. ASSUME NEW b \in Sound({n}) PROVE a \o b \in Sound({})
    <2>1. {n} \subseteq {} \cup PutBy(a, Len(a) + 1)
      BY <1>2 DEF PutBy
    <2>2. b \in Sound({} \cup PutBy(a, Len(a) + 1))
      BY <2>1, MorePut
    <2> QED
      BY <1>3, <2>2, JoinSound DEF Sound
  <1> QED
    BY <1>1, <1>3, <1>4

LEMMA NodeThenEdge ==
    ASSUME NEW n \in Nodes, NEW to \in Nodes, NEW type \in EdgeTypes
    PROVE  <<PutNode(n), PutEdge(n, to, type)>> \in Sound({to})
  <1>1. PICK a : a = <<PutNode(n), PutEdge(n, to, type)>>
    OBVIOUS
  <1>2. a \in Seq(Write) /\ DOMAIN a = {1, 2} /\ a[1].op = "node" /\ a[1].node = n /\ Ends(a[2].edge) = {n, to}
    BY <1>1, SmallWrites
  <1>3. n \in PutBy(a, 2)
    BY <1>2 DEF PutBy
  <1> QED
    BY <1>1, <1>2, <1>3 DEF Sound, Supported

\* Two nodes and an edge between them.
LEMMA NodesThenEdge ==
    ASSUME NEW n \in Nodes, NEW m \in Nodes, NEW x \in Write, x.op = "edge", Ends(x.edge) = {n, m}
    PROVE  /\ <<PutNode(n), PutNode(m), x>> \in Sound({})
           /\ \A b \in Sound({m}) : <<PutNode(n), PutNode(m), x>> \o b \in Sound({})
  <1>1. PICK a : a = <<PutNode(n), PutNode(m), x>>
    OBVIOUS
  <1>2. /\ a \in Seq(Write) /\ Len(a) = 3 /\ DOMAIN a = {1, 2, 3} /\ Ends(a[3].edge) = {n, m}
        /\ a[1].op = "node" /\ a[1].node = n /\ a[2].op = "node" /\ a[2].node = m
    BY <1>1, SmallWrites
  <1>3. n \in PutBy(a, 3) /\ m \in PutBy(a, 3) /\ m \in PutBy(a, Len(a) + 1)
    BY <1>2 DEF PutBy
  <1>4. a \in Sound({})
    BY <1>2, <1>3 DEF Sound, Supported
  <1>5. ASSUME NEW b \in Sound({m}) PROVE a \o b \in Sound({})
    <2>1. b \in Sound({} \cup PutBy(a, Len(a) + 1))
      BY <1>3, MorePut
    <2> QED
      BY <1>4, <2>1, JoinSound DEF Sound
  <1> QED
    BY <1>1, <1>4, <1>5

\* The nodes of a set, each with an edge to one node.
LEMMA FeedersSound ==
    ASSUME NEW S \in SUBSET Nodes, IsFiniteSet(S), NEW to \in Nodes, NEW type \in EdgeTypes
    PROVE  FlattenSeq([i \in 1 .. Cardinality(S) |-> <<PutNode(SetToSeq(S)[i]), PutEdge(SetToSeq(S)[i], to, type)>>]) \in Sound({to})
  <1> DEFINE N == Cardinality(S)
             l == SetToSeq(S)
             seqs == [i \in 1 .. N |-> <<PutNode(l[i]), PutEdge(l[i], to, type)>>]
  <1>1. N \in Nat /\ l \in [1 .. N -> S]
    BY Listing
  <1> HIDE DEF N, l
  <1>2. \A i \in 1 .. N : <<PutNode(l[i]), PutEdge(l[i], to, type)>> \in Sound({to})
    <2> TAKE i \in 1 .. N
    <2>1. l[i] \in Nodes
      BY <1>1
    <2> QED
      BY <2>1, NodeThenEdge
  <1>3. seqs \in [1 .. N -> Sound({to})]
    BY <1>2
  <1> HIDE DEF seqs
  <1>4. seqs \in Seq(Sound({to}))
    BY <1>1, <1>3, AsList
  <1>5. FlattenSeq(seqs) \in Sound({to})
    BY <1>4, FlatSound
  <1> QED
    BY <1>5 DEF seqs, N, l

LEMMA NodesAre ==
    /\ \A s \in ReadStatements : s.reads \subseteq Nodes /\ s.files \subseteq Nodes /\ s.target \in Nodes
    /\ \A k \in TasksSeen : k.job \in Nodes /\ ("optimizes" \in DOMAIN k => k.optimizes \in Nodes)
    /\ \A r \in Readers : r.id \in Nodes
    /\ \A m \in DbtModels : m.id \in Nodes /\ m.sources \subseteq Nodes /\ m.refs \subseteq Nodes
    /\ \A r \in TrainedRuns : r.table \in Nodes /\ r.run \in Nodes
    /\ Volumes \subseteq Nodes /\ Tables \subseteq Nodes
  <1>1. \A s \in ReadStatements : NodesOf(s) \subseteq Nodes
    BY DEF Nodes
  <1>2. \A s \in ReadStatements : s.reads \subseteq Nodes /\ s.files \subseteq Nodes /\ s.target \in Nodes
    BY <1>1 DEF NodesOf
  <1>3. \A k \in TasksSeen : k.job \in Nodes /\ ("optimizes" \in DOMAIN k => k.optimizes \in Nodes)
    BY DEF Nodes
  <1>4. \A r \in Readers : r.id \in Nodes
    BY DEF Nodes
  <1>5. \A m \in DbtModels : m.id \in Nodes /\ m.sources \subseteq Nodes /\ m.refs \subseteq Nodes
    BY DEF Nodes
  <1>6. \A r \in TrainedRuns : r.table \in Nodes /\ r.run \in Nodes
    BY DEF Nodes
  <1>7. Volumes \subseteq Nodes /\ Tables \subseteq Nodes
    BY DEF Nodes
  <1> QED
    BY <1>2, <1>3, <1>4, <1>5, <1>6, <1>7

LEMMA FeedsSound ==
    ASSUME NEW s \in ReadStatements, NEW type \in EdgeTypes
    PROVE  Feeds(s, type) \in Sound({s.target})
  <1>1. IsFiniteSet(s.files) /\ IsFiniteSet(Sources(s))
    <2>1. IsFiniteSet(s.files) /\ IsFiniteSet(s.reads)
      BY LineageAssumption
    <2>2. Sources(s) \subseteq s.reads
      BY DEF Sources
    <2> QED
      BY <2>1, <2>2, FS_Subset
  <1>2. s.files \in SUBSET Nodes /\ Sources(s) \in SUBSET Nodes /\ s.target \in Nodes
    BY NodesAre DEF Sources
  <1> DEFINE files == FlattenSeq([i \in 1 .. Cardinality(s.files) |->
                          <<PutNode(SetToSeq(s.files)[i]), PutEdge(SetToSeq(s.files)[i], s.target, "INGESTS_TO")>>])
             reads == FlattenSeq([i \in 1 .. Cardinality(Sources(s)) |->
                          <<PutNode(SetToSeq(Sources(s))[i]), PutEdge(SetToSeq(Sources(s))[i], s.target, type)>>])
  <1>3. Feeds(s, type) = files \o reads
    BY DEF Feeds, Flat
  <1>4. files \in Sound({s.target})
    BY <1>1, <1>2, FeedersSound DEF EdgeTypes
  <1>5. reads \in Sound({s.target})
    BY <1>1, <1>2, FeedersSound
  <1> HIDE DEF files, reads
  <1> QED
    BY <1>3, <1>4, <1>5, SoundClosed

LEMMA QuerySound ==
    ASSUME NEW s \in Statements
    PROVE  QueryWrites(s) \in Sound({})
  <1>1. s \in ReadStatements /\ s.target \in Nodes
    BY NodesAre DEF ReadStatements
  <1>2. Feeds(s, "TRANSFORMS_TO") \in Sound({s.target})
    BY <1>1, FeedsSound DEF EdgeTypes
  <1>3. <<PutNode(s.target)>> \o Feeds(s, "TRANSFORMS_TO") \in Sound({})
    BY <1>1, <1>2, OneNode
  <1> QED
    BY <1>3, SoundClosed DEF QueryWrites

LEMMA TaskSound ==
    ASSUME NEW k \in TasksSeen
    PROVE  TaskWrites(k) \in Sound({})
  <1>1. k.job \in Nodes
    BY NodesAre
  <1>2. CASE "optimizes" \in DOMAIN k
    <2>0. PICK o : o = k.optimizes
      OBVIOUS
    <2>1. o \in Nodes
      BY <1>2, <2>0, NodesAre
    <2>2. PICK x : x = PutEdge(k.job, o, "MAINTAINS")
      OBVIOUS
    <2>3. x \in Write /\ x.op = "edge" /\ Ends(x.edge) = {k.job, o}
      BY <1>1, <2>1, <2>2, EdgeWrite, TypesAre
    <2>4. TaskWrites(k) = <<PutNode(k.job), PutNode(o), x>>
      BY <1>2, <2>0, <2>2 DEF TaskWrites
    <2> QED
      BY <1>1, <2>1, <2>3, <2>4, NodesThenEdge
  <1>3. CASE "optimizes" \notin DOMAIN k
    <2>1. PICK s : s = k.statement
      OBVIOUS
    <2>2. s \in ReadStatements
      BY <1>3, <2>1 DEF ReadStatements
    <2>3. s.target \in Nodes
      BY <2>2, NodesAre
    <2>4. CASE s.target = NoTarget
      <3>1. TaskWrites(k) = <<PutNode(k.job)>>
        BY <1>3, <2>1, <2>4 DEF TaskWrites
      <3> QED
        BY <1>1, <3>1, OneNode
    <2>5. CASE s.target # NoTarget
      <3>1. PICK x : x = PutEdge(k.job, s.target, "ORCHESTRATES")
        OBVIOUS
      <3>2. x \in Write /\ x.op = "edge" /\ Ends(x.edge) = {k.job, s.target}
        <4>1. PICK a, b : a = k.job /\ b = s.target
          OBVIOUS
        <4>2. a \in Nodes /\ b \in Nodes /\ x = PutEdge(a, b, "ORCHESTRATES")
          BY <1>1, <2>3, <3>1, <4>1
        <4>3. x \in Write /\ x.op = "edge" /\ Ends(x.edge) = {a, b}
          BY <4>2, EdgeWrite, TypesAre
        <4> QED
          BY <4>1, <4>3
      <3>3. TaskWrites(k) = <<PutNode(k.job), PutNode(s.target), x>> \o Feeds(s, "TRANSFORMS_TO")
        BY <1>3, <2>1, <2>5, <3>1 DEF TaskWrites
      <3>4. Feeds(s, "TRANSFORMS_TO") \in Sound({s.target})
        BY <2>2, FeedsSound DEF EdgeTypes
      <3> QED
        BY <1>1, <2>3, <3>2, <3>3, <3>4, NodesThenEdge
    <2> QED
      BY <2>4, <2>5
  <1> QED
    BY <1>2, <1>3

LEMMA ReaderSound ==
    ASSUME NEW r \in Readers
    PROVE  ReaderWrites(r) \in Sound({})
  <1>1. PICK s : s = r.statement
    OBVIOUS
  <1>2. s \in ReadStatements /\ r.id \in Nodes
    BY <1>1, NodesAre DEF ReadStatements
  <1>3. Sources(s) \in SUBSET Nodes /\ IsFiniteSet(Sources(s))
    <2>1. Sources(s) \subseteq s.reads /\ IsFiniteSet(s.reads)
      BY <1>2, LineageAssumption DEF Sources
    <2>2. s.reads \subseteq Nodes
      BY <1>2, NodesAre
    <2> QED
      BY <2>1, <2>2, FS_Subset
  <1> DEFINE reads == FlattenSeq([i \in 1 .. Cardinality(Sources(s)) |->
                          <<PutNode(SetToSeq(Sources(s))[i]), PutEdge(SetToSeq(Sources(s))[i], r.id, "READ_BY")>>])
  <1>4. ReaderWrites(r) = <<PutNode(r.id)>> \o reads
    BY <1>1 DEF ReaderWrites, Flat
  <1>5. reads \in Sound({r.id})
    BY <1>2, <1>3, FeedersSound DEF EdgeTypes
  <1> HIDE DEF reads
  <1> QED
    BY <1>2, <1>4, <1>5, OneNode

LEMMA DbtSound ==
    ASSUME NEW m \in DbtModels
    PROVE  DbtWrites(m) \in Sound({})
  <1>1. m.id \in Nodes /\ m.sources \in SUBSET Nodes /\ m.refs \in SUBSET Nodes
    BY NodesAre
  <1>2. IsFiniteSet(m.sources) /\ IsFiniteSet(m.refs)
    BY LineageAssumption
  <1> DEFINE sources == FlattenSeq([i \in 1 .. Cardinality(m.sources) |->
                          <<PutNode(SetToSeq(m.sources)[i]), PutEdge(SetToSeq(m.sources)[i], m.id, "TRANSFORMS_TO")>>])
             N == Cardinality(m.refs)
             l == SetToSeq(m.refs)
             seqs == [i \in 1 .. N |-> <<PutEdge(l[i], m.id, "TRANSFORMS_TO")>>]
             refs == FlattenSeq(seqs)
  <1>3. DbtWrites(m) = (<<PutNode(m.id)>> \o sources) \o refs
    BY DEF DbtWrites, Flat
  <1>4. sources \in Sound({m.id})
    BY <1>1, <1>2, FeedersSound DEF EdgeTypes
  <1>5. N \in Nat /\ l \in [1 .. N -> m.refs]
    BY <1>2, Listing
  <1> HIDE DEF N, l, sources
  <1>6. \A i \in 1 .. N : <<PutEdge(l[i], m.id, "TRANSFORMS_TO")>> \in Sound({})
    <2> TAKE i \in 1 .. N
    <2>1. l[i] \in m.refs /\ l[i] \in Nodes
      BY <1>1, <1>5
    <2>2. PICK x : x = PutEdge(l[i], m.id, "TRANSFORMS_TO")
      OBVIOUS
    <2>3. x \in Write /\ x.edge = Edge(l[i], m.id, "TRANSFORMS_TO")
      BY <1>1, <2>1, <2>2, EdgeWrite, TypesAre
    <2>4. x.edge \in Refs
      BY <2>1, <2>3 DEF Refs
    <2>5. <<x>> \in Seq(Write) /\ DOMAIN <<x>> = {1} /\ <<x>>[1] = x
      BY <2>3
    <2>6. <<x>> \in Sound({})
      BY <2>4, <2>5 DEF Sound, Supported
    <2> QED
      BY <2>2, <2>6
  <1>7. seqs \in [1 .. N -> Sound({})]
    BY <1>6
  <1> HIDE DEF seqs
  <1>8. seqs \in Seq(Sound({}))
    BY <1>5, <1>7, AsList
  <1>9. refs \in Sound({})
    BY <1>8, FlatSound
  <1> HIDE DEF refs
  <1>10. <<PutNode(m.id)>> \o sources \in Sound({})
    BY <1>1, <1>4, OneNode
  <1> QED
    BY <1>3, <1>9, <1>10, SoundClosed

LEMMA RunSound ==
    ASSUME NEW r \in TrainedRuns
    PROVE  RunWrites(r) \in Sound({})
  <1>1. r.table \in Nodes /\ r.run \in Nodes
    BY NodesAre
  <1>2. PICK x : x = PutEdge(r.table, r.run, "TRAINED_ON")
    OBVIOUS
  <1>3. x \in Write /\ x.op = "edge" /\ Ends(x.edge) = {r.table, r.run}
    <2>1. PICK a, b : a = r.table /\ b = r.run
      OBVIOUS
    <2>2. a \in Nodes /\ b \in Nodes /\ x = PutEdge(a, b, "TRAINED_ON")
      BY <1>1, <1>2, <2>1
    <2>3. x \in Write /\ x.op = "edge" /\ Ends(x.edge) = {a, b}
      BY <2>2, EdgeWrite, TypesAre
    <2> QED
      BY <2>1, <2>3
  <1>4. RunWrites(r) = <<PutNode(r.table), PutNode(r.run), x>>
    BY <1>2 DEF RunWrites
  <1> QED
    BY <1>1, <1>3, <1>4, NodesThenEdge

LEMMA SyncSound ==
    ASSUME NEW x \in Places
    PROVE  SyncWrites(x) \in Sound({})
  <1>1. x.volume \in Nodes /\ x.table \in Nodes
    BY NodesAre DEF Places
  <1>2. PICK e : e = PutEdge(x.volume, x.table, "AUTOLOADED_TO")
    OBVIOUS
  <1>3. e \in Write /\ e.op = "edge" /\ Ends(e.edge) = {x.volume, x.table}
    BY <1>2, SmallWrites
  <1>4. SyncWrites(x) = <<PutNode(x.volume), PutNode(x.table), e>>
    BY <1>2 DEF SyncWrites
  <1> QED
    BY <1>1, <1>3, <1>4, NodesThenEdge

\* The scan's sections, one for each kind of asset.
LEMMA ScanSound ==
    /\ ScanWrites \in Seq(Sound({})) /\ TrainedWrites \in Sound({})
  <1>1. <<[op |-> "clear"]>> \in Sound({})
    <2>1. PICK x : x = [op |-> "clear"]
      OBVIOUS
    <2>2. x \in Write /\ x.op = "clear"
      BY <2>1 DEF Write
    <2>3. <<x>> \in Seq(Write) /\ DOMAIN <<x>> = {1} /\ <<x>>[1] = x
      BY <2>2
    <2> QED
      BY <2>1, <2>2, <2>3 DEF Sound, Supported
  <1> DEFINE of(S, F) == FlattenSeq([i \in 1 .. Cardinality(S) |-> F[SetToSeq(S)[i]]])
  <1>2. ASSUME NEW S, IsFiniteSet(S), NEW F \in [S -> Sound({})]
        PROVE  of(S, F) \in Sound({})
    <2> DEFINE N == Cardinality(S)
               l == SetToSeq(S)
               seqs == [i \in 1 .. N |-> F[l[i]]]
    <2>1. N \in Nat /\ l \in [1 .. N -> S]
      BY <1>2, Listing
    <2> HIDE DEF N, l
    <2>2. seqs \in [1 .. N -> Sound({})]
      BY <2>1
    <2> HIDE DEF seqs
    <2>3. seqs \in Seq(Sound({}))
      BY <2>1, <2>2, AsList
    <2>4. FlattenSeq(seqs) \in Sound({})
      BY <2>3, FlatSound
    <2> QED
      BY <2>4 DEF seqs, N, l
  <1>3. ASSUME NEW S, IsFiniteSet(S)
        PROVE  \A i \in 1 .. Cardinality(S) : SetToSeq(S)[i] \in S
    BY <1>3, Listing
  <1>4. Flat(CatalogTables, LAMBDA t : <<PutNode(t)>>) \in Sound({})
    <2> DEFINE F == [t \in CatalogTables |-> <<PutNode(t)>>]
    <2>1. IsFiniteSet(CatalogTables) /\ CatalogTables \subseteq Nodes
      BY LineageAssumption, FS_Subset, NodesAre DEF CatalogTables
    <2>2. F \in [CatalogTables -> Sound({})]
      BY <2>1, OneNode
    <2>3. Flat(CatalogTables, LAMBDA t : <<PutNode(t)>>) = of(CatalogTables, F)
      BY <1>3, <2>1 DEF Flat
    <2> HIDE DEF F, of
    <2> QED
      BY <1>2, <2>1, <2>2, <2>3
  <1>5. Flat(TasksSeen, TaskWrites) \in Sound({})
    <2> DEFINE F == [k \in TasksSeen |-> TaskWrites(k)]
    <2>1. IsFiniteSet(TasksSeen) /\ F \in [TasksSeen -> Sound({})]
      BY LineageAssumption, TaskSound
    <2>2. Flat(TasksSeen, TaskWrites) = of(TasksSeen, F)
      BY <1>3, <2>1 DEF Flat
    <2> HIDE DEF F, of
    <2> QED
      BY <1>2, <2>1, <2>2
  <1>6. Flat(Readers, ReaderWrites) \in Sound({})
    <2> DEFINE F == [r \in Readers |-> ReaderWrites(r)]
    <2>1. IsFiniteSet(Readers) /\ F \in [Readers -> Sound({})]
      BY LineageAssumption, ReaderSound
    <2>2. Flat(Readers, ReaderWrites) = of(Readers, F)
      BY <1>3, <2>1 DEF Flat
    <2> HIDE DEF F, of
    <2> QED
      BY <1>2, <2>1, <2>2
  <1>7. Flat(DbtModels, DbtWrites) \in Sound({})
    <2> DEFINE F == [m \in DbtModels |-> DbtWrites(m)]
    <2>1. IsFiniteSet(DbtModels) /\ F \in [DbtModels -> Sound({})]
      BY LineageAssumption, DbtSound
    <2>2. Flat(DbtModels, DbtWrites) = of(DbtModels, F)
      BY <1>3, <2>1 DEF Flat
    <2> HIDE DEF F, of
    <2> QED
      BY <1>2, <2>1, <2>2
  <1>8. TrainedWrites \in Sound({})
    <2> DEFINE F == [r \in TrainedRuns |-> RunWrites(r)]
    <2>1. IsFiniteSet(TrainedRuns) /\ F \in [TrainedRuns -> Sound({})]
      BY LineageAssumption, RunSound
    <2>2. TrainedWrites = of(TrainedRuns, F)
      BY <1>3, <2>1 DEF Flat, TrainedWrites
    <2> HIDE DEF F, of
    <2> QED
      BY <1>2, <2>1, <2>2
  <1>9. ScanWrites = <<  <<[op |-> "clear"]>>, Flat(CatalogTables, LAMBDA t : <<PutNode(t)>>), Flat(TasksSeen, TaskWrites),
                         Flat(Readers, ReaderWrites), Flat(DbtModels, DbtWrites), TrainedWrites >>
    BY DEF ScanWrites
  <1> HIDE DEF of
  <1>10. PICK S : S = Sound({})
    OBVIOUS
  <1>11. ScanWrites \in Seq(S)
    <2>1. PICK c : c = <<[op |-> "clear"]>>
      OBVIOUS
    <2>2. PICK f : f = Flat(CatalogTables, LAMBDA t : <<PutNode(t)>>)
      OBVIOUS
    <2>3. PICK k : k = Flat(TasksSeen, TaskWrites)
      OBVIOUS
    <2>4. PICK r : r = Flat(Readers, ReaderWrites)
      OBVIOUS
    <2>5. PICK m : m = Flat(DbtModels, DbtWrites)
      OBVIOUS
    <2>6. ScanWrites = <<c, f, k, r, m, TrainedWrites>>
      BY <1>9, <2>1, <2>2, <2>3, <2>4, <2>5
    <2>7. c \in S /\ f \in S /\ k \in S /\ r \in S /\ m \in S /\ TrainedWrites \in S
      BY <1>1, <1>4, <1>5, <1>6, <1>7, <1>8, <1>10, <2>1, <2>2, <2>3, <2>4, <2>5
    <2> QED
      BY <2>6, <2>7
  <1> QED
    BY <1>8, <1>10, <1>11

LEMMA NonEmptySections ==
    ASSUME NEW put, NEW sections \in Seq(Sound(put))
    PROVE  NonEmpty(sections) \in Seq(Sections(put))
  <1>1. PICK S : S = Sound(put)
    OBVIOUS
  <1>2. PICK places : places = {i \in DOMAIN sections : sections[i] # <<>>}
    OBVIOUS
  <1>3. sections \in Seq(S) /\ places \in SUBSET (1 .. Len(sections))
    BY <1>1, <1>2
  <1>4. PICK out : out = NonEmpty(sections)
    OBVIOUS
  <1>5. out \in Seq(S) /\ \A n \in DOMAIN out : \E i \in places : out[n] = sections[i]
    <2>1. out = Sublist(sections, places)
      BY <1>2, <1>4 DEF NonEmpty
    <2> QED
      BY <1>3, <2>1, SublistFacts
  <1>6. \A n \in DOMAIN out : out[n] \in S /\ out[n] # <<>>
    BY <1>2, <1>5
  <1>7. out \in [1 .. Len(out) -> Sections(put)] /\ Len(out) \in Nat
    BY <1>1, <1>5, <1>6 DEF Sections
  <1> QED
    BY <1>4, <1>7, AsList

LEMMA SectionsAreLists ==
    ASSUME NEW put, NEW q \in Seq(Sections(put))
    PROVE  q \in Seq(Seq(Write))
  <1>1. Sections(put) \subseteq Seq(Write)
    BY DEF Sections, Sound
  <1> QED
    BY <1>1, SeqMonotonic

LEMMA StartKeeps ==
    ASSUME LineageInv, NEW w \in Writers, NEW sections \in Seq(Sound({})), StartJob(w, sections),
           lnPipe' \in [Pipes -> Places \cup {NoPlace}], lnHeld' \in [Loaders -> Places \cup {NoPlace}]
    PROVE  LineageInv'
  <1>1. PlacesInv /\ TodoInv /\ KeptInv /\ EndsExplained
    BY DEF LineageInv
  <1>2. PICK q : q = NonEmpty(sections)
    OBVIOUS
  <1>3. q \in Seq(Sections({})) /\ q \in Seq(Seq(Write))
    BY <1>2, NonEmptySections, SectionsAreLists
  <1>4. lnTodo' = [lnTodo EXCEPT ![w] = q] /\ lnPut' = [lnPut EXCEPT ![w] = {}] /\ UNCHANGED <<lnNodes, lnEdges, lnLoose, lnKept>>
    BY <1>2 DEF StartJob
  <1>5. lnTodo \in [Writers -> Seq(Seq(Write))] /\ lnPut \in [Writers -> SUBSET Nodes]
    BY <1>1 DEF PlacesInv
  <1>6. lnTodo' \in [Writers -> Seq(Seq(Write))] /\ lnPut' \in [Writers -> SUBSET Nodes]
    BY <1>3, <1>4, <1>5
  <1>7. /\ lnTodo'[w] = q /\ lnPut'[w] = {}
        /\ \A v \in Writers : v # w => lnTodo'[v] = lnTodo[v] /\ lnPut'[v] = lnPut[v]
    BY <1>4, <1>5
  <1>8. TodoInv'
    BY <1>1, <1>3, <1>7 DEF TodoInv
  <1>9. PlacesInv' /\ KeptInv' /\ EndsExplained'
    BY <1>1, <1>4, <1>6 DEF PlacesInv, KeptInv, EndsExplained
  <1> QED
    BY <1>8, <1>9 DEF LineageInv

\* What a writer's first write is, and what is left after it.
LEMMA FirstFacts ==
    ASSUME TodoInv, NEW w \in Writers, lnTodo[w] # <<>>
    PROVE  /\ First(w) \in Write
           /\ First(w).op = "edge" => First(w).edge \in Refs \/ Ends(First(w).edge) \subseteq lnPut[w]
           /\ Tail(lnTodo[w]) \in Seq(Sections(lnPut[w]))
  <1>1. PICK S : S = Sections(lnPut[w])
    OBVIOUS
  <1>2. PICK q : q = lnTodo[w]
    OBVIOUS
  <1>3. q \in Seq(S) /\ q # <<>>
    BY <1>1, <1>2 DEF TodoInv
  <1>4. Head(q) \in S /\ Tail(q) \in Seq(S)
    BY <1>3
  <1>5. PICK s : s = Head(q)
    OBVIOUS
  <1>6. s \in Seq(Write) /\ s # <<>> /\ Supported(s, lnPut[w])
    BY <1>1, <1>4, <1>5 DEF Sections, Sound
  <1>7. Head(s) = s[1] /\ 1 \in DOMAIN s /\ s[1] \in Write
    BY <1>6
  <1>8. First(w) = s[1]
    BY <1>2, <1>5, <1>7 DEF First
  <1>9. PutBy(s, 1) = {}
    <2>1. \A i \in DOMAIN s : ~(i < 1)
      BY <1>6
    <2> QED
      BY <2>1 DEF PutBy
  <1>10. s[1].op = "edge" => s[1].edge \in Refs \/ Ends(s[1].edge) \subseteq lnPut[w]
    BY <1>6, <1>7, <1>9 DEF Supported
  <1> QED
    BY <1>1, <1>2, <1>4, <1>7, <1>8, <1>10

LEMMA LeftSound ==
    ASSUME TodoInv, NEW w \in Writers, lnTodo[w] # <<>>, NEW more \in Sound({}), NEW put, lnPut[w] \subseteq put,
           First(w).op = "node" => First(w).node \in put
    PROVE  Left(w, more) \in Seq(Sections(put))
  <1>1. PICK q : q = lnTodo[w]
    OBVIOUS
  <1>2. q # <<>> /\ q \in Seq(Sections(lnPut[w]))
    BY <1>1 DEF TodoInv
  <1>3. Sections(lnPut[w]) \subseteq Sections(put)
    BY MorePut
  <1>4. PICK S : S = Sections(put)
    OBVIOUS
  <1>5. q \in Seq(S)
    BY <1>2, <1>3, <1>4, SeqMonotonic
  <1>6. Tail(q) \in Seq(S) /\ Head(q) \in Sections(lnPut[w])
    BY <1>2, <1>5
  <1>7. PICK s : s = Head(q)
    OBVIOUS
  <1>8. s \in Seq(Write) /\ s # <<>> /\ Supported(s, lnPut[w])
    BY <1>6, <1>7 DEF Sections, Sound
  <1>9. PICK t : t = Tail(s)
    OBVIOUS
  <1>10. /\ t \in Seq(Write) /\ Len(t) = Len(s) - 1 /\ Len(s) \in Nat \ {0} /\ DOMAIN s = 1 .. Len(s) /\ DOMAIN t = 1 .. Len(t)
         /\ \A i \in DOMAIN t : t[i] = s[i + 1] /\ i + 1 \in DOMAIN s
         /\ First(w) = s[1]
    <2>1. First(w) = s[1]
      BY <1>1, <1>7, <1>8 DEF First
    <2>2. t \in Seq(Write) /\ Len(t) = Len(s) - 1 /\ \A i \in 1 .. Len(t) : t[i] = s[i + 1]
      BY <1>8, <1>9, HeadTailProperties
    <2>3. Len(s) \in Nat \ {0} /\ DOMAIN s = 1 .. Len(s)
      BY <1>8
    <2> QED
      BY <2>1, <2>2, <2>3
  <1>11. ASSUME NEW k \in DOMAIN t
         PROVE  PutBy(s, k + 1) \subseteq put \cup PutBy(t, k)
    <2>1. ASSUME NEW j \in DOMAIN s, j < k + 1, s[j].op = "node"
          PROVE  s[j].node \in put \cup PutBy(t, k)
      <3>1. CASE j = 1
        BY <1>10, <2>1, <3>1
      <3>2. CASE j # 1
        <4>1. j - 1 \in DOMAIN t /\ j - 1 < k /\ t[j - 1] = s[j]
          BY <1>10, <2>1, <3>2
        <4> QED
          BY <2>1, <4>1 DEF PutBy
      <3> QED
        BY <3>1, <3>2
    <2> QED
      BY <2>1 DEF PutBy
  <1>12. t \in Sound(put)
    <2>1. ASSUME NEW k \in DOMAIN t, t[k].op = "edge"
          PROVE  t[k].edge \in Refs \/ Ends(t[k].edge) \subseteq put \cup PutBy(t, k)
      <3>1. s[k + 1].edge \in Refs \/ Ends(s[k + 1].edge) \subseteq lnPut[w] \cup PutBy(s, k + 1)
        BY <1>8, <1>10, <2>1 DEF Supported
      <3> QED
        BY <1>10, <1>11, <2>1, <3>1
    <2> QED
      BY <1>10, <2>1 DEF Sound, Supported
  <1>13. PICK section : section = more \o t
    OBVIOUS
  <1>14. section \in Sound(put)
    <2>1. more \in Sound(put)
      BY MorePut
    <2> QED
      BY <1>12, <1>13, <2>1, SoundClosed
  <1>15. Left(w, more) = IF section = <<>> THEN Tail(q) ELSE <<section>> \o Tail(q)
    BY <1>1, <1>7, <1>9, <1>13 DEF Left
  <1>16. CASE section = <<>>
    BY <1>4, <1>6, <1>15, <1>16
  <1>17. CASE section # <<>>
    <2>1. section \in S
      BY <1>4, <1>14, <1>17 DEF Sections
    <2>2. <<section>> \in Seq(S)
      BY <2>1
    <2>3. <<section>> \o Tail(q) \in Seq(S)
      BY <1>6, <2>2, ConcatProperties
    <2> QED
      BY <1>4, <1>15, <1>17, <2>3
  <1> QED
    BY <1>16, <1>17

LEMMA TodoKeeps ==
    ASSUME PlacesInv, TodoInv, NEW w \in Writers, NEW put \in SUBSET Nodes, NEW q \in Seq(Sections(put)),
           lnTodo' = [lnTodo EXCEPT ![w] = q], lnPut' = [lnPut EXCEPT ![w] = put], lnHeld' = lnHeld,
           lnPipe' \in [Pipes -> Places \cup {NoPlace}]
    PROVE  PlacesInv' /\ TodoInv'
  <1>1. lnTodo \in [Writers -> Seq(Seq(Write))] /\ lnPut \in [Writers -> SUBSET Nodes] /\ q \in Seq(Seq(Write))
    BY SectionsAreLists DEF PlacesInv
  <1>2. /\ lnTodo' \in [Writers -> Seq(Seq(Write))] /\ lnPut' \in [Writers -> SUBSET Nodes]
        /\ lnTodo'[w] = q /\ lnPut'[w] = put
        /\ \A v \in Writers : v # w => lnTodo'[v] = lnTodo[v] /\ lnPut'[v] = lnPut[v]
    BY <1>1
  <1>3. TodoInv'
    BY <1>2 DEF TodoInv
  <1> QED
    BY <1>2, <1>3 DEF PlacesInv

\* A write that puts no node.
LEMMA OtherWrite ==
    ASSUME PlacesInv, TodoInv, NEW w \in Writers, lnTodo[w] # <<>>, First(w).op # "node", NEW more \in Sound({}),
           StepDone(w, more), lnPut' = lnPut, lnHeld' = lnHeld, lnPipe' \in [Pipes -> Places \cup {NoPlace}]
    PROVE  PlacesInv' /\ TodoInv'
  <1>1. lnPut[w] \in SUBSET Nodes /\ lnPut' = [lnPut EXCEPT ![w] = lnPut[w]]
    BY DEF PlacesInv
  <1>2. Left(w, more) \in Seq(Sections(lnPut[w]))
    BY LeftSound
  <1> QED
    BY <1>1, <1>2, TodoKeeps DEF StepDone

LEMMA PlacesType ==
    ASSUME PlacesInv
    PROVE  lnPipe \in [Pipes -> Places \cup {NoPlace}] /\ lnHeld \in [Loaders -> Places \cup {NoPlace}]
  BY DEF PlacesInv

LEMMA UpsertNodeStep ==
    ASSUME LineageInv, NEW w \in Writers, UpsertNode(w)
    PROVE  LineageInv'
  <1>1. PlacesInv /\ TodoInv /\ KeptInv /\ EndsExplained /\ lnTodo[w] # <<>> /\ First(w).op = "node"
    BY DEF LineageInv, UpsertNode, Coming, First
  <1>2. First(w) \in Write /\ First(w).node \in Nodes
    BY <1>1, FirstFacts, WriteKinds
  <1>3. PICK put : put = lnPut[w] \cup {First(w).node}
    OBVIOUS
  <1>4. put \in SUBSET Nodes /\ lnPut' = [lnPut EXCEPT ![w] = put] /\ lnTodo' = [lnTodo EXCEPT ![w] = Left(w, <<>>)]
    BY <1>1, <1>2, <1>3 DEF PlacesInv, UpsertNode, StepDone
  <1>5. Left(w, <<>>) \in Seq(Sections(put))
    BY <1>1, <1>3, LeftSound, SoundClosed
  <1>6. PlacesInv' /\ TodoInv'
    BY <1>1, <1>4, <1>5, PlacesType, TodoKeeps DEF UpsertNode
  <1>7. KeptInv' /\ EndsExplained'
    BY <1>1 DEF KeptInv, EndsExplained, UpsertNode
  <1> QED
    BY <1>6, <1>7 DEF LineageInv

LEMMA UpsertEdgeStep ==
    ASSUME LineageInv, NEW w \in Writers, UpsertEdge(w)
    PROVE  LineageInv'
  <1>1. PlacesInv /\ TodoInv /\ KeptInv /\ EndsExplained /\ lnTodo[w] # <<>> /\ First(w).op = "edge"
    BY DEF LineageInv, UpsertEdge, Coming, First
  <1>2. PICK e : e = First(w).edge
    OBVIOUS
  <1>3. /\ e \in Refs \/ Ends(e) \subseteq lnPut[w]
        /\ e \in [source : Nodes, target : Nodes, type : EdgeTypes] \cup {PipeEdge(x) : x \in Places}
    BY <1>1, <1>2, FirstFacts, WriteKinds
  <1>4. PlacesInv' /\ TodoInv'
    BY <1>1, PlacesType, OtherWrite, SoundClosed DEF UpsertEdge
  <1>5. CASE e.source = e.target
    BY <1>1, <1>2, <1>4, <1>5 DEF UpsertEdge, KeptInv, EndsExplained, LineageInv
  <1>6. CASE e.source # e.target
    <2>1. /\ lnEdges' = lnEdges \cup {e} /\ lnNodes' = lnNodes
          /\ lnLoose' = IF Ends(e) \ lnNodes # {} /\ Ends(e) \subseteq lnPut[w] THEN lnLoose \cup {e} ELSE lnLoose
          /\ lnKept' = IF e.type = "AUTOLOADED_TO" THEN lnKept \cup {e} ELSE lnKept
      BY <1>2, <1>6 DEF UpsertEdge
    <2>2. e.type = "AUTOLOADED_TO" => e.source \in Volumes /\ e.target \in Tables
      <3>1. \A x \in Places : PipeEdge(x).source \in Volumes /\ PipeEdge(x).target \in Tables
        BY DEF PipeEdge, Edge, Places
      <3> QED
        BY <1>3, <3>1 DEF EdgeTypes
    <2>3. KeptInv'
      BY <1>1, <2>1, <2>2 DEF KeptInv
    <2>4. EndsExplained'
      <3>1. Ends(e) \subseteq lnNodes \/ e \in lnLoose' \/ e \in Refs
        BY <1>3, <2>1
      <3>2. lnLoose \subseteq lnLoose'
        BY <2>1
      <3> QED
        BY <1>1, <2>1, <3>1, <3>2 DEF EndsExplained
    <2> QED
      BY <1>4, <2>3, <2>4 DEF LineageInv
  <1> QED
    BY <1>5, <1>6

LEMMA RemoveEdgeStep ==
    ASSUME LineageInv, NEW w \in Writers, RemoveEdge(w)
    PROVE  LineageInv'
  <1>1. PlacesInv /\ TodoInv /\ KeptInv /\ EndsExplained /\ lnTodo[w] # <<>> /\ First(w).op = "untie"
    BY DEF LineageInv, RemoveEdge, Coming, First
  <1>2. PICK x : x = First(w).place
    OBVIOUS
  <1>3. x \in Places
    BY <1>1, <1>2, FirstFacts, WriteKinds
  <1>4. PICK e : e = PipeEdge(x)
    OBVIOUS
  <1>5. PICK more : more = IF Remaining(x.volume, e) = {}
                           THEN <<[op |-> "drop", node |-> x.volume, seen |-> {f \in lnEdges \ {e} : f.source = x.volume}]>>
                           ELSE <<>>
    OBVIOUS
  <1>6. /\ lnEdges' = lnEdges \ {e} /\ lnKept' = lnKept \ {e} /\ lnLoose' = lnLoose \ {e}
        /\ StepDone(w, more) /\ UNCHANGED <<lnNodes, lnPipe, lnHeld, lnPut>>
    BY <1>2, <1>4, <1>5 DEF RemoveEdge
  <1>7. more \in Sound({})
    <2>1. CASE Remaining(x.volume, e) # {}
      BY <1>5, <2>1, SoundClosed
    <2>2. CASE Remaining(x.volume, e) = {}
      <3>1. PICK d : d = [op |-> "drop", node |-> x.volume, seen |-> {f \in lnEdges \ {e} : f.source = x.volume}]
        OBVIOUS
      <3>2. {f \in lnEdges \ {e} : f.source = x.volume} = {}
        BY <2>2 DEF Remaining
      <3>3. d.op = "drop" /\ d \in Write
        <4>1. x.volume \in Volumes
          BY <1>3 DEF Places
        <4> QED
          BY <3>1, <3>2, <4>1 DEF Write
      <3>4. <<d>> \in Seq(Write) /\ DOMAIN <<d>> = {1} /\ <<d>>[1] = d
        BY <3>3
      <3>5. more = <<d>>
        BY <1>5, <2>2, <3>1
      <3> QED
        BY <3>3, <3>4, <3>5 DEF Sound, Supported
    <2> QED
      BY <2>1, <2>2
  <1>8. PlacesInv' /\ TodoInv'
    BY <1>1, <1>6, <1>7, PlacesType, OtherWrite
  <1>9. KeptInv' /\ EndsExplained'
    BY <1>1, <1>6 DEF KeptInv, EndsExplained
  <1> QED
    BY <1>8, <1>9 DEF LineageInv

LEMMA DropVolumeStep ==
    ASSUME LineageInv, NEW w \in Writers, DropVolume(w)
    PROVE  LineageInv'
  <1>1. PlacesInv /\ TodoInv /\ KeptInv /\ EndsExplained /\ lnTodo[w] # <<>> /\ First(w).op = "drop"
    BY DEF LineageInv, DropVolume, Coming, First
  <1>2. PICK v : v = First(w).node
    OBVIOUS
  <1>3. v \in Volumes /\ First(w).seen = {}
    BY <1>1, <1>2, FirstFacts, WriteKinds
  <1>4. /\ lnNodes' = lnNodes \ {v} /\ lnEdges' = lnEdges \ Touching(v) /\ lnLoose' = lnLoose \ Touching(v)
        /\ lnKept' = {e \in lnKept : e.source = v => e \in First(w).seen}
    BY <1>2 DEF DropVolume
  <1>5. PlacesInv' /\ TodoInv'
    BY <1>1, PlacesType, OtherWrite, SoundClosed DEF DropVolume
  <1>6. \A e \in lnEdges : e \in Touching(v) <=> v \in Ends(e)
    BY DEF Touching
  <1>7. KeptInv'
    <2>1. \A e \in lnKept' : e \in lnKept /\ e.source # v /\ e.target # v /\ e \in lnEdges
      BY <1>1, <1>3, <1>4, LineageAssumption DEF KeptInv
    <2>2. \A e \in lnKept' : e \in lnEdges'
      BY <1>4, <1>6, <2>1 DEF Ends
    <2> QED
      BY <1>1, <2>1, <2>2 DEF KeptInv
  <1>8. EndsExplained'
    BY <1>1, <1>4, <1>6 DEF EndsExplained
  <1> QED
    BY <1>5, <1>7, <1>8 DEF LineageInv

LEMMA LineageStart == LineageInit => LineageInv
  <1> SUFFICES ASSUME LineageInit PROVE LineageInv
    OBVIOUS
  <1>1. NonEmpty(ScanWrites) \in Seq(Sections({})) /\ NonEmpty(ScanWrites) \in Seq(Seq(Write))
    BY ScanSound, NonEmptySections, SectionsAreLists
  <1>2. PlacesInv
    BY <1>1, LineageAssumption DEF LineageInit, PlacesInv
  <1>3. TodoInv
    BY <1>1 DEF LineageInit, TodoInv
  <1>4. KeptInv
    <2>1. \A x \in Places : PipeEdge(x).source \in Volumes /\ PipeEdge(x).target \in Tables
      BY DEF PipeEdge, Edge, Places
    <2>2. \A q \in Pipes : Saved[q] # NoPlace => Saved[q] \in Places
      BY LineageAssumption
    <2> QED
      BY <2>1, <2>2 DEF LineageInit, KeptInv
  <1>5. EndsExplained
    BY DEF LineageInit, EndsExplained
  <1> QED
    BY <1>2, <1>3, <1>4, <1>5 DEF LineageInv

LEMMA LineageStep == LineageInv /\ [LineageNext]_lineageVars => LineageInv'
  <1> SUFFICES ASSUME LineageInv, [LineageNext]_lineageVars PROVE LineageInv'
    OBVIOUS
  <1>0. PlacesInv /\ TodoInv /\ KeptInv /\ EndsExplained
    BY DEF LineageInv
  <1>h. lnPipe \in [Pipes -> Places \cup {NoPlace}] /\ lnHeld \in [Loaders -> Places \cup {NoPlace}]
    BY <1>0, PlacesType
  <1>w. Loop \in Writers /\ Loaders \subseteq Writers
    BY DEF Writers
  <1>s. ASSUME NEW b \in Sound({}) PROVE <<b>> \in Seq(Sound({}))
    OBVIOUS
  <1>1. ASSUME NEW s \in Statements, RecordQuery(s) PROVE LineageInv'
    <2>1. <<QueryWrites(s)>> \in Seq(Sound({}))
      BY <1>s, QuerySound
    <2> QED
      BY <1>1, <1>h, <1>w, <2>1, StartKeeps DEF RecordQuery
  <1>2. ASSUME Refresh PROVE LineageInv'
    <2>1. ScanWrites \o <<TrainedWrites>> \in Seq(Sound({}))
      BY <1>s, ScanSound, ConcatProperties
    <2> QED
      BY <1>2, <1>h, <1>w, <2>1, StartKeeps DEF Refresh
  <1>3. ASSUME NEW t \in Tables, AskTable(t) PROVE LineageInv'
    <2>1. << <<PutNode(t)>> >> \in Seq(Sound({}))
      BY <1>s, OneNode, NodesAre
    <2> QED
      BY <1>3, <1>h, <1>w, <2>1, StartKeeps DEF AskTable
  <1>4. ASSUME NEW p \in Pipes, NEW x \in Places, SavePipeline(p, x) PROVE LineageInv'
    <2>1. <<SyncWrites(x)>> \in Seq(Sound({}))
      BY <1>s, SyncSound
    <2>2. lnPipe' \in [Pipes -> Places \cup {NoPlace}] /\ lnHeld' = lnHeld
      BY <1>4, <1>h DEF SavePipeline
    <2> QED
      BY <1>4, <1>h, <1>w, <2>1, <2>2, StartKeeps DEF SavePipeline
  <1>5. ASSUME NEW p \in Pipes, DeletePipeline(p) PROVE LineageInv'
    <2>1. PICK x : x = [op |-> "untie", place |-> lnPipe[p]]
      OBVIOUS
    <2>2. PICK y : y = [op |-> "row", pipe |-> p]
      OBVIOUS
    <2>3. x \in Write /\ x.op = "untie"
      <3>1. lnPipe[p] \in Places
        BY <1>5, <1>h DEF DeletePipeline
      <3> QED
        BY <2>1, <3>1 DEF Write
    <2>4. y \in Write /\ y.op = "row"
      BY <2>2 DEF Write
    <2>5. ASSUME NEW z \in Write, z.op # "edge" PROVE <<z>> \in Sound({})
      <3>1. <<z>> \in Seq(Write) /\ DOMAIN <<z>> = {1} /\ <<z>>[1] = z
        OBVIOUS
      <3> QED
        BY <2>5, <3>1 DEF Sound, Supported
    <2>6. <<x>> \in Sound({}) /\ <<y>> \in Sound({})
      BY <2>3, <2>4, <2>5
    <2>7. << <<x>>, <<y>> >> \in Seq(Sound({}))
      BY <2>6
    <2>8. StartJob(Loop, << <<x>>, <<y>> >>) /\ UNCHANGED <<lnPipe, lnHeld>>
      BY <1>5, <2>1, <2>2 DEF DeletePipeline
    <2> QED
      BY <1>h, <1>w, <2>7, <2>8, StartKeeps
  <1>6. ASSUME NEW l \in Loaders, NEW p \in Pipes, ReadRow(l, p) PROVE LineageInv'
    <2>1. PlacesInv'
      BY <1>0, <1>6 DEF PlacesInv, ReadRow
    <2> QED
      BY <1>0, <1>6, <2>1 DEF ReadRow, LineageInv, TodoInv, KeptInv, EndsExplained
  <1>7. ASSUME NEW l \in Loaders, LoadFile(l) PROVE LineageInv'
    <2>1. lnHeld[l] \in Places
      BY <1>7, <1>h DEF LoadFile
    <2>2. <<SyncWrites(lnHeld[l])>> \in Seq(Sound({}))
      BY <1>s, <2>1, SyncSound
    <2> QED
      BY <1>7, <1>h, <1>w, <2>2, StartKeeps DEF LoadFile
  <1>8. ASSUME NEW l \in Loaders, EndOfRun(l) PROVE LineageInv'
    <2>1. PlacesInv'
      BY <1>0, <1>8 DEF PlacesInv, EndOfRun
    <2> QED
      BY <1>0, <1>8, <2>1 DEF EndOfRun, LineageInv, TodoInv, KeptInv, EndsExplained
  <1>9. ASSUME NEW w \in Writers, SyncModels(w) PROVE LineageInv'
    <2>1. <<TrainedWrites>> \in Seq(Sound({}))
      BY <1>s, ScanSound
    <2> QED
      BY <1>9, <1>h, <2>1, StartKeeps DEF SyncModels
  <1>10. ASSUME NEW w \in Writers, ClearAll(w) PROVE LineageInv'
    <2>1. lnTodo[w] # <<>> /\ First(w).op = "clear"
      BY <1>10 DEF ClearAll, Coming, First
    <2>2. PlacesInv' /\ TodoInv'
      BY <1>0, <1>10, <1>h, <2>1, OtherWrite, SoundClosed DEF ClearAll
    <2> QED
      BY <1>10, <2>2 DEF ClearAll, LineageInv, KeptInv, EndsExplained
  <1>11. ASSUME NEW w \in Writers, DeleteRow(w) PROVE LineageInv'
    <2>1. lnTodo[w] # <<>> /\ First(w).op = "row"
      BY <1>11 DEF DeleteRow, Coming, First
    <2>2. lnPipe' \in [Pipes -> Places \cup {NoPlace}]
      BY <1>11, <1>h DEF DeleteRow
    <2>3. PlacesInv' /\ TodoInv'
      BY <1>0, <1>11, <2>1, <2>2, OtherWrite, SoundClosed DEF DeleteRow
    <2> QED
      BY <1>0, <1>11, <2>3 DEF DeleteRow, LineageInv, KeptInv, EndsExplained
  <1>12. ASSUME NEW w \in Writers, Fail(w) PROVE LineageInv'
    <2>1. lnTodo[w] # <<>>
      BY <1>12 DEF Fail
    <2>2. PICK q : q = IF Coming(w, "clear") THEN <<>> ELSE Tail(lnTodo[w])
      OBVIOUS
    <2>a. <<>> \in Seq(Sections(lnPut[w]))
      <3>1. PICK S : S = Sections(lnPut[w])
        OBVIOUS
      <3>2. <<>> \in Seq(S)
        OBVIOUS
      <3> QED
        BY <3>1, <3>2
    <2>b. Tail(lnTodo[w]) \in Seq(Sections(lnPut[w]))
      BY <1>0, <2>1, FirstFacts
    <2>3. q \in Seq(Sections(lnPut[w]))
      BY <2>2, <2>a, <2>b
    <2>4. lnTodo' = [lnTodo EXCEPT ![w] = q] /\ lnPut' = lnPut /\ lnPipe' = lnPipe /\ lnHeld' = lnHeld
      BY <1>12, <2>2 DEF Fail
    <2>5. lnPut[w] \in SUBSET Nodes /\ lnPut' = [lnPut EXCEPT ![w] = lnPut[w]]
      BY <1>0, <2>4 DEF PlacesInv
    <2>6. PlacesInv' /\ TodoInv'
      BY <1>0, <1>h, <2>3, <2>4, <2>5, TodoKeeps
    <2> QED
      BY <1>0, <1>12, <2>6 DEF Fail, LineageInv, KeptInv, EndsExplained
  <1>13. CASE UNCHANGED lineageVars
    BY <1>0, <1>13 DEF lineageVars, LineageInv, PlacesInv, TodoInv, KeptInv, EndsExplained
  <1> QED
    BY <1>1, <1>2, <1>3, <1>4, <1>5, <1>6, <1>7, <1>8, <1>9, <1>10, <1>11, <1>12, <1>13,
       UpsertNodeStep, UpsertEdgeStep, RemoveEdgeStep, DropVolumeStep DEF LineageNext

\* However queries, scans, pipelines and kernels interleave their transactions and whichever fail, an edge without
\* one of its nodes is a dbt reference or lost the node between the two upserts of one job, and a pipeline's edge
\* stays until a scan, a deletion of its place or a deletion that had counted before it takes it (lineage:
\* upsert_edge, delete_node, scan_and_sync_all_assets; autoloader: _remove_pipeline_lineage).
THEOREM GraphIsExplained == LineageSpec => []GraphExplained
  <1>1. LineageInit => LineageInv
    BY LineageStart
  <1>2. LineageInv /\ [LineageNext]_lineageVars => LineageInv'
    BY LineageStep
  <1>3. LineageInv => GraphExplained
    BY DEF LineageInv, KeptInv, GraphExplained, PipelinesTraced
  <1> QED
    BY <1>1, <1>2, <1>3, PTL DEF LineageSpec

-----------------------------------------------------------------------------
(* The walks over the graph. *)

\* A path of k edges: impact analysis asks for any length, table lineage for bounded ones.
Path(edges, n, m, k) ==
    \E p \in [0 .. k -> {n} \cup {e.target : e \in edges}] :
        p[0] = n /\ p[k] = m /\ \A i \in 1 .. k : \E e \in edges : e.source = p[i - 1] /\ e.target = p[i]

LEMMA NoEdge == ASSUME NEW edges, NEW n, NEW m PROVE Path(edges, n, m, 0) <=> m = n
  <1>1. ASSUME m = n PROVE Path(edges, n, m, 0)
    <2> DEFINE p == [i \in 0 .. 0 |-> n]
    <2>1. p \in [0 .. 0 -> {n} \cup {e.target : e \in edges}] /\ p[0] = n
      OBVIOUS
    <2>2. 1 .. 0 = {}
      OBVIOUS
    <2> HIDE DEF p
    <2> QED
      BY <1>1, <2>1, <2>2 DEF Path
  <1> QED
    BY <1>1 DEF Path

LEMMA OneMoreEdge ==
    ASSUME NEW edges, NEW n, NEW m, NEW k \in Nat
    PROVE  Path(edges, n, m, k + 1) <=> \E e \in edges : Path(edges, n, e.source, k) /\ e.target = m
  <1> DEFINE N == {n} \cup {e.target : e \in edges}
  <1>0. k + 1 \in 0 .. k + 1 /\ k \in 0 .. k /\ (k + 1) - 1 = k /\ \A i \in 0 .. k : i \in 0 .. k + 1 /\ i # k + 1
    OBVIOUS
  <1>1. ASSUME Path(edges, n, m, k + 1)
        PROVE  \E e \in edges : Path(edges, n, e.source, k) /\ e.target = m
    <2>1. PICK p \in [0 .. k + 1 -> N] :
             p[0] = n /\ p[k + 1] = m /\ \A i \in 1 .. k + 1 : \E e \in edges : e.source = p[i - 1] /\ e.target = p[i]
      BY <1>1 DEF Path
    <2>2. PICK e \in edges : e.source = p[k] /\ e.target = m
      <3>1. k + 1 \in 1 .. k + 1
        OBVIOUS
      <3> QED
        BY <1>0, <2>1, <3>1
    <2> DEFINE q == [i \in 0 .. k |-> p[i]]
    <2>3. q \in [0 .. k -> N] /\ \A i \in 0 .. k : q[i] = p[i]
      BY <1>0, <2>1
    <2> HIDE DEF q
    <2>4. q[0] = n /\ q[k] = e.source
      BY <1>0, <2>1, <2>2, <2>3
    <2>5. \A i \in 1 .. k : \E d \in edges : d.source = q[i - 1] /\ d.target = q[i]
      <3> SUFFICES ASSUME NEW i \in 1 .. k PROVE \E d \in edges : d.source = q[i - 1] /\ d.target = q[i]
        OBVIOUS
      <3>1. i \in 1 .. k + 1 /\ i \in 0 .. k /\ i - 1 \in 0 .. k
        OBVIOUS
      <3> QED
        BY <2>1, <2>3, <3>1
    <2>6. Path(edges, n, e.source, k)
      BY <2>3, <2>4, <2>5 DEF Path
    <2> QED
      BY <2>2, <2>6
  <1>2. ASSUME NEW e \in edges, Path(edges, n, e.source, k), e.target = m
        PROVE  Path(edges, n, m, k + 1)
    <2>1. PICK p \in [0 .. k -> N] :
             p[0] = n /\ p[k] = e.source /\ \A i \in 1 .. k : \E d \in edges : d.source = p[i - 1] /\ d.target = p[i]
      BY <1>2 DEF Path
    <2> DEFINE q == [i \in 0 .. k + 1 |-> IF i = k + 1 THEN m ELSE p[i]]
    <2>2. m \in N
      BY <1>2
    <2>3. \A i \in 0 .. k + 1 : i # k + 1 => i \in 0 .. k
      OBVIOUS
    <2>4. q \in [0 .. k + 1 -> N] /\ q[k + 1] = m /\ \A i \in 0 .. k : q[i] = p[i]
      <3>1. \A i \in 0 .. k + 1 : (IF i = k + 1 THEN m ELSE p[i]) \in N
        BY <2>1, <2>2, <2>3
      <3> QED
        BY <1>0, <3>1
    <2> HIDE DEF q
    <2>5. ASSUME NEW i \in 1 .. k + 1 PROVE \E d \in edges : d.source = q[i - 1] /\ d.target = q[i]
      <3>1. CASE i = k + 1
        BY <1>0, <1>2, <2>1, <2>4, <3>1
      <3>2. CASE i # k + 1
        <4>1. i \in 1 .. k /\ i \in 0 .. k /\ i - 1 \in 0 .. k
          BY <3>2
        <4> QED
          BY <2>1, <2>4, <4>1
      <3> QED
        BY <3>1, <3>2
    <2>6. q[0] = n
      BY <2>1, <2>4
    <2> QED
      BY <2>4, <2>5, <2>6 DEF Path
  <1> QED
    BY <1>1, <1>2

\* What becomes of a when a function is applied again and again.
Iterated(D, a, G, N) == {f \in [0 .. N -> D] : f[0] = a /\ \A k \in 0 .. N : k # 0 => f[k] = G[f[k - 1]]}

LEMMA Iterates ==
    ASSUME NEW D, NEW a \in D, NEW G \in [D -> D], NEW N \in Nat
    PROVE  Iterated(D, a, G, N) # {}
  <1> DEFINE Follows(f, n) == f \in [0 .. n -> D] /\ f[0] = a /\ \A k \in 0 .. n : k # 0 => f[k] = G[f[k - 1]]
             P == {n \in Nat : \E f : Follows(f, n)}
  <1>1. 0 \in P
    <2> DEFINE f == [k \in 0 .. 0 |-> a]
    <2>1. Follows(f, 0)
      OBVIOUS
    <2> QED
      BY <2>1
  <1>2. ASSUME NEW n \in P PROVE n + 1 \in P
    <2>1. n \in Nat
      OBVIOUS
    <2>2. PICK f : Follows(f, n)
      OBVIOUS
    <2>3. n \in 0 .. n /\ (n + 1) - 1 = n /\ n + 1 # 0 /\ n + 1 \in 0 .. n + 1 /\ \A k \in 0 .. n : k \in 0 .. n + 1 /\ k # n + 1
      BY <2>1
    <2>4. \A k \in 0 .. n + 1 : k # n + 1 => k \in 0 .. n
      BY <2>1
    <2>5. G[f[n]] \in D
      BY <2>2, <2>3
    <2> DEFINE g == [k \in 0 .. n + 1 |-> IF k = n + 1 THEN G[f[n]] ELSE f[k]]
    <2>6. g \in [0 .. n + 1 -> D] /\ g[n + 1] = G[f[n]] /\ \A k \in 0 .. n : g[k] = f[k]
      <3>1. \A k \in 0 .. n + 1 : (IF k = n + 1 THEN G[f[n]] ELSE f[k]) \in D
        BY <2>2, <2>4, <2>5
      <3> QED
        BY <2>3, <3>1
    <2> HIDE DEF g
    <2>7. ASSUME NEW k \in 0 .. n + 1, k # 0 PROVE g[k] = G[g[k - 1]]
      <3>1. CASE k = n + 1
        BY <2>3, <2>6, <3>1
      <3>2. CASE k # n + 1
        <4>1. k \in 0 .. n /\ k - 1 \in 0 .. n
          BY <2>1, <2>7, <3>2
        <4> QED
          BY <2>2, <2>6, <2>7, <4>1
      <3> QED
        BY <3>1, <3>2
    <2>8. g[0] = a
      BY <2>1, <2>2, <2>6
    <2>9. Follows(g, n + 1)
      BY <2>6, <2>7, <2>8
    <2> QED
      BY <2>1, <2>9
  <1>3. P = Nat
    <2>1. P \in SUBSET Nat
      OBVIOUS
    <2> HIDE DEF P
    <2> QED
      BY <1>1, <1>2, <2>1, EveryNumber
  <1>4. PICK f : Follows(f, N)
    BY <1>3
  <1> QED
    BY <1>4 DEF Iterated

\* Table lineage shows what paths of at most that many edges lead to, whatever the graph.
LEMMA NearIsRight ==
    ASSUME NEW edges, NEW n, NEW most \in Nat
    PROVE  \A m : m \in Near(edges, n, most) <=> \E k \in 1 .. most : Path(edges, n, m, k)
  <1> DEFINE N == {n} \cup {e.target : e \in edges}
             D == [found : SUBSET N, level : SUBSET N]
             a == [found |-> {}, level |-> {n}]
             After(s) == [found |-> s.found \cup {e.target : e \in {f \in edges : f.source \in s.level}},
                          level |-> {e.target : e \in {f \in edges : f.source \in s.level}}]
             Says(w) == w = [k \in 0 .. most |->
                                IF k = 0 THEN [found |-> {}, level |-> {n}]
                                ELSE LET new == {e.target : e \in {f \in edges : f.source \in w[k - 1].level}}
                                     IN  [found |-> w[k - 1].found \cup new, level |-> new]]
             walk == CHOOSE w : Says(w)
  <1>1. Near(edges, n, most) = walk[most].found
    BY DEF Near
  <1>2. \E w : Says(w)
    <2> DEFINE G == [s \in D |-> After(s)]
    <2>1. a \in D
      OBVIOUS
    <2>2. \A s \in D : After(s) \in D
      OBVIOUS
    <2>3. G \in [D -> D] /\ \A s \in D : G[s] = After(s)
      BY <2>2
    <2> HIDE DEF G, D, a, After
    <2>a. PICK w : w \in Iterated(D, a, G, most)
      <3>1. Iterated(D, a, G, most) # {}
        BY <2>1, <2>3, Iterates
      <3> QED
        BY <3>1
    <2>4. w \in [0 .. most -> D] /\ w[0] = a /\ \A k \in 0 .. most : k # 0 => w[k] = G[w[k - 1]]
      BY <2>a DEF Iterated
    <2>5. \A k \in 0 .. most : k # 0 => w[k] = After(w[k - 1])
      <3> TAKE k \in 0 .. most
      <3> HAVE k # 0
      <3>1. k - 1 \in 0 .. most
        OBVIOUS
      <3> QED
        BY <2>3, <2>4, <3>1
    <2>6. w = [k \in 0 .. most |-> w[k]]
      BY <2>4
    <2>7. w = [k \in 0 .. most |-> IF k = 0 THEN a ELSE After(w[k - 1])]
      BY <2>4, <2>5, <2>6
    <2>8. Says(w)
      BY <2>7 DEF a, After
    <2> QED
      BY <2>8
  <1>3. Says(walk)
    BY <1>2
  <1> HIDE DEF walk
  <1>4. walk[0] = a
    BY <1>3
  <1>5. ASSUME NEW k \in Nat, k + 1 <= most PROVE walk[k + 1] = After(walk[k])
    <2>1. k + 1 \in 0 .. most /\ k + 1 # 0 /\ (k + 1) - 1 = k
      BY <1>5
    <2> QED
      BY <1>3, <2>1
  <1> HIDE DEF Says
  <1> DEFINE InLevel(k) == \A m : m \in walk[k].level <=> Path(edges, n, m, k)
             InFound(k) == \A m : m \in walk[k].found <=> \E j \in 1 .. k : Path(edges, n, m, j)
             P == {k \in Nat : k <= most => InLevel(k) /\ InFound(k)}
  <1>6. 0 \in P
    <2>1. walk[0].found = {} /\ walk[0].level = {n}
      BY <1>4
    <2>2. InLevel(0)
      BY <2>1, NoEdge
    <2>3. InFound(0)
      BY <2>1
    <2> HIDE DEF InLevel, InFound
    <2> QED
      BY <2>2, <2>3
  <1>7. ASSUME NEW k \in P PROVE k + 1 \in P
    <2>0. k \in Nat
      OBVIOUS
    <2> SUFFICES ASSUME k + 1 <= most PROVE InLevel(k + 1) /\ InFound(k + 1)
      BY <2>0
    <2>1. InLevel(k) /\ InFound(k)
      BY <2>0
    <2> DEFINE new == {e.target : e \in {f \in edges : f.source \in walk[k].level}}
    <2>2. walk[k + 1].found = walk[k].found \cup new /\ walk[k + 1].level = new
      <3>1. walk[k + 1] = After(walk[k])
        <4> HIDE DEF After
        <4> QED
          BY <1>5, <2>0
      <3> QED
        BY <3>1
    <2>3. \A m : m \in new <=> Path(edges, n, m, k + 1)
      <3> SUFFICES ASSUME NEW m PROVE m \in new <=> Path(edges, n, m, k + 1)
        OBVIOUS
      <3>1. Path(edges, n, m, k + 1) <=> \E e \in edges : Path(edges, n, e.source, k) /\ e.target = m
        BY <2>0, OneMoreEdge
      <3>2. m \in new <=> \E e \in edges : e.source \in walk[k].level /\ e.target = m
        OBVIOUS
      <3>3. \A e \in edges : e.source \in walk[k].level <=> Path(edges, n, e.source, k)
        BY <2>1
      <3> HIDE DEF new
      <3> QED
        BY <3>1, <3>2, <3>3
    <2> HIDE DEF new
    <2>4. InLevel(k + 1)
      BY <2>2, <2>3
    <2>5. \A j : j \in 1 .. k + 1 <=> (j \in 1 .. k \/ j = k + 1)
      BY <2>0
    <2>6. InFound(k + 1)
      BY <2>1, <2>2, <2>3, <2>5
    <2> QED
      BY <2>4, <2>6
  <1>8. P = Nat
    <2>1. P \in SUBSET Nat
      OBVIOUS
    <2> HIDE DEF P
    <2> QED
      BY <1>6, <1>7, <2>1, EveryNumber
  <1>9. InFound(most)
    BY <1>8
  <1> QED
    BY <1>1, <1>9

\* Impact analysis stops although it has no limit, and finds all that a path leads to: a level that is not empty has
\* something new in it, and there are no more targets than edges.
LEMMA ImpactIsRight ==
    ASSUME NEW edges, IsFiniteSet(edges), NEW n
    PROVE  \A m : m \in Impact(edges, n) <=> \E k \in Nat \ {0} : Path(edges, n, m, k)
  <1> DEFINE steps == Cardinality(edges) + 1
             R == {e.target : e \in edges}
             D == [found : SUBSET R, level : SUBSET ({n} \cup R)]
             a == [found |-> {}, level |-> {n}]
             News(s) == {e.target : e \in {f \in edges : f.source \in s.level}} \ s.found
             After(s) == [found |-> s.found \cup News(s), level |-> News(s)]
             Says(w) == w = [k \in 0 .. steps |->
                                IF k = 0 THEN [found |-> {}, level |-> {n}]
                                ELSE LET before == w[k - 1]
                                         new == {e.target : e \in {f \in edges : f.source \in before.level}} \ before.found
                                     IN  [found |-> before.found \cup new, level |-> new]]
             walk == CHOOSE w : Says(w)
  <1>0. Cardinality(edges) \in Nat /\ steps \in Nat /\ steps # 0
    BY FS_CardinalityType
  <1>1. Impact(edges, n) = walk[steps].found
    BY DEF Impact
  <1>2. \E w : Says(w)
    <2> DEFINE G == [s \in D |-> After(s)]
    <2>1. a \in D
      OBVIOUS
    <2>2. \A s \in D : After(s) \in D
      <3> TAKE s \in D
      <3>1. News(s) \subseteq R
        OBVIOUS
      <3>2. s.found \subseteq R
        OBVIOUS
      <3> HIDE DEF News, R
      <3> QED
        BY <3>1, <3>2
    <2>3. G \in [D -> D] /\ \A s \in D : G[s] = After(s)
      <3> HIDE DEF After, D
      <3> QED
        BY <2>2
    <2> HIDE DEF G, D, a, After, steps
    <2>a. PICK w : w \in Iterated(D, a, G, steps)
      <3>1. Iterated(D, a, G, steps) # {}
        BY <1>0, <2>1, <2>3, Iterates
      <3> QED
        BY <3>1
    <2>4. w \in [0 .. steps -> D] /\ w[0] = a /\ \A k \in 0 .. steps : k # 0 => w[k] = G[w[k - 1]]
      BY <2>a DEF Iterated
    <2>5. \A k \in 0 .. steps : k # 0 => w[k] = After(w[k - 1])
      <3> TAKE k \in 0 .. steps
      <3> HAVE k # 0
      <3>1. k - 1 \in 0 .. steps
        BY <1>0
      <3> QED
        BY <2>3, <2>4, <3>1
    <2>6. w = [k \in 0 .. steps |-> w[k]]
      BY <2>4
    <2>7. w = [k \in 0 .. steps |-> IF k = 0 THEN a ELSE After(w[k - 1])]
      BY <2>4, <2>5, <2>6
    <2>8. Says(w)
      BY <2>7 DEF a, After
    <2> QED
      BY <2>8
  <1>3. Says(walk)
    BY <1>2
  <1> HIDE DEF walk
  <1>4. walk[0].found = {} /\ walk[0].level = {n}
    <2> HIDE DEF steps
    <2>1. 0 \in 0 .. steps
      BY <1>0
    <2> QED
      BY <1>3, <2>1
  <1>5. ASSUME NEW k \in Nat, k + 1 <= steps PROVE walk[k + 1] = After(walk[k])
    <2>1. walk = [i \in 0 .. steps |-> IF i = 0 THEN a ELSE After(walk[i - 1])]
      BY <1>3
    <2> HIDE DEF steps, a, After
    <2>2. k + 1 \in 0 .. steps /\ k + 1 # 0 /\ (k + 1) - 1 = k
      BY <1>0, <1>5
    <2> QED
      BY <2>1, <2>2
  <1> HIDE DEF Says
  <1>6. IsFiniteSet(R) /\ Cardinality(R) <= Cardinality(edges) /\ Cardinality(R) \in Nat
    <2> DEFINE g == [e \in edges |-> e.target]
    <2>1. g \in Surjection(edges, R)
      BY DEF Surjection
    <2> HIDE DEF g, R
    <2>2. IsFiniteSet(R) /\ Cardinality(R) <= Cardinality(edges)
      BY <2>1, FS_Surjection
    <2> QED
      BY <2>2, FS_CardinalityType
  \* what is so at each level: what was found can be reached, only the last level's edges are still to be
  \* followed, and as many have been found as levels were walked
  <1> DEFINE Led(k) == /\ \A m \in walk[k].found : \E j \in Nat \ {0} : Path(edges, n, m, j)
                       /\ \A m \in walk[k].level : Path(edges, n, m, k)
             Followed(k) == \A e \in edges : e.source \in ({n} \cup walk[k].found) \ walk[k].level => e.target \in walk[k].found
             Grown(k) == walk[k].found \subseteq R /\ (walk[k].level = {} \/ Cardinality(walk[k].found) >= k)
             P == {k \in Nat : k <= steps => Led(k) /\ Followed(k) /\ Grown(k)}
  <1>7. 0 \in P
    <2>1. Led(0)
      BY <1>4, NoEdge
    <2>2. Followed(0)
      BY <1>4
    <2>3. Grown(0)
      BY <1>4, FS_EmptySet
    <2> HIDE DEF Led, Followed, Grown
    <2> QED
      BY <2>1, <2>2, <2>3
  <1>8. ASSUME NEW k \in P PROVE k + 1 \in P
    <2>0. k \in Nat
      OBVIOUS
    <2> SUFFICES ASSUME k + 1 <= steps PROVE Led(k + 1) /\ Followed(k + 1) /\ Grown(k + 1)
      BY <2>0
    <2>1. Led(k) /\ Followed(k) /\ Grown(k)
      BY <1>0, <2>0
    <2>2. PICK found, level, new : /\ found = walk[k].found /\ level = walk[k].level
                                   /\ new = {e.target : e \in {f \in edges : f.source \in level}} \ found
      OBVIOUS
    <2>3. walk[k + 1].found = found \cup new /\ walk[k + 1].level = new
      <3>1. walk[k + 1] = After(walk[k])
        <4> HIDE DEF After, steps
        <4> QED
          BY <1>5, <2>0
      <3>2. News(walk[k]) = new
        BY <2>2
      <3> HIDE DEF News
      <3> QED
        BY <2>2, <3>1, <3>2
    <2>4. \A m : m \in new <=> m \notin found /\ \E e \in edges : e.source \in level /\ e.target = m
      BY <2>2
    <2>5. Led(k + 1)
      <3>1. \A m \in new : Path(edges, n, m, k + 1)
        <4> TAKE m \in new
        <4>1. PICK e \in edges : e.source \in level /\ e.target = m
          BY <2>4
        <4>2. Path(edges, n, e.source, k)
          BY <2>1, <2>2, <4>1
        <4> QED
          BY <2>0, <4>1, <4>2, OneMoreEdge
      <3>2. k + 1 \in Nat \ {0}
        BY <2>0
      <3> QED
        BY <2>1, <2>2, <2>3, <3>1, <3>2
    <2>6. Followed(k + 1)
      <3> SUFFICES ASSUME NEW e \in edges, e.source \in ({n} \cup (found \cup new)) \ new PROVE e.target \in found \cup new
        BY <2>3
      <3>1. CASE e.source \in level
        BY <2>4, <3>1
      <3>2. CASE e.source \notin level
        BY <2>1, <2>2, <3>2
      <3> QED
        BY <3>1, <3>2
    <2>7. Grown(k + 1)
      <3>1. found \cup new \subseteq R
        BY <2>1, <2>2, <2>4
      <3>2. ASSUME new # {} PROVE Cardinality(found \cup new) >= k + 1
        <4>1. PICK x \in new : TRUE
          BY <3>2
        <4>2. x \notin found /\ level # {}
          BY <2>4
        <4>3. IsFiniteSet(found) /\ Cardinality(found) \in Nat /\ Cardinality(found) >= k
          <5>1. found \in SUBSET R
            BY <3>1
          <5>2. IsFiniteSet(found)
            <6> HIDE DEF R
            <6> QED
              BY <1>6, <5>1, FS_Subset
          <5>3. Cardinality(found) \in Nat
            BY <5>2, FS_CardinalityType
          <5> QED
            BY <2>1, <2>2, <4>2, <5>2, <5>3
        <4>4. Cardinality(found \cup {x}) = Cardinality(found) + 1
          BY <4>2, <4>3, FS_AddElement
        <4>5. IsFiniteSet(found \cup new)
          <5> HIDE DEF R
          <5> QED
            BY <1>6, <3>1, FS_Subset
        <4>6. Cardinality(found \cup new) \in Nat
          BY <4>5, FS_CardinalityType
        <4>7. found \cup {x} \in SUBSET (found \cup new)
          OBVIOUS
        <4>8. Cardinality(found \cup {x}) <= Cardinality(found \cup new)
          BY <4>5, <4>7, FS_Subset
        <4> QED
          BY <2>0, <4>3, <4>4, <4>6, <4>8
      <3> HIDE DEF R
      <3> QED
        BY <2>3, <3>1, <3>2
    <2> HIDE DEF Led, Followed, Grown
    <2> QED
      BY <2>5, <2>6, <2>7
  <1>9. P = Nat
    <2>1. P \in SUBSET Nat
      OBVIOUS
    <2> HIDE DEF P
    <2> QED
      BY <1>7, <1>8, <2>1, EveryNumber
  <1>10. Led(steps) /\ Followed(steps) /\ Grown(steps)
    <2> HIDE DEF Led, Followed, Grown, steps
    <2> QED
      BY <1>0, <1>9
  <1>11. PICK found, level : found = walk[steps].found /\ level = walk[steps].level
    OBVIOUS
  <1>12. level = {}
    <2>1. found \in SUBSET R
      BY <1>10, <1>11
    <2>2. Cardinality(found) <= Cardinality(R) /\ IsFiniteSet(found)
      <3> HIDE DEF R
      <3> QED
        BY <1>6, <2>1, FS_Subset
    <2>3. Cardinality(found) \in Nat
      BY <2>2, FS_CardinalityType
    <2>4. ~(Cardinality(found) >= steps)
      BY <1>0, <1>6, <2>2, <2>3
    <2> QED
      BY <1>10, <1>11, <2>4
  <1>13. \A e \in edges : e.source \in {n} \cup found => e.target \in found
    BY <1>10, <1>11, <1>12
  <1>14. \A m \in found : \E k \in Nat \ {0} : Path(edges, n, m, k)
    BY <1>10, <1>11
  <1> DEFINE Q == {k \in Nat : \A m : Path(edges, n, m, k + 1) => m \in found}
  <1>15. 0 \in Q
    <2> SUFFICES ASSUME NEW m, Path(edges, n, m, 0 + 1) PROVE m \in found
      OBVIOUS
    <2>1. PICK e \in edges : Path(edges, n, e.source, 0) /\ e.target = m
      <3>1. 0 \in Nat
        OBVIOUS
      <3> QED
        BY <3>1, OneMoreEdge
    <2>2. e.source = n
      BY <2>1, NoEdge
    <2> QED
      BY <1>13, <2>1, <2>2
  <1>16. ASSUME NEW k \in Q PROVE k + 1 \in Q
    <2>0. k \in Nat /\ k + 1 \in Nat
      OBVIOUS
    <2> SUFFICES ASSUME NEW m, Path(edges, n, m, (k + 1) + 1) PROVE m \in found
      BY <2>0
    <2>1. PICK e \in edges : Path(edges, n, e.source, k + 1) /\ e.target = m
      BY <2>0, OneMoreEdge
    <2>2. e.source \in found
      BY <2>1
    <2> QED
      BY <1>13, <2>1, <2>2
  <1>17. Q = Nat
    <2>1. Q \in SUBSET Nat
      OBVIOUS
    <2> HIDE DEF Q
    <2> QED
      BY <1>15, <1>16, <2>1, EveryNumber
  <1>18. ASSUME NEW m, NEW k \in Nat \ {0}, Path(edges, n, m, k) PROVE m \in found
    <2>1. k - 1 \in Nat /\ (k - 1) + 1 = k
      OBVIOUS
    <2>2. k - 1 \in Q
      BY <1>17, <2>1
    <2> QED
      BY <1>18, <2>1, <2>2
  <1> QED
    BY <1>1, <1>11, <1>14, <1>18

\* The walks over any lineage graph, cyclic or not: what impact analysis finds is what a path leads to
\* (get_node_impact_analysis), and what table lineage shows is what a path of at most that many edges leads to, however
\* often it comes by (get_table_lineage).
THEOREM WalksFindPaths ==
    ASSUME NEW edges, IsFiniteSet(edges), NEW n, NEW most \in Nat
    PROVE  /\ \A m : m \in Impact(edges, n) <=> \E k \in Nat \ {0} : Path(edges, n, m, k)
           /\ \A m : m \in Near(edges, n, most) <=> \E k \in 1 .. most : Path(edges, n, m, k)
  BY ImpactIsRight, NearIsRight
=============================================================================
