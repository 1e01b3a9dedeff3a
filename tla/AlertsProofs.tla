----------------------------- MODULE AlertsProofs -----------------------------
(***************************************************************************)
(* Proofs about SQL alerts: the state keeps its type, and the scheduler    *)
(* never has more checks of one alert under way than ScheduledOverlap      *)
(* says, for any number of alerts, threads, definitions and values.        *)
(*                                                                         *)
(* The argument: _running_alert_checks (GuardInv) and the first check of   *)
(* an alert (CreationInv) are each worth one check.  The scheduler starts  *)
(* a check only while the alert is not in the guard; an alert leaves the   *)
(* guard when one of its checks comes back; and the one check that was     *)
(* never put in it is started once and comes back at most once.            *)
(***************************************************************************)
EXTENDS Alerts, TLAPS

\* The event loop's checks are by hand; the pool runs the others.
PoolInv == \A t \in Threads : by[t] # "manual"

\* An alert has at most one first check in its life.
CreationInv ==
    \A a \in Alerts :
        /\ def[a] = Unborn \/ a \in created => Active(a, "create") = {}
        /\ def[a] = Unborn => a \notin created
        /\ \A v, w \in Active(a, "create") : v = w

\* How many checks the scheduler can have, by the guard and by whether the first
\* check has taken the alert out of it.
GuardInv ==
    \A a \in Alerts :
        /\ a \notin running /\ a \notin created => Scheduled(a) = {}
        /\ a \notin running \/ a \notin created => \A v, w \in Scheduled(a) : v = w
        /\ \A u, v, w \in Scheduled(a) : u = v \/ v = w \/ u = w

Inv == TypeOK /\ PoolInv /\ CreationInv /\ GuardInv

-----------------------------------------------------------------------------
(* Types. *)

LEMMA VerdictType == \A d, x : Verdict(d, x) \in States
BY DEF Verdict, States

LEMMA FreeThread == FreeThreads # {} => (CHOOSE t \in FreeThreads : TRUE) \in FreeThreads
OBVIOUS

LEMMA InitType == Init => TypeOK
<1> SUFFICES ASSUME Init PROVE TypeOK
  OBVIOUS
<1>1. (CHOOSE a \in Alerts : TRUE) \in Alerts
  BY AlertsAssumption
<1>2. QED
  BY <1>1, AlertsAssumption DEF Init, TypeOK, States, NoAlert, Saved

\* A check is handed out by create_alert, the scheduler and the endpoint alike.
LEMMA HandType ==
    ASSUME TypeOK, NEW w \in Workers, NEW a \in Alerts,
           NEW who \in {"scheduler", "create", "manual"}, Hand(w, a, who)
    PROVE  /\ stage' \in [Workers -> {"idle", "read", "query", "write", "return"}]
           /\ of' \in [Workers -> Alerts]
           /\ by' \in [Workers -> {"scheduler", "create", "manual"}]
           /\ mine' \in [Workers -> Saved] /\ found' \in [Workers -> States]
BY DEF TypeOK, Hand

LEMMA SubmitType ==
    ASSUME TypeOK, NEW a \in Alerts, NEW who \in {"scheduler", "create"}, Submit(a, who)
    PROVE  /\ stage' \in [Workers -> {"idle", "read", "query", "write", "return"}]
           /\ of' \in [Workers -> Alerts]
           /\ by' \in [Workers -> {"scheduler", "create", "manual"}]
           /\ mine' \in [Workers -> Saved] /\ found' \in [Workers -> States]
<1>1. PICK t \in Threads : Hand(t, a, who)
  BY FreeThread DEF Submit, FreeThreads
<1>2. QED
  BY <1>1, HandType DEF Workers

LEMMA InsertType ==
    ASSUME TypeOK, NEW a \in Alerts, NEW d \in Saved \cup {Gone}, NEW e \in BOOLEAN,
           Insert(a, d, e)
    PROVE  /\ def' \in [Alerts -> Saved \cup NoAlert] /\ on' \in [Alerts -> BOOLEAN]
           /\ state' \in [Alerts -> States]
           /\ seen' \in [Alerts -> {"never", "fresh", "due"}]
BY DEF TypeOK, Insert, NoAlert, States

LEMMA NextType == TypeOK /\ [Next]_vars => TypeOK'
<1> SUFFICES ASSUME TypeOK, [Next]_vars PROVE TypeOK'
  OBVIOUS
<1> USE DEF vars, rows, checks
<1>1. ASSUME NEW a \in Alerts, CreateAlert(a) PROVE TypeOK'
  <2>1. PICK d \in Saved, enabled \in BOOLEAN : Insert(a, d, enabled)
    BY <1>1 DEF CreateAlert
  <2>2. Submit(a, "create")
    BY <1>1 DEF CreateAlert
  <2>3. QED
    BY <1>1, <2>1, <2>2, InsertType, SubmitType DEF CreateAlert, TypeOK
<1>2. ASSUME NEW a \in Alerts, UpdateAlert(a) PROVE TypeOK'
  BY <1>2 DEF UpdateAlert, TypeOK
<1>3. ASSUME NEW a \in Alerts, ToggleEnableAlert(a) PROVE TypeOK'
  BY <1>3 DEF ToggleEnableAlert, TypeOK
<1>4. ASSUME NEW a \in Alerts, DeleteAlert(a) PROVE TypeOK'
  <2>1. Insert(a, Gone, FALSE) /\ kept' = [kept EXCEPT ![a] = 0]
    BY <1>4 DEF DeleteAlert
  <2>2. 0 \in 0..Keep
    BY AlertsAssumption
  <2>3. /\ def' \in [Alerts -> Saved \cup NoAlert] /\ on' \in [Alerts -> BOOLEAN]
        /\ state' \in [Alerts -> States]
        /\ seen' \in [Alerts -> {"never", "fresh", "due"}]
    BY <2>1, InsertType
  <2>4. kept' \in [Alerts -> 0..Keep]
    BY <2>1, <2>2 DEF TypeOK
  <2>5. QED
    BY <1>4, <2>3, <2>4 DEF DeleteAlert, TypeOK
<1>5. ASSUME NEW a \in Alerts, RunAlertCheck(a) PROVE TypeOK'
  BY <1>5, HandType DEF RunAlertCheck, TypeOK, Workers
<1>6. ASSUME NEW a \in Alerts, Tick(a) PROVE TypeOK'
  BY <1>6 DEF Tick, TypeOK
<1>7. ASSUME NEW a \in Alerts, SchedulerTurn(a) PROVE TypeOK'
  <2>1. Submit(a, "scheduler")
    BY <1>7 DEF SchedulerTurn
  <2>2. QED
    BY <1>7, <2>1, SubmitType DEF SchedulerTurn, TypeOK
<1>8. ASSUME NEW w \in Workers, ReadAlert(w) PROVE TypeOK'
  BY <1>8 DEF ReadAlert, GoTo, TypeOK, Saved
<1>9. ASSUME NEW w \in Workers, RunQuery(w) PROVE TypeOK'
  <2>1. Verdict(mine[w], data) \in States
    BY VerdictType
  <2>2. QED
    BY <1>9, <2>1 DEF RunQuery, GoTo, TypeOK, Saved
<1>10. ASSUME NEW w \in Workers, WriteBack(w) PROVE TypeOK'
  <2>1. \A k \in 0..Keep : (IF k < Keep THEN k + 1 ELSE Keep) \in 0..Keep
    BY AlertsAssumption
  <2>2. kept' \in [Alerts -> 0..Keep]
    BY <1>10, <2>1 DEF WriteBack, TypeOK
  <2>3. state' \in [Alerts -> States] /\ seen' \in [Alerts -> {"never", "fresh", "due"}]
    BY <1>10 DEF WriteBack, TypeOK
  <2>4. /\ found' \in [Workers -> States]
        /\ stage' \in [Workers -> {"idle", "read", "query", "write", "return"}]
    BY <1>10 DEF WriteBack, Over, GoTo, TypeOK, States
  <2>5. QED
    BY <1>10, <2>2, <2>3, <2>4 DEF WriteBack, TypeOK
<1>11. ASSUME NEW w \in Workers, WriteFails(w) PROVE TypeOK'
  <2>1. left' \in [Events -> Nat]
    BY <1>11 DEF WriteFails, Spend, Events, TypeOK
  <2>2. QED
    BY <1>11, <2>1 DEF WriteFails, Over, GoTo, TypeOK, States
<1>12. ASSUME NEW t \in Threads, Discard(t) PROVE TypeOK'
  <2>1. of[t] \in Alerts /\ t \in Workers
    BY DEF TypeOK, Workers
  <2>2. QED
    BY <1>12, <2>1 DEF Discard, Rest, GoTo, TypeOK
<1>13. CASE Respond
  BY <1>13 DEF Respond, Rest, GoTo, TypeOK, Workers
<1>14. CASE DataChanges
  BY <1>14 DEF DataChanges, TypeOK
<1>15. CASE Crash
  <2>1. left' \in [Events -> Nat]
    BY <1>15 DEF Crash, Spend, Events, TypeOK
  <2>2. def' \in [Alerts -> Saved \cup NoAlert] /\ on' \in [Alerts -> BOOLEAN]
    <3>1. CASE \A a \in Alerts : def[a] \in NoAlert
      <4>1. /\ def' = [a \in Alerts |-> IF Defaults[a] # Unborn THEN Defaults[a] ELSE def[a]]
            /\ on' = [a \in Alerts |-> Defaults[a] # Unborn]
        BY <1>15, <3>1 DEF Crash
      <4>2. \A a \in Alerts : Defaults[a] \in Saved \cup NoAlert
        BY AlertsAssumption DEF NoAlert
      <4>3. QED
        BY <4>1, <4>2 DEF TypeOK
    <3>2. CASE ~ \A a \in Alerts : def[a] \in NoAlert
      BY <1>15, <3>2 DEF Crash, TypeOK
    <3>3. QED
      BY <3>1, <3>2
  <2>3. QED
    BY <1>15, <2>1, <2>2 DEF Crash, TypeOK, Saved, States
<1>16. CASE UNCHANGED vars
  BY <1>16 DEF TypeOK
<1>17. QED
  BY <1>1, <1>2, <1>3, <1>4, <1>5, <1>6, <1>7, <1>8, <1>9, <1>10, <1>11, <1>12, <1>13,
     <1>14, <1>15, <1>16 DEF Next, CheckStep

\* Every reachable state has the type that TypeOK gives it.
THEOREM TypeCorrect == Spec => []TypeOK
BY InitType, NextType, PTL DEF Spec

-----------------------------------------------------------------------------
(* How many checks there are. *)

LEMMA InitInv == Init => PoolInv /\ CreationInv /\ GuardInv
<1> SUFFICES ASSUME Init PROVE PoolInv /\ CreationInv /\ GuardInv
  OBVIOUS
<1>1. \A a \in Alerts : \A who : Active(a, who) = {}
  BY DEF Init, Active
<1>2. PoolInv
  BY DEF Init, PoolInv, Workers
<1>3. created = {}
  BY DEF Init
<1>4. QED
  BY <1>1, <1>2, <1>3 DEF CreationInv, GuardInv, Scheduled

\* A step that hands out no check and takes none back disturbs nothing.
LEMMA QuietStep ==
    ASSUME PoolInv, CreationInv, GuardInv, UNCHANGED <<of, by, running, created>>,
           \A w \in Workers : stage'[w] = "idle" <=> stage[w] = "idle",
           \A a \in Alerts : def'[a] = Unborn => def[a] = Unborn
    PROVE  PoolInv' /\ CreationInv' /\ GuardInv'
<1>1. \A a, who : Active(a, who)' = Active(a, who)
  BY DEF Active
<1>2. PoolInv'
  BY DEF PoolInv
<1>3. CreationInv'
  BY <1>1 DEF CreationInv
<1>4. GuardInv'
  BY <1>1 DEF GuardInv, Scheduled
<1>5. QED
  BY <1>2, <1>3, <1>4

\* What a check handed out adds to the checks under way.
LEMMA HandActive ==
    ASSUME TypeOK, NEW w \in Workers, NEW a \in Alerts,
           NEW who \in {"scheduler", "create", "manual"}, Hand(w, a, who)
    PROVE  /\ Active(a, who)' = Active(a, who) \cup {w}
           /\ \A b \in Alerts : \A y : b # a \/ y # who => Active(b, y)' = Active(b, y)
BY DEF Active, Hand, TypeOK

\* A check that comes back: those that remain are the others.
LEMMA RestActive ==
    ASSUME TypeOK, NEW w \in Workers, Rest(w), stage[w] # "idle"
    PROVE  \A a \in Alerts : \A who : Active(a, who)' = Active(a, who) \ {w}
BY DEF Active, Rest, GoTo, TypeOK

LEMMA NextInv == Inv /\ [Next]_vars => PoolInv' /\ CreationInv' /\ GuardInv'
<1> SUFFICES ASSUME Inv, [Next]_vars PROVE PoolInv' /\ CreationInv' /\ GuardInv'
  OBVIOUS
<1> USE DEF vars, rows, checks
<1>0. TypeOK /\ PoolInv /\ CreationInv /\ GuardInv
  BY DEF Inv
<1>1. ASSUME NEW a \in Alerts, CreateAlert(a)
      PROVE  PoolInv' /\ CreationInv' /\ GuardInv'
  <2>1. PICK t \in Threads : Hand(t, a, "create")
    BY <1>1, FreeThread DEF CreateAlert, Submit, FreeThreads
  <2>2. /\ Active(a, "create")' = Active(a, "create") \cup {t}
        /\ \A b \in Alerts : \A y : b # a \/ y # "create" => Active(b, y)' = Active(b, y)
    BY <1>0, <2>1, HandActive DEF Workers
  <2>3. \A b \in Alerts : /\ b # a => def'[b] = def[b]
                          /\ def'[a] # Unborn
    BY <1>0, <1>1, AlertsAssumption DEF CreateAlert, Insert, TypeOK, NoAlert
  <2>4. def[a] = Unborn /\ a \notin created /\ Active(a, "create") = {}
    BY <1>0, <1>1 DEF CreateAlert, CreationInv
  <2>5. UNCHANGED <<running, created>>
    BY <1>1 DEF CreateAlert
  <2>6. PoolInv'
    BY <1>0, <2>1 DEF PoolInv, Hand, TypeOK, Workers
  <2>7. CreationInv'
    <3>1. CreationInv!(a)'
      BY <2>2, <2>3, <2>4, <2>5
    <3>2. ASSUME NEW b \in Alerts, b # a PROVE CreationInv!(b)'
      BY <1>0, <2>2, <2>3, <2>5, <3>2 DEF CreationInv
    <3>3. QED
      BY <3>1, <3>2 DEF CreationInv
  <2>8. GuardInv'
    BY <1>0, <2>2, <2>5 DEF GuardInv, Scheduled
  <2>9. QED
    BY <2>6, <2>7, <2>8
<1>2. ASSUME NEW a \in Alerts, UpdateAlert(a)
      PROVE  PoolInv' /\ CreationInv' /\ GuardInv'
  <2>1. \A b \in Alerts : def'[b] = Unborn => def[b] = Unborn
    BY <1>0, <1>2, AlertsAssumption DEF UpdateAlert, TypeOK, NoAlert
  <2>2. QED
    BY <1>0, <1>2, <2>1, QuietStep DEF UpdateAlert
<1>3. ASSUME NEW a \in Alerts, ToggleEnableAlert(a)
      PROVE  PoolInv' /\ CreationInv' /\ GuardInv'
  BY <1>0, <1>3, QuietStep DEF ToggleEnableAlert
<1>4. ASSUME NEW a \in Alerts, DeleteAlert(a)
      PROVE  PoolInv' /\ CreationInv' /\ GuardInv'
  <2>1. \A b \in Alerts : def'[b] = Unborn => def[b] = Unborn
    BY <1>0, <1>4, AlertsAssumption DEF DeleteAlert, Insert, TypeOK
  <2>2. QED
    BY <1>0, <1>4, <2>1, QuietStep DEF DeleteAlert
<1>5. ASSUME NEW a \in Alerts, RunAlertCheck(a)
      PROVE  PoolInv' /\ CreationInv' /\ GuardInv'
  <2>1. Hand(Loop, a, "manual")
    BY <1>5 DEF RunAlertCheck
  <2>2. \A b \in Alerts : \A y : y # "manual" => Active(b, y)' = Active(b, y)
    BY <1>0, <2>1, HandActive DEF Workers
  <2>3. PoolInv'
    BY <1>0, <2>1, AlertsAssumption DEF PoolInv, Hand, TypeOK, Workers
  <2>4. CreationInv' /\ GuardInv'
    BY <1>0, <1>5, <2>2 DEF RunAlertCheck, CreationInv, GuardInv, Scheduled
  <2>5. QED
    BY <2>3, <2>4
<1>6. ASSUME NEW a \in Alerts, Tick(a) PROVE PoolInv' /\ CreationInv' /\ GuardInv'
  BY <1>0, <1>6, QuietStep DEF Tick
<1>7. ASSUME NEW a \in Alerts, SchedulerTurn(a)
      PROVE  PoolInv' /\ CreationInv' /\ GuardInv'
  <2>1. PICK t \in Threads : Hand(t, a, "scheduler")
    BY <1>7, FreeThread DEF SchedulerTurn, Submit, FreeThreads
  <2>2. /\ Scheduled(a)' = Scheduled(a) \cup {t}
        /\ \A b \in Alerts : \A y : b # a \/ y # "scheduler" => Active(b, y)' = Active(b, y)
    BY <1>0, <2>1, HandActive DEF Workers, Scheduled
  <2>3. a \notin running /\ running' = running \cup {a} /\ UNCHANGED <<def, created>>
    BY <1>7 DEF SchedulerTurn
  <2>4. PoolInv'
    BY <1>0, <2>1 DEF PoolInv, Hand, TypeOK, Workers
  <2>5. CreationInv'
    BY <1>0, <2>2, <2>3 DEF CreationInv
  <2>6. GuardInv'
    <3>1. GuardInv!(a)'
      BY <1>0, <2>2, <2>3 DEF GuardInv
    <3>2. ASSUME NEW b \in Alerts, b # a PROVE GuardInv!(b)'
      BY <1>0, <2>2, <2>3, <3>2 DEF GuardInv, Scheduled
    <3>3. QED
      BY <3>1, <3>2 DEF GuardInv
  <2>7. QED
    BY <2>4, <2>5, <2>6
<1>8. ASSUME NEW w \in Workers, CheckStep(w)
      PROVE  PoolInv' /\ CreationInv' /\ GuardInv'
  <2>1. /\ UNCHANGED <<of, by, running, created, def>>
        /\ \A v \in Workers : stage'[v] = "idle" <=> stage[v] = "idle"
    BY <1>0, <1>8 DEF CheckStep, ReadAlert, RunQuery, WriteBack, WriteFails, Over, GoTo, At,
                      TypeOK
  <2>2. QED
    BY <1>0, <2>1, QuietStep
<1>9. ASSUME NEW t \in Threads, Discard(t)
      PROVE  PoolInv' /\ CreationInv' /\ GuardInv'
  <2>1. \A a \in Alerts : \A who : Active(a, who)' = Active(a, who) \ {t}
    BY <1>0, <1>9, RestActive DEF Discard, At, Workers
  <2>2. t \in Active(of[t], by[t]) /\ by[t] \in {"scheduler", "create"}
    BY <1>0, <1>9 DEF Discard, At, Active, TypeOK, PoolInv, Workers
  <2>3. /\ running' = running \ {of[t]} /\ def' = def
        /\ created' = IF by[t] = "create" THEN created \cup {of[t]} ELSE created
    BY <1>9 DEF Discard
  <2>4. PoolInv'
    BY <1>0, <1>9 DEF Discard, Rest, PoolInv, TypeOK, Workers
  <2>5. CreationInv'
    BY <1>0, <2>1, <2>2, <2>3 DEF CreationInv
  <2>6. ASSUME NEW a \in Alerts PROVE GuardInv!(a)'
    <3>1. Scheduled(a)' = Scheduled(a) \ {t}
      BY <2>1 DEF Scheduled
    <3>2. CASE a # of[t]
      BY <1>0, <2>3, <3>1, <3>2 DEF GuardInv
    <3>3. CASE a = of[t] /\ by[t] = "scheduler"
      BY <1>0, <2>2, <2>3, <3>1, <3>3 DEF GuardInv, Scheduled
    <3>4. CASE a = of[t] /\ by[t] = "create"
      <4>1. a \notin created /\ a \in created'
        BY <1>0, <2>2, <2>3, <3>4 DEF CreationInv
      <4>2. QED
        BY <1>0, <3>1, <4>1 DEF GuardInv
    <3>5. QED
      BY <2>2, <3>2, <3>3, <3>4
  <2>7. QED
    BY <2>4, <2>5, <2>6 DEF GuardInv
<1>10. CASE Respond
  <2>1. \A a \in Alerts : \A who : Active(a, who)' = Active(a, who) \ {Loop}
    BY <1>0, <1>10, RestActive DEF Respond, At, Workers
  <2>2. PoolInv'
    BY <1>0, <1>10, AlertsAssumption DEF Respond, Rest, PoolInv, TypeOK, Workers
  <2>3. CreationInv' /\ GuardInv'
    BY <1>0, <1>10, <2>1 DEF Respond, CreationInv, GuardInv, Scheduled
  <2>4. QED
    BY <2>2, <2>3
<1>11. CASE DataChanges
  BY <1>0, <1>11, QuietStep DEF DataChanges
<1>12. CASE Crash
  <2>1. \A a \in Alerts : \A who : Active(a, who)' = {}
    BY <1>12 DEF Crash, Active
  <2>2. created' = {} /\ by' = [w \in Workers |-> "scheduler"]
    BY <1>12 DEF Crash
  <2>3. PoolInv'
    BY <2>2 DEF PoolInv, Workers
  <2>4. QED
    BY <2>1, <2>2, <2>3 DEF CreationInv, GuardInv, Scheduled
<1>13. CASE UNCHANGED vars
  BY <1>0, <1>13, QuietStep
<1>14. QED
  BY <1>1, <1>2, <1>3, <1>4, <1>5, <1>6, <1>7, <1>8, <1>9, <1>10, <1>11, <1>12, <1>13
     DEF Next

\* The scheduler has at most one check of an alert under way until the alert's first
\* check, which create_alert starts unguarded, has come back, and at most two ever.
THEOREM ChecksDontPileUp == Spec => []ScheduledOverlap
<1>1. Init => Inv
  BY InitType, InitInv DEF Inv
<1>2. Inv /\ [Next]_vars => Inv'
  BY NextType, NextInv DEF Inv
<1>3. Inv => ScheduledOverlap
  BY DEF Inv, GuardInv, ScheduledOverlap
<1>4. QED
  BY <1>1, <1>2, <1>3, PTL DEF Spec

\* A deleted alert stays deleted, whatever checks of it were under way: only a restart that
\* finds no alert at all inserts again, and only the seeded ones.
THEOREM DeletedAlertsStay == Spec => DeletedStaysDeleted
<1> DEFINE Stays == \A a \in Alerts : def[a] = Gone =>
                       \/ def'[a] = Gone
                       \/ Defaults[a] # Unborn /\ \A b \in Alerts : def[b] \in NoAlert
<1>1. ASSUME TypeOK, [Next]_vars PROVE [Stays]_vars
  <2>0. def \in [Alerts -> Saved \cup NoAlert] /\ Unborn # Gone
    BY <1>1, AlertsAssumption DEF TypeOK
  <2>1. CASE def' = def
    BY <2>1
  \* A row is inserted or changed where no deleted alert was.
  <2>2. ASSUME NEW a \in Alerts, def[a] # Gone, NEW d, def' = [def EXCEPT ![a] = d] PROVE Stays
    BY <2>0, <2>2
  <2>3. ASSUME NEW a \in Alerts, CreateAlert(a) \/ UpdateAlert(a) \/ DeleteAlert(a) PROVE Stays
    <3>1. def[a] # Gone /\ \E d : def' = [def EXCEPT ![a] = d]
      BY <2>0, <2>3 DEF CreateAlert, UpdateAlert, DeleteAlert, Insert, NoAlert
    <3> QED
      BY <2>2, <3>1
  <2>4. CASE Crash
    <3>1. CASE \A a \in Alerts : def[a] \in NoAlert
      <4>1. \A a \in Alerts : def'[a] = IF Defaults[a] # Unborn THEN Defaults[a] ELSE def[a]
        BY <2>4, <3>1 DEF Crash
      <4> QED
        BY <3>1, <4>1
    <3>2. CASE ~ \A a \in Alerts : def[a] \in NoAlert
      BY <2>1, <2>4, <3>2 DEF Crash
    <3> QED
      BY <3>1, <3>2
  <2>5. ASSUME NEW a \in Alerts,
               ToggleEnableAlert(a) \/ RunAlertCheck(a) \/ Tick(a) \/ SchedulerTurn(a)
        PROVE  def' = def
    BY <2>5 DEF ToggleEnableAlert, RunAlertCheck, Tick, SchedulerTurn, rows
  <2>6. ASSUME NEW w \in Workers, CheckStep(w) PROVE def' = def
    BY <2>6 DEF CheckStep, ReadAlert, RunQuery, WriteBack, WriteFails, rows
  <2>7. (\E t \in Threads : Discard(t)) \/ Respond \/ DataChanges \/ UNCHANGED vars => def' = def
    BY DEF Discard, Respond, DataChanges, rows, vars
  <2> QED
    BY <1>1, <2>1, <2>3, <2>4, <2>5, <2>6, <2>7 DEF Next
<1>2. TypeOK /\ [Next]_vars => [Stays]_vars
  BY <1>1
<1> QED
  BY <1>2, TypeCorrect, PTL DEF Spec, DeletedStaysDeleted
=============================================================================
