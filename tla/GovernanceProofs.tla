--------------------------- MODULE GovernanceProofs ---------------------------
(***************************************************************************)
(* Proofs about Governance, for any number of readers, requests and        *)
(* tables: a lookup answers with what the tables held at some moment of    *)
(* the call, the tables keep their type and their foreign keys, and a      *)
(* deleted policy stays deleted.                                           *)
(*                                                                         *)
(* The first proof does not use the locks.  What it uses is that every     *)
(* commit brings a new version, that a call reads the version before the   *)
(* tables, and that it labels what it read with that version: two calls    *)
(* with one version have both begun when the tables of that version were   *)
(* current.                                                                *)
(***************************************************************************)
EXTENDS Governance, TLAPS

Called == {"versioned", "load", "store", "answered"}

FunctionsOK ==
    /\ cver \in [Caches -> Int] /\ cdata = [c \in Caches |-> cdata[c]]
    /\ pc \in [Readers -> {"idle"} \cup Called]
    /\ of \in [Readers -> Caches] /\ ver \in [Readers -> Int]
    /\ got = [r \in Readers |-> got[r]] /\ since = [r \in Readers |-> since[r]]

\* A cache is labelled with an old version, or holds what the tables hold.
CacheFits ==
    \A c \in Caches : /\ cver[c] <= version
                      /\ cver[c] = version => cdata[c] = View(c, db)

\* A call has an old version, or has read what the tables hold; what it may answer
\* with was shown while it ran.
CallFits ==
    \A r \in Readers : pc[r] # "idle" =>
        /\ ver[r] <= version
        /\ View(of[r], db) \in since[r]
        /\ pc[r] = "versioned" /\ cver[of[r]] = ver[r] => cdata[of[r]] \in since[r]
        /\ pc[r] \in {"store", "answered"} => got[r] \in since[r]
        /\ pc[r] = "store" /\ ver[r] = version => got[r] = View(of[r], db)

\* What one call is about to store may be the answer of another of the same version.
CallsAgree ==
    \A r, q \in Readers :
        /\ pc[r] = "versioned" /\ pc[q] = "store"
        /\ of[r] = of[q] /\ ver[r] = ver[q]
        => got[q] \in since[r]

CurrentInv == version \in Nat /\ FunctionsOK /\ CacheFits /\ CallFits /\ CallsAgree

\* What every transaction, with or without effect, does to a lookup.
Written ==
    /\ UNCHANGED <<caches, calls>>
    /\ \/ NoCommit
       \/ BumpVersion /\ since' = SeenWith(db')

LEMMA CommitShows ==
    ASSUME NEW found, NEW d, Commit(found, d)
    PROVE  NoCommit \/ (BumpVersion /\ since' = SeenWith(db'))
  <1>1. CASE found /\ ForeignKeysHold(d)
    BY <1>1 DEF Commit, SeenWith
  <1>2. CASE ~(found /\ ForeignKeysHold(d))
    BY <1>2 DEF Commit
  <1> QED
    BY <1>1, <1>2

LEMMA WriteShows ==
    ASSUME NEW found, NEW d, Write(found, d)
    PROVE  Written
  BY CommitShows DEF Write, Written

LEMMA AskShows ==
    ASSUME NEW s, NEW r, Ask(s, r)
    PROVE  Written
  BY DEF Ask, Written

LEMMA RequestShows ==
    ASSUME NEW s \in Sessions, Request(s)
    PROVE  Written
  <1>1. ASSUME NEW k \in Keys, AskDefine(s, k) PROVE Written
    BY <1>1, AskShows DEF AskDefine
  <1>2. ASSUME NEW k \in Keys, NEW force \in BOOLEAN, AskUndefine(s, k, force) PROVE Written
    BY <1>2, AskShows DEF AskUndefine
  <1>3. ASSUME NEW o \in Objects, NEW k \in Keys, AskSetTag(s, o, k) PROVE Written
    BY <1>3, AskShows DEF AskSetTag
  <1>4. ASSUME NEW o \in Objects, NEW k \in Keys, UnsetTag(s, o, k) PROVE Written
    BY <1>4, WriteShows DEF UnsetTag, Remove
  <1>5. ASSUME NEW p \in Policies, NEW k \in Keys, NEW on \in BOOLEAN, AskCreate(s, p, k, on)
        PROVE  Written
    BY <1>5, AskShows DEF AskCreate
  <1>6. ASSUME NEW o \in Objects, AskDrop(s, o) PROVE Written
    BY <1>6, AskShows DEF AskDrop
  <1>7. ASSUME NEW p \in Policies, AskUpdate(s, p) PROVE Written
    BY <1>7, AskShows DEF AskUpdate
  <1>8. ASSUME NEW p \in Policies, AskDelete(s, p) PROVE Written
    BY <1>8, AskShows DEF AskDelete
  <1>9. ASSUME NEW vs \in SUBSET Values, SetAttributeValues(s, vs) PROVE Written
    BY <1>9, WriteShows DEF SetAttributeValues
  <1>10. ASSUME DeleteAttribute(s) PROVE Written
    BY <1>10, WriteShows DEF DeleteAttribute
  <1> QED
    BY <1>1, <1>2, <1>3, <1>4, <1>5, <1>6, <1>7, <1>8, <1>9, <1>10 DEF Request

LEMMA TransactionShows ==
    ASSUME NEW s \in Sessions, Transaction(s)
    PROVE  Written
  <1>1. CASE CreateDefinition(s)
    BY <1>1, WriteShows DEF CreateDefinition
  <1>2. CASE DeleteDefinition(s)
    BY <1>2, WriteShows DEF DeleteDefinition
  <1>3. CASE SetTag(s)
    BY <1>3, WriteShows DEF SetTag
  <1>4. CASE DropObject(s)
    BY <1>4, WriteShows DEF DropObject, Remove
  <1>5. CASE CreatePolicy(s)
    BY <1>5, WriteShows DEF CreatePolicy
  <1>6. CASE UpdatePolicy(s)
    BY <1>6, WriteShows DEF UpdatePolicy
  <1>7. CASE DeletePolicy(s)
    BY <1>7, WriteShows DEF DeletePolicy
  <1> QED
    BY <1>1, <1>2, <1>3, <1>4, <1>5, <1>6, <1>7 DEF Transaction

LEMMA ReconcileShows == Reconcile => Written
  <1>1. CASE ReconcileRead
    BY <1>1 DEF ReconcileRead, Aside, Written
  <1>2. CASE ReconcileLook
    BY <1>2 DEF ReconcileLook, Aside, Written
  <1>3. CASE ReconcileCommit
    BY <1>3, CommitShows DEF ReconcileCommit, Aside, Written
  <1> QED
    BY <1>1, <1>2, <1>3 DEF Reconcile

\* A commit leaves every label behind and shows its tables to every call.
LEMMA WrittenPreserves ==
    ASSUME CurrentInv, Written
    PROVE  CurrentInv'
  <1> USE DEF CurrentInv, FunctionsOK, caches, calls
  <1>1. CASE NoCommit
    <2>1. CacheFits'
      BY <1>1 DEF Written, NoCommit, CacheFits
    <2>2. CallFits' /\ CallsAgree'
      BY <1>1 DEF Written, NoCommit, CallFits, CallsAgree
    <2> QED
      BY <1>1, <2>1, <2>2 DEF Written, NoCommit
  <1>2. CASE BumpVersion /\ since' = SeenWith(db')
    <2>1. version' \in Nat /\ FunctionsOK'
      BY <1>2 DEF Written, BumpVersion, SeenWith
    <2>2. CacheFits'
      BY <1>2 DEF Written, BumpVersion, CacheFits
    <2>3. ASSUME NEW r \in Readers, pc[r] # "idle"
          PROVE  since'[r] = since[r] \cup {View(of[r], db')}
      BY <1>2, <2>3 DEF SeenWith
    <2>4. CallFits'
      BY <1>2, <2>3 DEF Written, BumpVersion, CallFits
    <2>5. CallsAgree'
      BY <1>2, <2>3 DEF Written, CallsAgree
    <2> QED
      BY <2>1, <2>2, <2>4, <2>5
  <1> QED
    BY <1>1, <1>2 DEF Written

LEMMA CurrentInit == Init => CurrentInv
  BY DEF Init, CurrentInv, FunctionsOK, CacheFits, CallFits, CallsAgree, Called, Caches

LEMMA LookupPreserves ==
    ASSUME CurrentInv, NEW r \in Readers, Lookup(r)
    PROVE  CurrentInv'
  <1> USE DEF CurrentInv, FunctionsOK, Called, NoWrite, NoCommit, GoTo, caches, calls
  <1>1. ASSUME NEW c \in Looked, Begin(r, c) PROVE CurrentInv'
    <2>1. c \in Caches
      BY GovernanceAssumption
    <2>2. version' \in Nat /\ CacheFits'
      BY <1>1 DEF Begin, CacheFits
    <2>5. FunctionsOK'
      <3>1. pc' \in [Readers -> {"idle"} \cup Called] /\ of' \in [Readers -> Caches]
        BY <1>1, <2>1 DEF Begin
      <3>2. ver' \in [Readers -> Int]
        BY <1>1 DEF Begin
      <3>3. since' = [q \in Readers |-> since'[q]]
        BY <1>1 DEF Begin
      <3> QED
        BY <1>1, <3>1, <3>2, <3>3 DEF Begin
    <2>3. CallFits'
      BY <1>1, <2>1 DEF Begin, CallFits, CacheFits
    <2>4. CallsAgree'
      BY <1>1, <2>1 DEF Begin, CallFits, CallsAgree
    <2> QED
      BY <2>2, <2>3, <2>4, <2>5
  <1>2. CASE Hit(r)
    <2>1. version' \in Nat /\ FunctionsOK' /\ CacheFits'
      BY <1>2 DEF Hit, CacheFits
    <2>2. CallFits'
      BY <1>2 DEF Hit, CallFits
    <2>3. CallsAgree'
      BY <1>2 DEF Hit, CallsAgree
    <2> QED
      BY <2>1, <2>2, <2>3
  <1>3. CASE Miss(r)
    <2>1. version' \in Nat /\ FunctionsOK' /\ CacheFits'
      BY <1>3 DEF Miss, CacheFits
    <2>2. CallFits' /\ CallsAgree'
      BY <1>3 DEF Miss, CallFits, CallsAgree
    <2> QED
      BY <2>1, <2>2
  <1>4. CASE Load(r)
    <2>1. version' \in Nat /\ FunctionsOK' /\ CacheFits'
      BY <1>4 DEF Load, CacheFits
    <2>2. CallFits'
      BY <1>4 DEF Load, CallFits
    <2>3. CallsAgree'
      BY <1>4 DEF Load, CallFits, CallsAgree
    <2> QED
      BY <2>1, <2>2, <2>3
  <1>5. CASE LoadFails(r)
    <2>1. version' \in Nat /\ FunctionsOK' /\ CacheFits'
      BY <1>5 DEF LoadFails, CacheFits
    <2>2. CallFits' /\ CallsAgree'
      BY <1>5 DEF LoadFails, CallFits, CallsAgree
    <2> QED
      BY <2>1, <2>2
  <1>6. CASE Store(r)
    <2>1. version' \in Nat /\ FunctionsOK'
      BY <1>6 DEF Store
    <2>2. CacheFits'
      BY <1>6 DEF Store, CacheFits, CallFits
    <2>3. CallFits'
      BY <1>6 DEF Store, CallFits, CallsAgree
    <2>4. CallsAgree'
      BY <1>6 DEF Store, CallsAgree
    <2> QED
      BY <2>1, <2>2, <2>3, <2>4
  <1>7. CASE Leave(r)
    <2>1. version' \in Nat /\ CacheFits'
      BY <1>7 DEF Leave, CacheFits
    <2>3. "tags" \in Caches /\ -1 \in Int
      BY DEF Caches
    <2>4. pc' \in [Readers -> {"idle"} \cup Called] /\ of' \in [Readers -> Caches]
      BY <1>7, <2>3 DEF Leave
    <2>5. ver' \in [Readers -> Int]
      BY <1>7, <2>3 DEF Leave
    <2>6. /\ got' = [q \in Readers |-> got'[q]]
          /\ since' = [q \in Readers |-> since'[q]]
      BY <1>7 DEF Leave
    <2>7. FunctionsOK'
      BY <1>7, <2>4, <2>5, <2>6 DEF Leave
    <2>2. CallFits' /\ CallsAgree'
      BY <1>7 DEF Leave, CallFits, CallsAgree
    <2> QED
      BY <2>1, <2>2, <2>7
  <1> QED
    BY <1>1, <1>2, <1>3, <1>4, <1>5, <1>6, <1>7 DEF Lookup

LEMMA CurrentNext ==
    ASSUME CurrentInv, [Next]_vars
    PROVE  CurrentInv'
  <1>1. ASSUME NEW s \in Loops, Request(s) PROVE CurrentInv'
    BY <1>1, RequestShows, WrittenPreserves DEF Sessions
  <1>2. ASSUME NEW s \in Threads, NEW o \in Objects, NEW k \in Keys, AskSetTag(s, o, k)
        PROVE  CurrentInv'
    BY <1>2, AskShows, WrittenPreserves DEF AskSetTag
  <1>3. ASSUME NEW s \in Sessions, Transaction(s) PROVE CurrentInv'
    BY <1>3, TransactionShows, WrittenPreserves
  <1>4. ASSUME NEW o \in Objects, CatalogChanges(o) PROVE CurrentInv'
    BY <1>4, WrittenPreserves DEF CatalogChanges, Written
  <1>5. CASE Reconcile
    BY <1>5, ReconcileShows, WrittenPreserves
  <1>6. ASSUME NEW r \in Readers, Lookup(r) PROVE CurrentInv'
    BY <1>6, LookupPreserves
  <1>7. CASE Restart
    BY <1>7 DEF Restart, CurrentInv, FunctionsOK, CacheFits, CallFits, CallsAgree, Called,
                Caches
  <1>8. CASE UNCHANGED vars
    BY <1>8, WrittenPreserves DEF vars, Written, NoCommit
  <1> QED
    BY <1>1, <1>2, <1>3, <1>4, <1>5, <1>6, <1>7, <1>8 DEF Next

\* Whoever writes, however many calls share a cache and whatever fails: a lookup
\* answers with what the tables held at some moment of the call.
THEOREM LookupsAreCurrent == Spec => []AnswersAreCurrent
  <1>1. CurrentInv => AnswersAreCurrent
    BY DEF CurrentInv, CallFits, AnswersAreCurrent
  <1> QED
    BY <1>1, CurrentInit, CurrentNext, PTL DEF Spec

-----------------------------------------------------------------------------
(* The tables.                                                             *)
(*                                                                         *)
(* A transaction acts on what its request read earlier: what the proofs    *)
(* need is the type of a request, and of each transaction what it makes of *)
(* the tables of now.                                                      *)

Asked == [op : {"none"}] \cup [op : {"define"}, key : Keys]
         \cup [op : {"undefine"}, key : Keys, force : BOOLEAN]
         \cup [op : {"set_tag"}, pair : Pairs] \cup [op : {"drop"}, object : Objects]
         \cup [op : {"create", "update"}, id : Policies, rec : Policy]
         \cup [op : {"delete"}, id : Policies]

TablesInv == db \in DB /\ ForeignKeysHold(db) /\ req \in [Sessions -> Asked]

KeepsGone(d) == \A p \in Policies : db.policies[p] = Gone => d.policies[p] = Gone

LEMMA AskedParts ==
    ASSUME NEW r \in Asked
    PROVE  /\ r.op = "undefine" => r.key \in Keys
           /\ r.op = "define" => r.key \in Keys
           /\ r.op = "set_tag" => r.pair \in Pairs
           /\ r.op = "drop" => r.object \in Objects
           /\ r.op \in {"create", "update"} => r.id \in Policies /\ r.rec \in Policy
           /\ r.op = "delete" => r.id \in Policies
  BY DEF Asked

LEMMA PolicyIsNotGone ==
    /\ \A rec \in Policy : rec.is = "policy" /\ rec # Gone /\ rec # Unborn
    /\ Gone # Unborn /\ Gone.is # "policy" /\ Unborn.is # "policy"
  BY DEF Policy, Gone, Unborn

\* What a transaction comes to.
Made(d) == db' = db \/ (db' = d /\ ForeignKeysHold(d))

LEMMA MadeKeeps ==
    ASSUME TablesInv, NEW d, d \in DB, KeepsGone(d), Made(d)
    PROVE  db' \in DB /\ ForeignKeysHold(db') /\ KeepsGone(db')
  BY DEF Made, TablesInv, KeepsGone

\* The tables a transaction writes, in terms of those it finds.
LEMMA TablesMade ==
    ASSUME db \in DB
    PROVE  /\ \A ps : \A what \in {"none", "live", "orphaned"} :
                 /\ WithTags(ps, what) \in DB
                 /\ WithTags(ps, what).policies = db.policies
                 /\ WithTags(ps, what).defined = db.defined
           /\ \A p \in Policies : \A rec \in Policy \cup {Unborn, Gone} :
                 /\ WithPolicy(p, rec) \in DB
                 /\ WithPolicy(p, rec).policies = [db.policies EXCEPT ![p] = rec]
           /\ \A ks \in SUBSET Keys : \A d \in DB :
                 /\ [d EXCEPT !.defined = ks] \in DB
                 /\ [d EXCEPT !.defined = ks].policies = d.policies
           /\ \A vs \in SUBSET Values :
                 /\ [db EXCEPT !.attrs = vs] \in DB
                 /\ [db EXCEPT !.attrs = vs].policies = db.policies
           /\ Reconciled \in DB /\ Reconciled.policies = db.policies
  <1>0. /\ db.policies \in [Policies -> Policy \cup {Unborn, Gone}]
        /\ db.tags \in [Pairs -> {"none", "live", "orphaned"}]
    BY DEF DB
  <1>1. ASSUME NEW ps, NEW what \in {"none", "live", "orphaned"}
        PROVE  /\ WithTags(ps, what) \in DB
               /\ WithTags(ps, what).policies = db.policies
               /\ WithTags(ps, what).defined = db.defined
    <2> DEFINE new == [p \in Pairs |-> IF p \in ps THEN what ELSE db.tags[p]]
    <2>1. new \in [Pairs -> {"none", "live", "orphaned"}]
      BY <1>0
    <2> HIDE DEF new
    <2>2. [db EXCEPT !.tags = new] \in DB /\ [db EXCEPT !.tags = new].policies = db.policies
          /\ [db EXCEPT !.tags = new].defined = db.defined
      BY <2>1 DEF DB
    <2> QED
      BY <2>2 DEF WithTags, new
  <1>2. ASSUME NEW p \in Policies, NEW rec \in Policy \cup {Unborn, Gone}
        PROVE  /\ WithPolicy(p, rec) \in DB
               /\ WithPolicy(p, rec).policies = [db.policies EXCEPT ![p] = rec]
    <2> DEFINE new == [db.policies EXCEPT ![p] = rec]
    <2>1. new \in [Policies -> Policy \cup {Unborn, Gone}]
      BY <1>0
    <2> HIDE DEF new
    <2>2. [db EXCEPT !.policies = new] \in DB /\ [db EXCEPT !.policies = new].policies = new
      BY <2>1 DEF DB
    <2> QED
      BY <2>2 DEF WithPolicy, new
  <1>3. ASSUME NEW ks \in SUBSET Keys, NEW d \in DB
        PROVE  /\ [d EXCEPT !.defined = ks] \in DB
               /\ [d EXCEPT !.defined = ks].policies = d.policies
    BY DEF DB
  <1>4. ASSUME NEW vs \in SUBSET Values
        PROVE  /\ [db EXCEPT !.attrs = vs] \in DB
               /\ [db EXCEPT !.attrs = vs].policies = db.policies
    BY DEF DB
  <1>5. Reconciled \in DB /\ Reconciled.policies = db.policies
    <2> DEFINE new == [p \in Pairs |-> IF p \in recon.flag THEN "orphaned"
                                       ELSE IF p \in recon.restore THEN "live"
                                       ELSE db.tags[p]]
    <2>1. new \in [Pairs -> {"none", "live", "orphaned"}]
      BY <1>0
    <2> HIDE DEF new
    <2>2. [db EXCEPT !.tags = new] \in DB /\ [db EXCEPT !.tags = new].policies = db.policies
      BY <2>1 DEF DB
    <2> QED
      BY <2>2 DEF Reconciled, new
  <1> QED
    BY <1>1, <1>2, <1>3, <1>4, <1>5

LEMMA TransactionKeeps ==
    ASSUME TablesInv, NEW s \in Sessions, Transaction(s)
    PROVE  TablesInv' /\ KeepsGone(db')
  <1> DEFINE Kept == db' \in DB /\ ForeignKeysHold(db') /\ KeepsGone(db')
  <1>0. /\ db \in DB /\ db.policies \in [Policies -> Policy \cup {Unborn, Gone}]
        /\ db.defined \subseteq Keys /\ req[s] \in Asked
    BY DEF TablesInv, DB
  <1>t. ASSUME NEW ps, NEW what \in {"none", "live"}, Made(WithTags(ps, what)) PROVE Kept
    <2>1. WithTags(ps, what) \in DB /\ KeepsGone(WithTags(ps, what))
      BY <1>0, TablesMade DEF KeepsGone
    <2> QED
      BY <1>t, <2>1, MadeKeeps
  <1>1. ASSUME CreateDefinition(s) PROVE Kept
    <2> DEFINE ks == db.defined \cup {req[s].key}
    <2>1. /\ ks \in SUBSET Keys
          /\ Made([db EXCEPT !.defined = ks])
      BY <1>0, <1>1, AskedParts DEF CreateDefinition, Answer, Write, Commit, NoCommit, Made
    <2> HIDE DEF ks
    <2>2. [db EXCEPT !.defined = ks] \in DB /\ KeepsGone([db EXCEPT !.defined = ks])
      BY <1>0, <2>1, TablesMade DEF KeepsGone
    <2> QED
      BY <2>1, <2>2, MadeKeeps
  <1>2. ASSUME DeleteDefinition(s) PROVE Kept
    <2> DEFINE k    == req[s].key
               base == WithTags(Assigned(k), "none")
               ps   == [p \in Policies |-> IF p \in Masking(k) THEN Gone ELSE db.policies[p]]
               d    == [base EXCEPT !.policies = ps, !.defined = @ \ {k}]
    <2>1. Made(d)
      BY <1>2 DEF DeleteDefinition, Write, Commit, NoCommit, Made
    <2>2. base \in DB /\ base.defined = db.defined
      BY <1>0, TablesMade
    <2>3. ps \in [Policies -> Policy \cup {Unborn, Gone}]
          /\ \A p \in Policies : db.policies[p] = Gone => ps[p] = Gone
      BY <1>0
    <2> HIDE DEF base, ps
    <2>4. d \in DB /\ d.policies = ps
      BY <1>0, <2>2, <2>3 DEF DB
    <2> HIDE DEF d
    <2> QED
      BY <2>1, <2>3, <2>4, MadeKeeps DEF KeepsGone
  <1>3. ASSUME SetTag(s) PROVE Kept
    <2>1. Made(WithTags({req[s].pair}, "live"))
      BY <1>3 DEF SetTag, Write, Commit, NoCommit, Made
    <2> QED
      BY <1>t, <2>1
  <1>4. ASSUME DropObject(s) PROVE Kept
    <2>1. Made(WithTags({req[s].object} \X Keys, "none"))
      BY <1>4 DEF DropObject, Remove, Write, Commit, NoCommit, Made
    <2> QED
      BY <1>t, <2>1
  <1>5. ASSUME CreatePolicy(s) PROVE Kept
    <2> DEFINE p == req[s].id
    <2>1. /\ p \in Policies /\ req[s].rec \in Policy
          /\ db' = db \/ (db.policies[p] = Unborn /\ Made(WithPolicy(p, req[s].rec)))
      BY <1>0, <1>5, AskedParts DEF CreatePolicy, Answer, Write, Commit, NoCommit, Made
    <2> HIDE DEF p
    <2>2. /\ WithPolicy(p, req[s].rec) \in DB
          /\ WithPolicy(p, req[s].rec).policies = [db.policies EXCEPT ![p] = req[s].rec]
      BY <1>0, <2>1, TablesMade
    <2>3. db.policies[p] = Unborn => KeepsGone(WithPolicy(p, req[s].rec))
      BY <1>0, <2>1, <2>2, PolicyIsNotGone DEF KeepsGone
    <2>4. CASE db' = db
      BY <2>4 DEF TablesInv, KeepsGone
    <2> QED
      BY <2>1, <2>2, <2>3, <2>4, MadeKeeps
  <1>6. ASSUME UpdatePolicy(s) PROVE Kept
    <2> DEFINE p == req[s].id
               d == IF Stored(p) THEN WithPolicy(p, req[s].rec) ELSE db
    <2>1. /\ p \in Policies /\ req[s].rec \in Policy /\ Made(d)
      BY <1>0, <1>6, AskedParts DEF UpdatePolicy, Answer, Write, Commit, NoCommit, Made
    <2>2. d \in DB /\ KeepsGone(d)
      <3>1. CASE Stored(p)
        <4>1. /\ d \in DB /\ d.policies = [db.policies EXCEPT ![p] = req[s].rec]
              /\ db.policies[p] # Gone
          BY <1>0, <2>1, <3>1, TablesMade, PolicyIsNotGone DEF Stored
        <4> HIDE DEF d, p
        <4> QED
          BY <1>0, <2>1, <4>1 DEF KeepsGone
      <3>2. CASE ~Stored(p)
        BY <1>0, <3>2 DEF KeepsGone
      <3> QED
        BY <3>1, <3>2
    <2> HIDE DEF d
    <2> QED
      BY <2>1, <2>2, MadeKeeps
  <1>7. ASSUME DeletePolicy(s) PROVE Kept
    <2> DEFINE p == req[s].id
    <2>1. p \in Policies /\ Made(WithPolicy(p, Gone))
      BY <1>0, <1>7, AskedParts DEF DeletePolicy, Answer, Write, Commit, NoCommit, Made
    <2> HIDE DEF p
    <2>2. /\ WithPolicy(p, Gone) \in DB
          /\ WithPolicy(p, Gone).policies = [db.policies EXCEPT ![p] = Gone]
      BY <1>0, <2>1, TablesMade
    <2>3. KeepsGone(WithPolicy(p, Gone))
      BY <1>0, <2>1, <2>2 DEF KeepsGone
    <2> QED
      BY <2>1, <2>2, <2>3, MadeKeeps
  <1>8. req' \in [Sessions -> Asked]
    <2>1. req' = [req EXCEPT ![s] = NoReq]
      BY DEF Transaction, CreateDefinition, DeleteDefinition, SetTag, DropObject, CreatePolicy,
             UpdatePolicy, DeletePolicy, Answer
    <2>2. NoReq \in Asked
      BY DEF NoReq, Asked
    <2> QED
      BY <2>1, <2>2 DEF TablesInv
  <1>9. Kept
    BY <1>1, <1>2, <1>3, <1>4, <1>5, <1>6, <1>7 DEF Transaction
  <1> QED
    BY <1>8, <1>9 DEF TablesInv, ForeignKeysHold

\* What a request remembers is typed.
LEMMA AskKeeps ==
    ASSUME TablesInv, NEW s \in Sessions, NEW r \in Asked, Ask(s, r)
    PROVE  TablesInv' /\ KeepsGone(db')
  BY DEF Ask, NoCommit, TablesInv, KeepsGone, ForeignKeysHold

LEMMA RequestKeeps ==
    ASSUME TablesInv, NEW s \in Sessions, Request(s)
    PROVE  TablesInv' /\ KeepsGone(db')
  <1> DEFINE Goal == TablesInv' /\ KeepsGone(db')
  <1>0. /\ db \in DB /\ db.policies \in [Policies -> Policy \cup {Unborn, Gone}]
        /\ db.defined \subseteq Keys
    BY DEF TablesInv, DB
  <1>w. ASSUME NEW d, d \in DB, d.policies = db.policies, Made(d), req' = req PROVE Goal
    <2>1. KeepsGone(d)
      BY <1>w DEF KeepsGone
    <2>2. db' \in DB /\ ForeignKeysHold(db') /\ KeepsGone(db')
      BY <1>w, <2>1, MadeKeeps
    <2> QED
      BY <1>w, <2>2 DEF TablesInv, ForeignKeysHold
  <1>1. ASSUME NEW k \in Keys, AskDefine(s, k) PROVE Goal
    <2>1. [op |-> "define", key |-> k] \in Asked
      BY DEF Asked
    <2> QED
      BY <1>1, <2>1, AskKeeps DEF AskDefine
  <1>2. ASSUME NEW k \in Keys, NEW force \in BOOLEAN, AskUndefine(s, k, force) PROVE Goal
    <2>1. [op |-> "undefine", key |-> k, force |-> force] \in Asked
      BY DEF Asked
    <2> QED
      BY <1>2, <2>1, AskKeeps DEF AskUndefine
  <1>3. ASSUME NEW o \in Objects, NEW k \in Keys, AskSetTag(s, o, k) PROVE Goal
    <2>1. [op |-> "set_tag", pair |-> <<o, k>>] \in Asked
      BY DEF Asked, Pairs
    <2> QED
      BY <1>3, <2>1, AskKeeps DEF AskSetTag
  <1>4. ASSUME NEW o \in Objects, NEW k \in Keys, UnsetTag(s, o, k) PROVE Goal
    <2>1. Made(WithTags({<<o, k>>}, "none")) /\ req' = req
      BY <1>4 DEF UnsetTag, Remove, AtOnce, Write, Commit, NoCommit, Made
    <2> QED
      BY <1>0, <1>w, <2>1, TablesMade
  <1>5. ASSUME NEW p \in Policies, NEW k \in Keys, NEW on \in BOOLEAN, AskCreate(s, p, k, on)
        PROVE  Goal
    <2> DEFINE rec == [is |-> "policy", tag |-> k, enabled |-> on]
    <2>0. rec \in Policy
      BY DEF Policy
    <2> HIDE DEF rec
    <2>1. [op |-> "create", id |-> p, rec |-> rec] \in Asked
      BY <2>0 DEF Asked
    <2>2. Ask(s, [op |-> "create", id |-> p, rec |-> rec])
      BY <1>5 DEF AskCreate, rec
    <2> QED
      BY <2>1, <2>2, AskKeeps
  <1>6. ASSUME NEW o \in Objects, AskDrop(s, o) PROVE Goal
    <2>1. [op |-> "drop", object |-> o] \in Asked
      BY DEF Asked
    <2> QED
      BY <1>6, <2>1, AskKeeps DEF AskDrop
  <1>7. ASSUME NEW p \in Policies, AskUpdate(s, p) PROVE Goal
    <2>1. PICK rec \in Changes(p) : Ask(s, [op |-> "update", id |-> p, rec |-> rec])
      BY <1>7 DEF AskUpdate
    <2>2. db.policies[p] \in Policy
      BY <1>0, <1>7, PolicyIsNotGone DEF AskUpdate, Stored
    <2>3. rec \in Policy
      BY <1>0, <2>2 DEF Changes, Policy
    <2>4. [op |-> "update", id |-> p, rec |-> rec] \in Asked
      BY <2>3 DEF Asked
    <2> QED
      BY <2>1, <2>4, AskKeeps
  <1>8. ASSUME NEW p \in Policies, AskDelete(s, p) PROVE Goal
    <2>1. [op |-> "delete", id |-> p] \in Asked
      BY DEF Asked
    <2> QED
      BY <1>8, <2>1, AskKeeps DEF AskDelete
  <1>9. ASSUME NEW vs \in SUBSET Values, Made([db EXCEPT !.attrs = vs]), req' = req
        PROVE  Goal
    BY <1>0, <1>w, <1>9, TablesMade
  <1>10. (\E vs \in SUBSET Values : SetAttributeValues(s, vs)) \/ DeleteAttribute(s) => Goal
    BY <1>9 DEF SetAttributeValues, DeleteAttribute, AtOnce, Write, Commit, NoCommit, Made
  <1> QED
    BY <1>1, <1>2, <1>3, <1>4, <1>5, <1>6, <1>7, <1>8, <1>10 DEF Request

LEMMA TablesStep == TablesInv /\ [Next]_vars => TablesInv' /\ KeepsGone(db')
  <1> SUFFICES ASSUME TablesInv, [Next]_vars PROVE TablesInv' /\ KeepsGone(db')
    OBVIOUS
  <1>0. req' = req /\ db' = db => TablesInv' /\ KeepsGone(db')
    BY DEF TablesInv, KeepsGone, ForeignKeysHold
  <1>1. ASSUME NEW s \in Loops, Request(s) PROVE TablesInv' /\ KeepsGone(db')
    BY <1>1, RequestKeeps DEF Sessions
  <1>2. ASSUME NEW s \in Threads, NEW o \in Objects, NEW k \in Keys, AskSetTag(s, o, k)
        PROVE  TablesInv' /\ KeepsGone(db')
    <2>1. [op |-> "set_tag", pair |-> <<o, k>>] \in Asked
      BY DEF Asked, Pairs
    <2> QED
      BY <1>2, <2>1, AskKeeps DEF AskSetTag, Sessions
  <1>3. ASSUME NEW s \in Sessions, Transaction(s) PROVE TablesInv' /\ KeepsGone(db')
    BY <1>3, TransactionKeeps
  <1>4. ASSUME NEW o \in Objects, CatalogChanges(o) PROVE TablesInv' /\ KeepsGone(db')
    BY <1>0, <1>4 DEF CatalogChanges, NoCommit
  <1>5. CASE ReconcileRead \/ ReconcileLook
    BY <1>0, <1>5 DEF ReconcileRead, ReconcileLook, NoCommit, Aside
  <1>6. CASE ReconcileCommit
    <2>1. Made(Reconciled) /\ req' = req
      BY <1>6 DEF ReconcileCommit, Aside, Commit, NoCommit, Made
    <2>2. Reconciled \in DB /\ KeepsGone(Reconciled)
      BY TablesMade DEF TablesInv, KeepsGone
    <2>3. db' \in DB /\ ForeignKeysHold(db') /\ KeepsGone(db')
      BY <2>1, <2>2, MadeKeeps
    <2> QED
      BY <2>1, <2>3 DEF TablesInv, ForeignKeysHold
  <1>7. ASSUME NEW r \in Readers, Lookup(r) PROVE TablesInv' /\ KeepsGone(db')
    BY <1>0, <1>7 DEF Lookup, Begin, Hit, Miss, Load, LoadFails, Store, Leave, NoWrite, NoCommit
  <1>8. CASE Restart
    <2>1. NoReq \in Asked
      BY DEF NoReq, Asked
    <2>2. req' \in [Sessions -> Asked] /\ db' = db
      BY <1>8, <2>1 DEF Restart
    <2> QED
      BY <2>2 DEF TablesInv, KeepsGone, ForeignKeysHold
  <1>9. CASE UNCHANGED vars
    BY <1>0, <1>9 DEF vars
  <1> QED
    BY <1>1, <1>2, <1>3, <1>4, <1>5, <1>6, <1>7, <1>8, <1>9 DEF Next, Reconcile

LEMMA TablesInit == Init => TablesInv
  <1> SUFFICES ASSUME Init PROVE TablesInv
    OBVIOUS
  <1>1. NoReq \in Asked
    BY DEF NoReq, Asked
  <1>2. db \in DB
    BY GovernanceAssumption DEF Init, DB
  <1>3. ForeignKeysHold(db)
    BY PolicyIsNotGone DEF Init, ForeignKeysHold
  <1> QED
    BY <1>1, <1>2, <1>3 DEF Init, TablesInv

\* No tag and no policy outlives the definition of its tag key: the tables have their type
\* and their foreign keys after every transaction, whatever was committed between a request's
\* reads and its writes.
THEOREM TablesAreSound == Spec => [](db \in DB /\ ForeignKeysHold(db))
  <1>1. TablesInv => db \in DB /\ ForeignKeysHold(db)
    BY DEF TablesInv
  <1> QED
    BY <1>1, TablesInit, TablesStep, PTL DEF Spec

\* A deleted policy never comes back, not even by an update that read it before it was
\* deleted, nor by a creation: for any number of policies and requests.
THEOREM DeletedPoliciesStay == Spec => DeletedStaysDeleted
  <1>1. TablesInv /\ [Next]_vars
           => [\A p \in Policies : db.policies[p] = Gone => db'.policies[p] = Gone]_vars
    BY TablesStep DEF KeepsGone
  <1>2. TablesInv /\ [Next]_vars => TablesInv'
    BY TablesStep
  <1> QED
    BY <1>1, <1>2, TablesInit, PTL DEF Spec, DeletedStaysDeleted
=============================================================================
