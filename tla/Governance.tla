------------------------------ MODULE Governance ------------------------------
(***************************************************************************)
(* Governance metadata (web/governance: store, tags, policies,             *)
(* row_filters): the tables of governance.db and their version counter,    *)
(* the requests and background threads that write them, the reconcile      *)
(* loop, and one process's four lookup caches, each under a lock of its    *)
(* own and checked against the version.                                    *)
(*                                                                         *)
(* A request is two steps: what it reads before its transaction, and the   *)
(* transaction.  Between them any other session may commit.                *)
(***************************************************************************)
EXTENDS Integers, FiniteSets

CONSTANTS
    Keys,     \* tag keys
    Seeded,   \* those a new installation defines
    Objects,  \* catalog objects that can be tagged
    MaskIds,  \* ids of masking policies,
    RowIds,   \* and of row policies
    Values,   \* values of principal attributes
    Loops,    \* event loops that answer admin requests
    Threads,  \* background threads that tag what they wrote
    Readers,  \* threads that resolve queries in one process
    Looked,   \* the caches they look things up in
    Nobody,   \* holds no lock
    MaxSteps, \* bound: requests, catalog changes, failed loads and restarts
    MaxCalls  \* bound: lookups

Policies == MaskIds \cup RowIds
Sessions == Loops \cup Threads
Caches   == {"tags", "masks", "rows", "attrs"}

ASSUME GovernanceAssumption == /\ Seeded \subseteq Keys /\ MaskIds \cap RowIds = {}
                               /\ Nobody \notin Readers /\ Looked \subseteq Caches
                               /\ MaxSteps \in Nat /\ MaxCalls \in Nat

VARIABLES
    db,       \* the tables of governance.db
    version,  \* governance_meta.version
    exists,   \* the objects that are in the catalog
    req,      \* session -> its request between the reads and the transaction
    recon,    \* the reconcile thread
    \* Cache -> its fields and its lock.
    cver, cdata, lock,
    \* Reader -> its call: where it is, of which cache, and its local variables.
    pc, of, ver, got,
    since,    \* reader -> what its cache could have shown since the call began
    left, callsLeft \* what remains of MaxSteps and of MaxCalls

caches  == <<cver, cdata, lock>>
calls   == <<pc, of, ver, got, callsLeft>>
vars    == <<db, version, exists, req, recon, caches, calls, since, left>>

Unborn == [is |-> "unborn"]
Gone   == [is |-> "gone"]
Policy == [is : {"policy"}, tag : Keys, enabled : BOOLEAN]
NoReq  == [op |-> "none"]
Resting == [stage |-> "rest", flag |-> {}, restore |-> {}, counted |-> FALSE]

Pairs == Objects \X Keys
DB    == [defined  : SUBSET Keys,                          \* tag_definitions
          tags     : [Pairs -> {"none", "live", "orphaned"}],  \* object_tags
          policies : [Policies -> Policy \cup {Unborn, Gone}], \* masking_, row_policies
          attrs    : SUBSET Values]                        \* principal_attributes

Live(d, ps) == {<<p, d.policies[p]>> : p \in {q \in ps : /\ d.policies[q].is = "policy"
                                                         /\ d.policies[q].enabled}}

\* What a cache loads: _load_index, list_policies(enabled_only), list_row_policies
\* (enabled_only), the rows of principal_attributes.
View(c, d) == CASE c = "tags"  -> {p \in Pairs : d.tags[p] = "live"}
                [] c = "masks" -> Live(d, MaskIds)
                [] c = "rows"  -> Live(d, RowIds)
                [] c = "attrs" -> d.attrs

TypeOK ==
    /\ db \in DB /\ version \in Nat /\ exists \subseteq Objects
    /\ cver \in [Caches -> Int] /\ lock \in [Caches -> Readers \cup {Nobody}]
    /\ pc \in [Readers -> {"idle", "versioned", "load", "store", "answered"}]
    /\ of \in [Readers -> Caches] /\ ver \in [Readers -> Int]
    /\ left \in Nat /\ callsLeft \in Nat

Init ==
    /\ db = [defined  |-> Seeded,
             tags     |-> [p \in Pairs |-> "none"],
             policies |-> [p \in Policies |-> Unborn],
             attrs    |-> {}]
    /\ version = 1 /\ exists = Objects
    /\ req = [s \in Sessions |-> NoReq] /\ recon = Resting
    /\ cver = [c \in Caches |-> -1] /\ cdata = [c \in Caches |-> {}]
    /\ lock = [c \in Caches |-> Nobody]
    /\ pc = [r \in Readers |-> "idle"] /\ of = [r \in Readers |-> "tags"]
    /\ ver = [r \in Readers |-> -1] /\ got = [r \in Readers |-> {}]
    /\ since = [r \in Readers |-> {}]
    /\ left = MaxSteps /\ callsLeft = MaxCalls

Spend == left > 0 /\ left' = left - 1

-----------------------------------------------------------------------------
(* Transactions. *)

\* What a call in progress could still be shown, once the tables are d.
SeenWith(d) == [r \in Readers |-> IF pc[r] = "idle" THEN {}
                                  ELSE since[r] \cup {View(of[r], d)}]

\* PRAGMA foreign_keys=ON: a tag or policy may only name a tag that is defined.
ForeignKeysHold(d) ==
    /\ \A p \in Pairs : d.tags[p] # "none" => p[2] \in d.defined
    /\ \A p \in Policies : d.policies[p].is = "policy" => d.policies[p].tag \in d.defined

BumpVersion == version' = version + 1

NoCommit == UNCHANGED <<db, version, since>>

\* A transaction: all of d and the new version or, when a foreign key fails or it
\* finds no row to change, nothing.
Commit(found, d) ==
    \/ /\ found /\ ForeignKeysHold(d)
       /\ db' = d /\ BumpVersion /\ since' = SeenWith(d)
    \/ /\ ~(found /\ ForeignKeysHold(d))
       /\ NoCommit

\* The reconcile thread updates rows by id, and the id of a deleted row never comes
\* back: what it holds of such a row is void.
Write(found, d) ==
    /\ Commit(found, d)
    /\ recon' = [recon EXCEPT !.flag = {p \in @ : db'.tags[p] # "none"},
                              !.restore = {p \in @ : db'.tags[p] # "none"}]
    /\ UNCHANGED <<caches, calls>>

\* The reads before a transaction, and the transaction.
Ask(s, r) ==
    /\ req[s] = NoReq /\ Spend
    /\ req' = [req EXCEPT ![s] = r]
    /\ NoCommit /\ UNCHANGED <<recon, caches, calls>>

Answer(s, op) ==
    /\ req[s].op = op /\ req' = [req EXCEPT ![s] = NoReq]
    /\ UNCHANGED <<exists, left>>

\* An operation that is its transaction only.
AtOnce(s) == req[s] = NoReq /\ Spend /\ UNCHANGED <<req, exists>>

-----------------------------------------------------------------------------
(* Tags. *)

Assigned(k) == {p \in Pairs : p[2] = k /\ db.tags[p] # "none"}
Masking(k)  == {p \in MaskIds : db.policies[p].is = "policy" /\ db.policies[p].tag = k}

WithTags(ps, what) == [db EXCEPT !.tags = [p \in Pairs |-> IF p \in ps THEN what ELSE db.tags[p]]]

AskDefine(s, k) ==
    k \notin db.defined /\ Ask(s, [op |-> "define", key |-> k]) /\ exists' = exists

\* tag_key is the primary key: a second INSERT fails.
CreateDefinition(s) ==
    /\ Answer(s, "define")
    /\ LET k == req[s].key
       IN  Write(k \notin db.defined, [db EXCEPT !.defined = @ \cup {k}])

AskUndefine(s, k, force) ==
    /\ k \in db.defined
    /\ force \/ (Assigned(k) = {} /\ Masking(k) = {})
    /\ Ask(s, [op |-> "undefine", key |-> k, force |-> force]) /\ exists' = exists

DeleteDefinition(s) ==
    /\ Answer(s, "undefine")
    /\ LET k == req[s].key
       IN  Write(TRUE, [WithTags(Assigned(k), "none") EXCEPT
                           !.policies = [p \in Policies |-> IF p \in Masking(k) THEN Gone
                                                            ELSE db.policies[p]],
                           !.defined = @ \ {k}])

\* An event loop is asked to, or a thread tags what it just wrote.
AskSetTag(s, o, k) ==
    /\ o \in exists /\ k \in db.defined
    /\ Ask(s, [op |-> "set_tag", pair |-> <<o, k>>]) /\ exists' = exists

SetTag(s) == Answer(s, "set_tag") /\ Write(TRUE, WithTags({req[s].pair}, "live"))

Remove(ps) == Write(\E p \in ps : db.tags[p] # "none", WithTags(ps, "none"))

UnsetTag(s, o, k) == AtOnce(s) /\ Remove({<<o, k>>})

\* drop_table: the table goes, then its tags.
AskDrop(s, o) ==
    o \in exists /\ Ask(s, [op |-> "drop", object |-> o]) /\ exists' = exists \ {o}

DropObject(s) == Answer(s, "drop") /\ Remove({req[s].object} \X Keys)

-----------------------------------------------------------------------------
(* Masking policies and row policies: the same operations on two tables. *)

WithPolicy(p, rec) == [db EXCEPT !.policies = [@ EXCEPT ![p] = rec]]
Stored(p)          == db.policies[p].is = "policy"

AskCreate(s, p, k, on) ==
    /\ db.policies[p] = Unborn /\ k \in db.defined
    /\ Ask(s, [op |-> "create", id |-> p,
               rec |-> [is |-> "policy", tag |-> k, enabled |-> on]])
    /\ exists' = exists

\* Ids are drawn at random: no two requests insert the same one.
CreatePolicy(s) ==
    /\ Answer(s, "create")
    /\ Write(db.policies[req[s].id] = Unborn, WithPolicy(req[s].id, req[s].rec))

\* The fields a change leaves out are those read now.
Changes(p) == {[db.policies[p] EXCEPT !.tag = k] : k \in db.defined}
              \cup {[db.policies[p] EXCEPT !.enabled = ~@]}

AskUpdate(s, p) ==
    /\ Stored(p)
    /\ \E rec \in Changes(p) : Ask(s, [op |-> "update", id |-> p, rec |-> rec])
    /\ exists' = exists

\* Mutant: INSERT OR REPLACE in place of UPDATE.
ReplacePolicy(s) ==
    /\ Answer(s, "update")
    /\ Write(TRUE, WithPolicy(req[s].id, req[s].rec))

\* UPDATE ... WHERE id: no row, no change, but a new version all the same.
UpdatePolicy(s) ==
    /\ Answer(s, "update")
    /\ LET p == req[s].id
       IN  Write(TRUE, IF Stored(p) THEN WithPolicy(p, req[s].rec) ELSE db)

AskDelete(s, p) == Stored(p) /\ Ask(s, [op |-> "delete", id |-> p]) /\ exists' = exists

DeletePolicy(s) == Answer(s, "delete") /\ Write(TRUE, WithPolicy(req[s].id, Gone))

SetAttributeValues(s, vs) == AtOnce(s) /\ Write(TRUE, [db EXCEPT !.attrs = vs])

DeleteAttribute(s) == AtOnce(s) /\ Write(db.attrs # {}, [db EXCEPT !.attrs = {}])

-----------------------------------------------------------------------------
(* The catalog, and the loop that flags tags of what is not there. *)

\* Tables come and go outside the application too.
CatalogChanges(o) ==
    /\ Spend
    /\ exists' = IF o \in exists THEN exists \ {o} ELSE exists \cup {o}
    /\ NoCommit /\ UNCHANGED <<req, recon, caches, calls>>

Aside == UNCHANGED <<exists, req, caches, calls, left>>

ReconcileRead ==
    /\ recon.stage = "rest"
    /\ recon' = [recon EXCEPT !.stage = "look",
                              !.flag = {p \in Pairs : db.tags[p] = "live"},
                              !.restore = {p \in Pairs : db.tags[p] = "orphaned"}]
    /\ NoCommit /\ Aside

\* Mutant: flags what is missing, restores nothing.
ReconcileFlagsOnly ==
    /\ recon.stage = "look"
    /\ LET flag == {p \in recon.flag : p[1] \notin exists}
       IN  recon' = [stage |-> "commit", flag |-> flag, restore |-> {},
                     counted |-> flag # {}]
    /\ NoCommit /\ Aside

\* Flags the live rows whose object is missing, restores the flagged ones whose
\* object is back.
ReconcileLook ==
    /\ recon.stage = "look"
    /\ LET flag    == {p \in recon.flag : p[1] \notin exists}
           restore == {p \in recon.restore : p[1] \in exists}
       IN  recon' = [stage |-> "commit", flag |-> flag, restore |-> restore,
                     counted |-> flag \cup restore # {}]
    /\ NoCommit /\ Aside

Reconciled == [db EXCEPT !.tags = [p \in Pairs |-> IF p \in recon.flag THEN "orphaned"
                                                   ELSE IF p \in recon.restore THEN "live"
                                                   ELSE db.tags[p]]]

ReconcileCommit ==
    /\ recon.stage = "commit"
    /\ Commit(recon.counted, Reconciled)
    /\ recon' = Resting /\ Aside

-----------------------------------------------------------------------------
(* Lookups: enabled_policies, get_index, enabled_row_policies, _attr_index. *)

NoWrite == NoCommit /\ UNCHANGED <<exists, req, recon>>

GoTo(r, where) == pc' = [pc EXCEPT ![r] = where]

Begin(r, c) ==
    /\ pc[r] = "idle" /\ callsLeft > 0 /\ callsLeft' = callsLeft - 1
    /\ GoTo(r, "versioned") /\ of' = [of EXCEPT ![r] = c]
    /\ ver' = [ver EXCEPT ![r] = version]
    /\ since' = [since EXCEPT ![r] = {View(c, db)}]
    /\ UNCHANGED <<db, version, exists, req, recon, caches, got, left>>

Hit(r) ==
    /\ pc[r] = "versioned" /\ lock[of[r]] = Nobody
    /\ cver[of[r]] = ver[r]
    /\ GoTo(r, "answered") /\ got' = [got EXCEPT ![r] = cdata[of[r]]]
    /\ NoWrite /\ UNCHANGED <<caches, of, ver, callsLeft, left>>

Miss(r) ==
    /\ pc[r] = "versioned" /\ lock[of[r]] = Nobody
    /\ cver[of[r]] # ver[r]
    /\ GoTo(r, "load") /\ lock' = [lock EXCEPT ![of[r]] = r]
    /\ NoWrite /\ UNCHANGED <<cver, cdata, of, ver, got, callsLeft, left>>

Load(r) ==
    /\ pc[r] = "load"
    /\ GoTo(r, "store") /\ got' = [got EXCEPT ![r] = View(of[r], db)]
    /\ NoWrite /\ UNCHANGED <<caches, of, ver, callsLeft, left>>

\* The database is locked: the call fails, the cache stays as it was.
LoadFails(r) ==
    /\ pc[r] = "load" /\ Spend
    /\ lock' = [lock EXCEPT ![of[r]] = Nobody]
    /\ GoTo(r, "idle") /\ since' = [since EXCEPT ![r] = {}]
    /\ UNCHANGED <<db, version, exists, req, recon, cver, cdata, of, ver, got, callsLeft>>

\* Mutant: the entry is labelled with the version of the moment, not with the one
\* the call read before it loaded.
StoreLatest(r) ==
    /\ pc[r] = "store"
    /\ cdata' = [cdata EXCEPT ![of[r]] = got[r]]
    /\ cver' = [cver EXCEPT ![of[r]] = version]
    /\ lock' = [lock EXCEPT ![of[r]] = Nobody]
    /\ GoTo(r, "answered")
    /\ NoWrite /\ UNCHANGED <<of, ver, got, callsLeft, left>>

Store(r) ==
    /\ pc[r] = "store"
    /\ cdata' = [cdata EXCEPT ![of[r]] = got[r]]
    /\ cver' = [cver EXCEPT ![of[r]] = ver[r]]
    /\ lock' = [lock EXCEPT ![of[r]] = Nobody]
    /\ GoTo(r, "answered")
    /\ NoWrite /\ UNCHANGED <<of, ver, got, callsLeft, left>>

Leave(r) ==
    /\ pc[r] = "answered"
    /\ GoTo(r, "idle")
    /\ ver' = [ver EXCEPT ![r] = -1] /\ got' = [got EXCEPT ![r] = {}]
    /\ since' = [since EXCEPT ![r] = {}] /\ of' = [of EXCEPT ![r] = "tags"]
    /\ UNCHANGED <<db, version, exists, req, recon, caches, callsLeft, left>>

\* uvicorn --reload: the process starts over, with what is in governance.db.
Restart ==
    /\ Spend
    /\ req' = [s \in Sessions |-> NoReq] /\ recon' = Resting
    /\ cver' = [c \in Caches |-> -1] /\ cdata' = [c \in Caches |-> {}]
    /\ lock' = [c \in Caches |-> Nobody]
    /\ pc' = [r \in Readers |-> "idle"] /\ of' = [r \in Readers |-> "tags"]
    /\ ver' = [r \in Readers |-> -1] /\ got' = [r \in Readers |-> {}]
    /\ since' = [r \in Readers |-> {}]
    /\ UNCHANGED <<db, version, exists, callsLeft>>

-----------------------------------------------------------------------------
Request(s) ==
    \/ \E k \in Keys :
         \/ AskDefine(s, k)
         \/ \E force \in BOOLEAN : AskUndefine(s, k, force)
         \/ \E o \in Objects : AskSetTag(s, o, k) \/ UnsetTag(s, o, k)
         \/ \E p \in Policies, on \in BOOLEAN : AskCreate(s, p, k, on)
    \/ \E o \in Objects : AskDrop(s, o)
    \/ \E p \in Policies : AskUpdate(s, p) \/ AskDelete(s, p)
    \/ \E vs \in SUBSET Values : SetAttributeValues(s, vs)
    \/ DeleteAttribute(s)

Transaction(s) ==
    \/ CreateDefinition(s) \/ DeleteDefinition(s) \/ SetTag(s) \/ DropObject(s)
    \/ CreatePolicy(s) \/ UpdatePolicy(s) \/ DeletePolicy(s)

Reconcile == ReconcileRead \/ ReconcileLook \/ ReconcileCommit

Lookup(r) ==
    \/ \E c \in Looked : Begin(r, c)
    \/ Hit(r) \/ Miss(r) \/ Load(r) \/ LoadFails(r) \/ Store(r) \/ Leave(r)

Next ==
    \/ \E s \in Loops : Request(s)
    \/ \E s \in Threads, o \in Objects, k \in Keys : AskSetTag(s, o, k)
    \/ \E s \in Sessions : Transaction(s)
    \/ \E o \in Objects : CatalogChanges(o)
    \/ Reconcile
    \/ \E r \in Readers : Lookup(r)
    \/ Restart

Spec == Init /\ [][Next]_vars

\* The reconcile loop runs for as long as the process does.
LiveSpec == Spec /\ WF_vars(Reconcile)

-----------------------------------------------------------------------------
(* What the code promises. *)

\* A lookup answers with what the tables held at some moment of the call, never with
\* something older, whoever writes meanwhile and however calls share the cache
\* (policies.py enabled_policies, tags.py get_index, row_filters.py).
AnswersAreCurrent == \A r \in Readers : pc[r] = "answered" => got[r] \in since[r]

\* A deleted policy never comes back, not even by an update that read it before it
\* was deleted (policies.py update_policy).
DeletedStaysDeleted ==
    [][\A p \in Policies : db.policies[p] = Gone => db'.policies[p] = Gone]_vars

\* Once an object stays in the catalog, its tags do not stay flagged as orphaned, also
\* if it was back while a reconcile that had missed it was still under way.
TagsComeBack ==
    \A o \in Objects : <>[](o \in exists) => <>[](\A k \in Keys : db.tags[<<o, k>>] # "orphaned")

=============================================================================
