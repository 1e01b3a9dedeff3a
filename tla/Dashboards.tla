------------------------------ MODULE Dashboards ------------------------------
(***************************************************************************)
(* Widget queries and their result cache (execute_widget_query and         *)
(* QUERY_CACHE in web/dashboards.py).                                      *)
(*                                                                         *)
(* A query is governed for its user, looked up under the text of the query *)
(* and a fingerprint of the masks and row filters it was given, run if it  *)
(* is not found, and stored.  The event loop does this for viewers of      *)
(* dashboards, threads of the export scheduler for schedules, all on one   *)
(* dictionary without a lock.                                              *)
(*                                                                         *)
(* What governance decides for a user is external here (see Governance): a *)
(* rule has a part the fingerprint is made of (policies, mask types, row   *)
(* predicates) and the expression of a custom mask.                        *)
(***************************************************************************)
EXTENDS Integers, Sequences, FiniteSets, SequencesExt

CONSTANTS
    Queries,       \* query texts with their parameters
    Users,
    Exporters,     \* threads of the export scheduler
    Viewer,        \* the event loop
    MaxCacheSize,
    MaxCalls,      \* bound: queries
    MaxChanges     \* bound: changes of policies

ASSUME DashboardAssumption ==
    /\ Viewer \notin Exporters /\ IsFiniteSet(Exporters)
    /\ MaxCacheSize \in Nat \ {0} /\ MaxCalls \in Nat /\ MaxChanges \in Nat

Callers == Exporters \cup {Viewer}
NoRule  == [masks |-> "none", expr |-> ""]
Rules   == {NoRule, [masks |-> "blocked", expr |-> ""]} \cup [masks : {"custom"}, expr : {"old", "new"}]

VARIABLES
    dbRules,     \* user -> rule
    dbCache,     \* QUERY_CACHE, oldest timestamp first: key, the rule the result was computed under, within its ttl
    dbStep, dbQuery, dbRule, dbVictim,   \* per caller
    dbHit,       \* the last answer from the cache: the rule its caller was given, the rule of the result
    dbCalls, dbChanges

dashboardVars == <<dbRules, dbCache, dbStep, dbQuery, dbRule, dbVictim, dbHit, dbCalls, dbChanges>>

DashboardInit ==
    /\ dbRules \in [Users -> Rules]
    /\ dbCache = <<>>
    /\ dbStep = [c \in Callers |-> "idle"]
    /\ dbQuery = [c \in Callers |-> ""] /\ dbRule = [c \in Callers |-> NoRule]
    /\ dbVictim = [c \in Callers |-> <<>>]
    /\ dbHit = [asked |-> NoRule, given |-> NoRule] /\ dbCalls = 0 /\ dbChanges = 0

\* gateway.fingerprint: the ids and types of the masks and the predicates of the row filters.
Fingerprint(rule) == rule.masks

CacheKeyOfQuery(c) == <<dbQuery[c]>>   \* a mutant: the masks are forgotten
CacheKey(c) == <<dbQuery[c], Fingerprint(dbRule[c])>>

Cached(key)   == \E i \in DOMAIN dbCache : dbCache[i].key = key
Place(key)    == CHOOSE i \in DOMAIN dbCache : dbCache[i].key = key
EntryOf(key)  == dbCache[Place(key)]
Dropped(key)  == IF Cached(key) THEN RemoveAt(dbCache, Place(key)) ELSE dbCache

Goto(c, step) == dbStep' = [dbStep EXCEPT ![c] = step]
Request       == <<dbQuery, dbRule>>
World         == <<dbRules, dbCalls, dbChanges>>

Govern(c, u, q) ==
    /\ dbStep[c] = "idle" /\ dbCalls < MaxCalls
    /\ dbCalls' = dbCalls + 1
    /\ IF dbRules[u].masks = "blocked" THEN UNCHANGED <<dbStep, Request>>
       ELSE /\ Goto(c, "lookup")
            /\ dbQuery' = [dbQuery EXCEPT ![c] = q]
            /\ dbRule' = [dbRule EXCEPT ![c] = dbRules[u]]
    /\ UNCHANGED <<dbRules, dbCache, dbVictim, dbHit, dbChanges>>

\* get_cached_result: if cache_key in QUERY_CACHE
Lookup(c) ==
    /\ dbStep[c] = "lookup"
    /\ Goto(c, IF Cached(CacheKey(c)) THEN "entry" ELSE "query")
    /\ UNCHANGED <<dbCache, Request, dbVictim, dbHit, World>>

\* entry = QUERY_CACHE[cache_key]; by now the entry may be gone, and the KeyError ends the request.
ReadEntry(c) ==
    /\ dbStep[c] = "entry"
    /\ IF Cached(CacheKey(c)) /\ ~EntryOf(CacheKey(c)).fresh
       THEN Goto(c, "expired") /\ UNCHANGED dbHit
       ELSE /\ Goto(c, "idle")
            /\ dbHit' = IF Cached(CacheKey(c))
                         THEN [asked |-> dbRule[c], given |-> EntryOf(CacheKey(c)).rule] ELSE dbHit
    /\ UNCHANGED <<dbCache, Request, dbVictim, World>>

DropExpired(c) ==
    /\ dbStep[c] = "expired"
    /\ dbCache' = Dropped(CacheKey(c))
    /\ Goto(c, IF Cached(CacheKey(c)) THEN "query" ELSE "idle")
    /\ UNCHANGED <<Request, dbVictim, dbHit, World>>

RunQuery(c) ==
    /\ dbStep[c] = "query"
    /\ \E step \in {"room", "idle"} : Goto(c, step)
    /\ UNCHANGED <<dbCache, Request, dbVictim, dbHit, World>>

RoomTooLate(c) ==   \* a mutant: one entry too many is let in
    /\ dbStep[c] = "room"
    /\ IF Len(dbCache) > MaxCacheSize
       THEN Goto(c, "evict") /\ dbVictim' = [dbVictim EXCEPT ![c] = dbCache[1].key]
       ELSE Goto(c, "store") /\ UNCHANGED dbVictim
    /\ UNCHANGED <<dbCache, Request, dbHit, World>>

\* cache_result: at its limit the cache gives up the oldest entry first.
Room(c) ==
    /\ dbStep[c] = "room"
    /\ IF Len(dbCache) >= MaxCacheSize
       THEN Goto(c, "evict") /\ dbVictim' = [dbVictim EXCEPT ![c] = dbCache[1].key]
       ELSE Goto(c, "store") /\ UNCHANGED dbVictim
    /\ UNCHANGED <<dbCache, Request, dbHit, World>>

\* The search for the oldest entry (min over a dictionary others change) or the deletion may raise: the
\* query is then reported as failed and its result not stored.
Evict(c) ==
    /\ dbStep[c] = "evict"
    /\ dbVictim' = [dbVictim EXCEPT ![c] = <<>>]
    /\ \/ /\ Cached(dbVictim[c])
          /\ dbCache' = Dropped(dbVictim[c])
          /\ Goto(c, "store")
       \/ /\ ~Cached(dbVictim[c]) \/ \E d \in Callers \ {c} : dbStep[d] # "idle"
          /\ Goto(c, "idle")
          /\ UNCHANGED dbCache
    /\ UNCHANGED <<Request, dbHit, World>>

Store(c) ==
    /\ dbStep[c] = "store"
    /\ dbCache' = Append(Dropped(CacheKey(c)), [key |-> CacheKey(c), rule |-> dbRule[c], fresh |-> TRUE])
    /\ Goto(c, "idle")
    /\ UNCHANGED <<Request, dbVictim, dbHit, World>>

\* CACHE_TTL_SECONDS pass for the oldest entry that is still fresh.
Age ==
    /\ \E i \in DOMAIN dbCache :
           /\ dbCache[i].fresh /\ \A k \in 1..i - 1 : ~dbCache[k].fresh
           /\ dbCache' = [dbCache EXCEPT ![i].fresh = FALSE]
    /\ UNCHANGED <<dbStep, Request, dbVictim, dbHit, World>>

\* POST /api/dashboards/cache/clear, on the event loop.
ClearCache ==
    /\ dbStep[Viewer] = "idle" /\ dbCache # <<>>
    /\ dbCache' = <<>>
    /\ UNCHANGED <<dbStep, Request, dbVictim, dbHit, World>>

\* A policy that applies to a user is created, changed, disabled.
ChangePolicy(u) ==
    /\ dbChanges < MaxChanges
    /\ dbChanges' = dbChanges + 1
    /\ \E rule \in Rules : dbRules' = [dbRules EXCEPT ![u] = rule]
    /\ UNCHANGED <<dbCache, dbStep, Request, dbVictim, dbHit, dbCalls>>

DashboardNext ==
    \/ \E c \in Callers :
           \/ \E u \in Users, q \in Queries : Govern(c, u, q)
           \/ Lookup(c) \/ ReadEntry(c) \/ DropExpired(c) \/ RunQuery(c) \/ Room(c) \/ Evict(c) \/ Store(c)
    \/ Age \/ ClearCache \/ \E u \in Users : ChangePolicy(u)

DashboardSpec == DashboardInit /\ [][DashboardNext]_dashboardVars
-------------------------------------------------------------------------------
\* An answer from the cache was computed under the policies, mask types and row predicates its caller was
\* given, whoever computed it and whatever changed in between (execute_widget_query's docstring).
HitsMatchPolicies == Fingerprint(dbHit.given) = Fingerprint(dbHit.asked)

\* The check of the size and the insertion are not one step, so callers that overlap overshoot the limit,
\* but never by more than one entry for each exporting thread, however long they go on.
Overshoot ==
    Len(dbCache) + Cardinality({c \in Callers : dbStep[c] = "store"}) <= MaxCacheSize + Cardinality(Exporters)

\* The cache under callers that overlap: its answers fit their caller, and its size stays bounded.
CacheKept == HitsMatchPolicies /\ Overshoot

\* "results are only shareable between equal mask/filter sets" (governance/gateway.py:9): the expression of
\* a custom mask is part of the mask.
SharedOnlyUnderEqualMasks == dbHit.given = dbHit.asked
===============================================================================
