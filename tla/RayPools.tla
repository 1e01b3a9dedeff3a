------------------------------- MODULE RayPools -------------------------------
(***************************************************************************)
(* The worker pools of web/ray_engine.py: for each warehouse a list of     *)
(* actors, in a dictionary of the studio's process.                        *)
(*                                                                         *)
(* The endpoints that start, stop, scale and delete a warehouse call       *)
(* scale_warehouse on the event loop; a query's thread calls it too when   *)
(* it finds a pool empty.  Nothing is locked: a scaling holds the list it  *)
(* got, or a new one when there is none, and puts it back at its end.      *)
(***************************************************************************)
EXTENDS Integers, FiniteSets, Sequences

CONSTANTS
    EventLoop, QueryThreads,
    Houses,         \* warehouses
    DefaultHouse,   \* delete_sql_warehouse refuses it
    WorkerCounts,        \* worker counts the endpoints are asked for
    MaxWorkers, MaxLists, MaxHandled   \* bounds: actors named, lists made, requests handled

\* Clamp between 0 and 16; the instance's ceiling stands for 16.
CONSTANT Ceiling

ASSUME RayAssumption ==
    /\ EventLoop \notin QueryThreads
    /\ WorkerCounts \subseteq Int /\ Ceiling \in Nat \ {0}
    /\ MaxWorkers \in Nat /\ MaxLists \in Nat /\ MaxHandled \in Nat

VARIABLES
    raUp,       \* ray.is_initialized()
    raHouses,   \* warehouses that exist
    raPool,     \* actor_pools: the list of each warehouse, 0 for none
    raLists,    \* what is in each list object
    raMade,     \* list objects made
    raIdx,      \* next_worker_idx
    raLive,     \* actors that run: [house, idx]
    raAt,       \* where each thread is
    raDoing,    \* its warehouse, the count it aims at, and what it does when scaled
    raMine,     \* the list in its hands
    raNeed,     \* how many actors its scaling still adds or removes
    raApart,    \* history: lists made while another scaling had a list of its own, or lost with an error
    raLate,     \* history: actors queries and scans have added to a warehouse since its deletion counted
    raHandled

rayVars == <<raUp, raHouses, raPool, raLists, raMade, raIdx, raLive, raAt, raDoing, raMine, raNeed, raApart, raLate, raHandled>>
placeVars == <<raHouses, raPool, raLists, raMade, raApart, raLate>>

Running == {EventLoop} \cup QueryThreads

RayInit ==
    /\ raUp = FALSE /\ raHouses = Houses
    /\ raPool = [h \in Houses |-> 0] /\ raLists = [l \in 0 .. MaxLists |-> <<>>] /\ raMade = 0
    /\ raIdx = 0 /\ raLive = {}
    /\ raAt = [t \in Running |-> "idle"]
    /\ raDoing = [t \in Running |-> [house |-> DefaultHouse, target |-> 0, then |-> "none"]]
    /\ raMine = [t \in Running |-> 0] /\ raNeed = [t \in Running |-> 0]
    /\ raApart = {} /\ raLate = [h \in Houses |-> 0] /\ raHandled = 0

Clamped(n) == IF n < 0 THEN 0 ELSE IF n > Ceiling THEN Ceiling ELSE n

GoesTo(t, place) == raAt' = [raAt EXCEPT ![t] = place]

(* -------------------------------- requests -------------------------------- *)

Handle(t, h, target, first, then) ==
    /\ raAt[t] = "idle" /\ raHandled < MaxHandled
    /\ raHandled' = raHandled + 1
    /\ raDoing' = [raDoing EXCEPT ![t] = [house |-> h, target |-> Clamped(target), then |-> then]]
    /\ GoesTo(t, first)
    /\ UNCHANGED <<raUp, raIdx, raLive, raMine, raNeed>> /\ UNCHANGED placeVars

\* start and scale: the warehouse must exist.
Scale(h, n) == h \in raHouses /\ Handle(EventLoop, h, n, "init", "none")
StopHouse(h) == h \in raHouses /\ Handle(EventLoop, h, 0, "init", "none")

\* The delete endpoint scales to 0 before delete_sql_warehouse looks whether it may.
DeleteUnscaled(h) == Handle(EventLoop, h, 0, "remove", "none")                  \* a mutant
DeleteHouse(h) == Handle(EventLoop, h, 0, "init", "remove")

\* execute_sql in a thread, for a warehouse it looked up before; the distributed scan on the loop.
Query(t, h) == t \in QueryThreads /\ h \in raHouses /\ Handle(t, h, 1, "look", "pick")
Scan(h) == Handle(EventLoop, h, 2, "look", "pick")

\* initialize_ray may fail; the request then fails, a query falls back to the studio's own engine.
Connect(t) ==
    /\ raAt[t] \in {"init", "look"} /\ ~raUp
    /\ \/ raUp' = TRUE /\ UNCHANGED raAt
       \/ UNCHANGED raUp /\ GoesTo(t, IF raDoing[t].then = "remove" THEN "remove" ELSE "idle")
    /\ UNCHANGED <<raIdx, raLive, raDoing, raMine, raNeed, raHandled>> /\ UNCHANGED placeVars

\* actor_pools.get(warehouse_id, []): a query needs no scaling when the list has an actor.
Look(t) ==
    /\ raAt[t] = "look" /\ raUp
    /\ LET l == raPool[raDoing[t].house] IN
        IF l = 0 \/ raLists[l] = <<>> THEN GoesTo(t, "init") /\ UNCHANGED raMine
        ELSE GoesTo(t, "pick") /\ raMine' = [raMine EXCEPT ![t] = l]
    /\ UNCHANGED <<raUp, raIdx, raLive, raDoing, raNeed, raHandled>> /\ UNCHANGED placeVars

(* ----------------------------- scale_warehouse ---------------------------- *)

\* Lists in the hands of other scalings of the warehouse that are not its pool.
Others(t, h) ==
    {raMine[u] : u \in {v \in Running \ {t} : raAt[v] \in {"add", "name", "cut", "put"} /\ raDoing[v].house = h}}
        \ {raPool[h]}

Get(t) ==
    LET h == raDoing[t].house
        l == IF raPool[h] = 0 THEN raMade + 1 ELSE raPool[h]
        n == Len(raLists[l])
        k == raDoing[t].target
    IN  /\ raAt[t] = "init" /\ raUp
        /\ raPool[h] = 0 => raMade < MaxLists
        /\ raMade' = IF raPool[h] = 0 THEN raMade + 1 ELSE raMade
        /\ raMine' = [raMine EXCEPT ![t] = l]
        /\ raNeed' = [raNeed EXCEPT ![t] = IF k > n THEN k - n ELSE n - k]
        /\ GoesTo(t, IF k > n THEN "add" ELSE IF k < n THEN "cut" ELSE "put")
        /\ raApart' = IF raPool[h] = 0 /\ Others(t, h) # {} THEN raApart \cup {l} \cup Others(t, h) ELSE raApart
        /\ raLate' = IF raDoing[t].then = "remove" /\ h \in raHouses THEN [raLate EXCEPT ![h] = 0] ELSE raLate
        /\ UNCHANGED <<raUp, raHouses, raPool, raLists, raIdx, raLive, raDoing, raHandled>>

\* next_worker_idx += 1, and the name that is read from it afterwards
Number(t) ==
    /\ raAt[t] = "add" /\ raNeed[t] > 0 /\ raIdx < MaxWorkers
    /\ raIdx' = raIdx + 1 /\ GoesTo(t, "name")
    /\ UNCHANGED <<raUp, raLive, raDoing, raMine, raNeed, raHandled>> /\ UNCHANGED placeVars

\* An error in the middle: the list is lost unless it is the pool.
Raise(t) ==
    /\ GoesTo(t, IF raDoing[t].then = "remove" THEN "remove" ELSE "idle")
    /\ raApart' = raApart \cup ({raMine[t]} \ {raPool[raDoing[t].house]})
    /\ UNCHANGED <<raUp, raHouses, raPool, raLists, raMade, raIdx, raLive, raDoing, raMine, raNeed, raLate, raHandled>>

\* A name that is taken raises; an actor's creation starts a Ray that was shut down meanwhile, or raises.
Start(t, a) ==
    /\ raUp' = TRUE /\ raLive' = raLive \cup {a}
    /\ raLists' = [raLists EXCEPT ![raMine[t]] = Append(@, a)]
    /\ raNeed' = [raNeed EXCEPT ![t] = @ - 1]
    /\ raLate' = IF raDoing[t].then # "pick" THEN raLate ELSE [raLate EXCEPT ![a.house] = @ + 1]
    /\ GoesTo(t, IF raNeed[t] = 1 THEN "put" ELSE "add")
    /\ UNCHANGED <<raHouses, raPool, raMade, raIdx, raDoing, raMine, raApart, raHandled>>

Spawn(t) ==
    LET a == [house |-> raDoing[t].house, idx |-> raIdx]
    IN  /\ raAt[t] = "name"
        /\ \/ (a \in raLive \/ ~raUp) /\ Raise(t)
           \/ a \notin raLive /\ Start(t, a)

KilledNone(a) == {}                                                        \* a mutant
Killed(a) == {a}

\* pop from the list, then ray.kill; an empty list raises
Cut(t) ==
    LET s == raLists[raMine[t]]
    IN  /\ raAt[t] = "cut"
        /\ IF s = <<>> THEN Raise(t) ELSE
            /\ raLists' = [raLists EXCEPT ![raMine[t]] = SubSeq(s, 1, Len(s) - 1)]
            /\ raLive' = raLive \ Killed(s[Len(s)])
            /\ raNeed' = [raNeed EXCEPT ![t] = @ - 1]
            /\ GoesTo(t, IF raNeed[t] = 1 THEN "put" ELSE "cut")
            /\ UNCHANGED <<raUp, raHouses, raPool, raMade, raIdx, raDoing, raMine, raApart, raLate, raHandled>>

\* actor_pools[warehouse_id] = current_actors; a query gets the pool again.
PutBack(t) ==
    /\ raAt[t] = "put"
    /\ raPool' = [raPool EXCEPT ![raDoing[t].house] = raMine[t]]
    /\ GoesTo(t, IF raDoing[t].then = "none" THEN "idle" ELSE raDoing[t].then)
    /\ UNCHANGED <<raUp, raHouses, raLists, raMade, raIdx, raLive, raDoing, raMine, raNeed, raApart, raLate, raHandled>>

RemoveHouse(t) ==
    /\ raAt[t] = "remove"
    /\ raHouses' = raHouses \ ({raDoing[t].house} \ {DefaultHouse})
    /\ GoesTo(t, "idle")
    /\ UNCHANGED <<raUp, raPool, raLists, raMade, raIdx, raLive, raDoing, raMine, raNeed, raApart, raLate, raHandled>>

\* actors[next_worker_idx % len(actors)], the count and the call: it ends in an answer, or in an error for
\* a list that was emptied or an actor that was killed, and the query runs in the studio instead.
Pick(t) ==
    /\ raAt[t] = "pick"
    /\ \E l \in {raMine[t], raPool[raDoing[t].house]} :
        raIdx' = IF t = EventLoop \/ raLists[l] = <<>> \/ raIdx >= MaxWorkers THEN raIdx ELSE raIdx + 1
    /\ GoesTo(t, "idle")
    /\ UNCHANGED <<raUp, raLive, raDoing, raMine, raNeed, raHandled>> /\ UNCHANGED placeVars

\* stop_ray_cluster_endpoint: every pool is scaled to 0, then Ray is shut down.  The scalings are not
\* taken apart: what a query's thread puts between them is shut down with the rest.
StopRay ==
    /\ raAt[EventLoop] = "idle" /\ raHandled < MaxHandled /\ raHandled' = raHandled + 1
    /\ raLists' = [l \in DOMAIN raLists |-> IF raUp /\ l \in {raPool[h] : h \in Houses} THEN <<>> ELSE raLists[l]]
    /\ raUp' = FALSE /\ raLive' = {}
    /\ UNCHANGED <<raHouses, raPool, raMade, raIdx, raAt, raDoing, raMine, raNeed, raApart, raLate>>

RayNext ==
    \/ \E h \in Houses : \/ \E n \in WorkerCounts : Scale(h, n)
                         \/ StopHouse(h) \/ DeleteHouse(h) \/ Scan(h)
                         \/ \E t \in QueryThreads : Query(t, h)
    \/ \E t \in Running : Connect(t) \/ Look(t) \/ Get(t) \/ Number(t) \/ Spawn(t) \/ Cut(t) \/ PutBack(t) \/ RemoveHouse(t) \/ Pick(t)
    \/ StopRay

RaySpec == RayInit /\ [][RayNext]_rayVars

(* ------------------------- slices of a distributed scan ------------------- *)

\* execute_distributed_delta_scan: files in slices, slice i to actor i % len(actors)
SliceSize(files, workers) ==
    LET w == IF workers = 0 THEN 1 ELSE workers
        s == (files + w - 1) \div w
    IN  IF s = 0 THEN 1 ELSE s
Slice(files, workers, i) ==
    {f \in 0 .. files - 1 : i * SliceSize(files, workers) <= f /\ f < (i + 1) * SliceSize(files, workers)}

(* -------------------------------- properties ------------------------------ *)

InHand(a) == \E t \in Running : raAt[t] \in {"add", "name", "cut", "put"}
                                 /\ \E i \in DOMAIN raLists[raMine[t]] : raLists[raMine[t]][i] = a
InPool(a) == \E i \in DOMAIN raLists[raPool[a.house]] : raLists[raPool[a.house]][i] = a
IsApart(a) == \E l \in raApart : \E i \in DOMAIN raLists[l] : raLists[l][i] = a

\* A worker that runs can be stopped: it is in its warehouse's list or in one a scaling will put there,
\* unless two scalings found no list at the same time or one of them failed with a list of its own.
WorkersAccountedFor == \A a \in raLive : InPool(a) \/ InHand(a) \/ IsApart(a)

\* What still runs for a deleted warehouse is no more than queries and scans have started since its deletion
\* counted the workers, and what is in lists apart.
DeletedAreLate ==
    \A h \in Houses \ raHouses :
        Cardinality({a \in raLive : a.house = h /\ ~IsApart(a)}) <= raLate[h]

\* Of the workers that run none is forgotten, and none but late ones runs for a deleted warehouse.
PoolsKept == WorkersAccountedFor /\ DeletedAreLate
===============================================================================
