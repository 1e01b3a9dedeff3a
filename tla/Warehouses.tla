------------------------------ MODULE Warehouses ------------------------------
(***************************************************************************)
(* SQL warehouses (web/warehouses.py): the list in sql_warehouses.json.    *)
(*                                                                         *)
(* Every operation loads the list, changes it and saves it, and all of     *)
(* them run on the event loop, one after the other.  A save truncates the  *)
(* file first and swallows every error, and a crash can cut it off; a list *)
(* that cannot be read counts as the defaults, which the next save makes   *)
(* permanent.  A list is a set of warehouses here.                         *)
(***************************************************************************)
EXTENDS Integers, FiniteSets

CONSTANTS
    Drawn,          \* ids create_sql_warehouse may draw
    MaxOperations,  \* bound: operations
    MaxCuts         \* bound: saves that are cut off

Starter == "wh_starter"
Seeded  == {Starter, "wh_analytics_pro", "wh_etl_batch"}

ASSUME WarehouseAssumption == Seeded \cap Drawn = {} /\ MaxOperations \in Nat /\ MaxCuts \in Nat

VARIABLES
    whText,    \* the file: "none", "cut" or "whole"
    whList,    \* the warehouses in it
    whChosen,  \* the warehouse a query was given and has still to touch
    whUsed,    \* ids drawn so far
    whOps, whCuts

warehouseVars == <<whText, whList, whChosen, whUsed, whOps, whCuts>>

WarehouseInit ==
    whText = "none" /\ whList = {} /\ whChosen = {} /\ whUsed = {} /\ whOps = 0 /\ whCuts = 0

SeededList == {[id |-> s, default |-> s = Starter, running |-> s # "wh_etl_batch"] : s \in Seeded}

\* load_sql_warehouses; the defaults it saves for want of a file are saved again by the operation.
Loaded  == IF whText = "whole" THEN whList ELSE SeededList
Ids     == {w.id : w \in Loaded}

\* save_sql_warehouses
SaveList(list) ==
    \/ whText' = "whole" /\ whList' = list /\ UNCHANGED whCuts
    \/ whText' = "cut" /\ whList' = {} /\ whCuts < MaxCuts /\ whCuts' = whCuts + 1

Operation == whChosen = {} /\ whOps < MaxOperations /\ whOps' = whOps + 1

CreateWarehouse(s, default) ==
    /\ Operation /\ s \notin whUsed
    /\ whUsed' = whUsed \cup {s}
    /\ LET others == IF default THEN {[w EXCEPT !.default = FALSE] : w \in Loaded} ELSE Loaded
       IN  SaveList(others \cup {[id |-> s, default |-> default, running |-> TRUE]})
    /\ UNCHANGED whChosen

\* The loop over the list makes the warehouse the default and no other; is_default = False is ignored.
UpdateAdds(s) == {[w EXCEPT !.default = (w.id = s \/ w.default)] : w \in Loaded}   \* a mutant
MadeDefault(s) == {[w EXCEPT !.default = (w.id = s)] : w \in Loaded}

UpdateWarehouse(s) ==
    /\ Operation /\ s \in Ids
    /\ SaveList(Loaded) \/ SaveList(MadeDefault(s))
    /\ UNCHANGED <<whChosen, whUsed>>

Switched(s, on) == {IF w.id = s THEN [w EXCEPT !.running = on] ELSE w : w \in Loaded}

StartOrStop(s, on) ==
    /\ Operation /\ s \in Ids
    /\ SaveList(Switched(s, on))
    /\ UNCHANGED <<whChosen, whUsed>>

DeleteWarehouse(s) ==
    /\ Operation
    /\ \E w \in Loaded : w.id = s /\ ~w.default
    /\ SaveList({w \in Loaded : w.id # s})
    /\ UNCHANGED <<whChosen, whUsed>>

\* apply_warehouse_compute: the warehouse that was asked for, or the default one; it is resumed if it is stopped.
ApplyCompute(asked) ==
    /\ Operation
    /\ \E w \in Loaded :
           /\ IF asked \in Ids THEN w.id = asked ELSE w.default
           /\ whChosen' = {w.id}
           /\ IF w.running THEN UNCHANGED <<whText, whList, whCuts>> ELSE SaveList(Switched(w.id, TRUE))
    /\ UNCHANGED whUsed

\* touch_sql_warehouse loads the list again; the count it adds to is left out.
Touch ==
    /\ whChosen # {} /\ whChosen' = {}
    /\ IF whChosen \subseteq Ids THEN SaveList(Loaded) ELSE UNCHANGED <<whText, whList, whCuts>>
    /\ UNCHANGED <<whUsed, whOps>>

WarehouseNext ==
    \/ \E s \in Drawn, default \in BOOLEAN : CreateWarehouse(s, default)
    \/ \E s \in Seeded \cup Drawn :
           \/ UpdateWarehouse(s) \/ DeleteWarehouse(s) \/ ApplyCompute(s)
           \/ \E on \in BOOLEAN : StartOrStop(s, on)
    \/ Touch

WarehouseSpec == WarehouseInit /\ [][WarehouseNext]_warehouseVars
-------------------------------------------------------------------------------
\* Whatever is created, made the default, deleted or lost with a broken file: every list an operation
\* loads has exactly one default warehouse, so a query without a warehouse always gets one, and
\* always the same one.
OneDefault == \E w \in Loaded : w.default /\ \A v \in Loaded : v.default => v = w
===============================================================================
