-------------------------------- MODULE Lists ---------------------------------
(* Lists without some of their elements, as the code's comprehensions make them. *)
EXTENDS Integers, FiniteSets

\* The elements at some places of a list, in their order: SelectSeq by place.
Sublist(list, places) ==
    LET nth(n) == CHOOSE i \in places : Cardinality({k \in places : k <= i}) = n
    IN  [n \in 1 .. Cardinality(places) |-> list[nth(n)]]
===============================================================================
