------------------------------- MODULE MCAlerts -------------------------------
(* An instance of Alerts for TLC. *)
EXTENDS Alerts

Number(n, t) == [numeric |-> TRUE, number |-> n, text |-> t, folded |-> t]
Text(t, f)   == [numeric |-> FALSE, number |-> 0, text |-> t, folded |-> f]

\* 9 is less than 10, and "10" comes before "9".  "Low" and "low" differ in case only.
Ten  == Number(10, 1)
Nine == Number(9, 2)
Low  == Text(3, 4)
low  == Text(4, 4)

MoreThanNine == [op |-> ">", threshold |-> Nine]
OneDef       == {MoreThanNine}
TwoValues    == {Ten, Null}
NoDefaults   == [a \in Alerts |-> Unborn]
OneEach      == [e \in Events |-> 1]

\* Complementary operators never agree on a value, and NULL breaches no comparison.
Is(x, op, y) == Breached(x, [op |-> op, threshold |-> y])
ASSUME ConditionsAreExclusive ==
    \A y \in {Ten, Nine, Low, low} :
        /\ \A x \in {Ten, Nine, Low, low} : /\ Is(x, ">", y) # Is(x, "<=", y)
                                           /\ Is(x, "<", y) # Is(x, ">=", y)
                                           /\ Is(x, "=", y) # Is(x, "!=", y)
        /\ \A op \in {">", ">=", "<", "<=", "=", "!=", "is_not_null"} : ~Is(Null, op, y)
=============================================================================
