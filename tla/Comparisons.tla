----------------------------- MODULE Comparisons -----------------------------
(***************************************************************************)
(* Comparisons as they stand in configs: "> 3", "<= 25%", "> 2 days".      *)
(***************************************************************************)
EXTENDS Integers

CONSTANT Unset  \* undefined, null: a model value

Operators == {">", ">=", "<", "<="}

\* A parsed comparison: operator, value, and whether the value is a percentage.
GenericComparison == [op : Operators, value : Int, percent : BOOLEAN]

\* comparisonTextOp
Compare(v, op, bound) ==
    CASE op = ">" -> v > bound
      [] op = ">=" -> v >= bound
      [] op = "<" -> v < bound
      [] op = "<=" -> v <= bound

\* part / whole compared with a percentage.  Nothing of nothing is not a
\* number, which no comparison accepts; more of nothing is infinite.
ComparePercent(part, whole, op, bound) ==
    IF whole = 0 THEN part # 0 /\ op \in {">", ">="}
    ELSE Compare(part * 100, op, bound * whole)

\* part / whole where the code avoids the division by nothing.
CompareShare(part, whole, op, bound) ==
    IF whole = 0 THEN Compare(0, op, bound) ELSE ComparePercent(part, whole, op, bound)

\* compareDurationValue: an age compared with a duration is a date compared,
\* the other way round, with the present less the duration.
CompareDuration(date, op, duration, now) ==
    LET then == now - duration
    IN CASE op = ">" -> date < then
         [] op = ">=" -> date <= then
         [] op = "<" -> date > then
         [] op = "<=" -> date >= then
=============================================================================
