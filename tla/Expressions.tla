---------------------------- MODULE Expressions ----------------------------
(***************************************************************************)
(* The two evaluators of SQL conditions: evaluate (engine/expressions.py), *)
(* of a row, and the one of HAVING (engine/executor.py), of a group.       *)
(*                                                                         *)
(* An expression is a record with its operator in the field op; a row is a *)
(* function from column names to numbers or Null, a literal a number, NULL *)
(* or, with the operator "truth", TRUE or FALSE.  Text is left out, and   *)
(* with it LIKE, UPPER and LOWER, and so is what raises: a type mismatch,  *)
(* a division by zero.  A subquery is the set of the values it returns.    *)
(* The operators are recursive: this module is for TLC's runs alone.       *)
(***************************************************************************)
EXTENDS Integers, Sequences, FiniteSets, FiniteSetsExt, SequencesExt

CONSTANTS
    Column,     \* column names
    Null

Comparison == {"=", "!=", "<", "<=", ">", ">="}
Aggregate == {"COUNT(*)", "COUNT", "SUM", "MIN", "MAX"}
BinaryOps == Comparison \cup {"AND", "OR", "+", "-"}

Truthy(v) == v = TRUE

\* Mutant of Connected: NULL decides before the other side is looked at.
ConnectedNullFirst(op, l, r) ==
    IF Null \in {l, r} THEN Null ELSE IF op = "AND" THEN l /\ r ELSE l \/ r

\* AND and OR
Connected(op, l, r) ==
    LET decides == op = "OR"
    IN  CASE decides \in {l, r} -> decides
          [] Null \in {l, r} -> Null
          [] OTHER -> ~decides

Compared(op, l, r) ==
    CASE op = "=" -> l = r [] op = "!=" -> l # r
      [] op = "<" -> l < r [] op = "<=" -> l <= r
      [] op = ">" -> l > r [] op = ">=" -> l >= r

Applied(op, l, r) ==
    CASE op \in {"AND", "OR"} -> Connected(op, l, r)
      [] Null \in {l, r} -> Null
      [] op = "+" -> l + r
      [] op = "-" -> l - r
      [] OTHER -> Compared(op, l, r)

Negated(op, v) == IF v = Null THEN Null ELSE IF op = "NOT" THEN ~v ELSE -v

\* IN and EXISTS with a subquery
Member(v, members, negated) ==
    IF v = Null THEN Null ELSE (v \in members) # negated

Between(v, low, high) ==
    IF Null \in {v, low, high} THEN Null ELSE low <= v /\ v <= high

RECURSIVE Evaluate(_, _)
Evaluate(e, row) ==
    CASE e.op = "literal" -> e.value
      [] e.op = "truth" -> e.is
      [] e.op = "column" -> row[e.name]
      [] e.op \in {"NOT", "negative"} -> Negated(e.op, Evaluate(e.arg, row))
      [] e.op \in {"IS NULL", "IS NOT NULL"} ->
            (Evaluate(e.arg, row) = Null) = (e.op = "IS NULL")
      [] e.op = "BETWEEN" ->
            Between(Evaluate(e.arg, row), Evaluate(e.low, row), Evaluate(e.high, row))
      [] e.op = "IN" -> Member(Evaluate(e.arg, row), e.members, e.negated)
      [] e.op = "EXISTS" -> (e.members # {}) # e.negated
      [] OTHER -> Applied(e.op, Evaluate(e.left, row), Evaluate(e.right, row))

-----------------------------------------------------------------------------
(* Groups: sequences of rows.                                              *)

\* the columns of a group without rows
NullRow == [name \in Column |-> Null]
First(group) == IF group = <<>> THEN NullRow ELSE group[1]

\* dict.fromkeys: each value once, in the order of their first occurrence
Once(s) == FoldLeft(LAMBDA seen, v : IF Contains(seen, v) THEN seen ELSE Append(seen, v), <<>>, s)

\* the values an aggregate is taken of
Argued(e, group) ==
    LET values == SelectSeq([i \in DOMAIN group |-> Evaluate(e.arg, group[i])],
                            LAMBDA v : v # Null)
    IN  IF e.distinct THEN Once(values) ELSE values

AggValue(e, group) ==
    IF e.op = "COUNT(*)" THEN Len(group)
    ELSE LET values == Argued(e, group)
         IN  CASE e.op = "COUNT" -> Len(values)
               [] values = <<>> -> Null
               [] e.op = "SUM" -> FoldLeft(+, 0, values)
               [] e.op = "MIN" -> Min(ToSet(values))
               [] e.op = "MAX" -> Max(ToSet(values))

\* _eval_having; IS NULL and IS NOT NULL come out as their operand, and BETWEEN, left
\* out here, raises
RECURSIVE HavingValue(_, _)
HavingValue(e, group) ==
    CASE e.op \in Aggregate -> AggValue(e, group)
      [] e.op \in {"NOT", "negative"} -> Negated(e.op, HavingValue(e.arg, group))
      [] e.op \in {"IS NULL", "IS NOT NULL"} -> HavingValue(e.arg, group)
      [] e.op \in BinaryOps ->
            Applied(e.op, HavingValue(e.left, group), HavingValue(e.right, group))
      [] OTHER -> Evaluate(e, First(group))

-----------------------------------------------------------------------------
(* What SQL says: the truth of a condition is 2, 1 (unknown) or 0.  Rows   *)
(* are a set of places in a sequence, those of a group or a single one.    *)

Sum(l, r, sign) == IF Null \in {l, r} THEN Null ELSE l + sign * r

\* an aggregate over the numbers at(i) that are not NULL
Reduced(e, present, at(_)) ==
    LET values == {at(i) : i \in present}
    IN  CASE e.op = "COUNT" -> Cardinality(IF e.distinct THEN values ELSE present)
          [] present = {} -> Null
          [] e.op = "SUM" -> IF e.distinct THEN SumSet(values) ELSE MapThenSumSet(at, present)
          [] e.op = "MIN" -> CHOOSE v \in values : \A w \in values : v <= w
          [] e.op = "MAX" -> CHOOSE v \in values : \A w \in values : v >= w

\* an operand: a number or Null
RECURSIVE Amount(_, _, _)
Amount(e, rows, all) ==
    CASE e.op = "literal" -> e.value
      [] e.op = "column" -> IF rows = {} THEN Null ELSE all[Min(rows)][e.name]
      [] e.op = "COUNT(*)" -> Cardinality(rows)
      [] e.op \in Aggregate \ {"COUNT(*)"} ->
            LET at == [i \in rows |-> Amount(e.arg, {i}, all)]
            IN  Reduced(e, {i \in rows : at[i] # Null}, LAMBDA i : at[i])
      [] OTHER -> Sum(Amount(e.left, rows, all), Amount(e.right, rows, all),
                      IF e.op = "+" THEN 1 ELSE -1)

Certain(p) == IF p THEN 2 ELSE 0
Related(op, l, r) ==
    LET equal == IF Null \in {l, r} THEN 1 ELSE Certain(l = r)
        below == IF Null \in {l, r} THEN 1 ELSE Certain(l < r)
        above == IF Null \in {l, r} THEN 1 ELSE Certain(r < l)
    IN  CASE op = "=" -> equal [] op = "!=" -> 2 - equal
          [] op = "<" -> below [] op = ">=" -> 2 - below
          [] op = ">" -> above [] op = "<=" -> 2 - above

Lower(a, b) == IF a < b THEN a ELSE b
Joint(op, a, b) == IF op = "AND" THEN Lower(a, b) ELSE 2 - Lower(2 - a, 2 - b)
Among(v, members, negated) ==
    LET found == Max({0} \cup {Related("=", v, m) : m \in members})
    IN  IF negated THEN 2 - found ELSE found

RECURSIVE Truth(_, _, _)
Truth(e, rows, all) ==
    CASE e.op = "literal" -> 1
      [] e.op = "truth" -> Certain(e.is)
      [] e.op = "NOT" -> 2 - Truth(e.arg, rows, all)
      [] e.op \in {"AND", "OR"} ->
            Joint(e.op, Truth(e.left, rows, all), Truth(e.right, rows, all))
      [] e.op \in Comparison ->
            Related(e.op, Amount(e.left, rows, all), Amount(e.right, rows, all))
      [] e.op \in {"IS NULL", "IS NOT NULL"} ->
            Certain((Amount(e.arg, rows, all) = Null) = (e.op = "IS NULL"))
      [] e.op = "BETWEEN" ->
            LET v == Amount(e.arg, rows, all)
            IN  Lower(Related(">=", v, Amount(e.low, rows, all)),
                      Related("<=", v, Amount(e.high, rows, all)))
      [] e.op = "IN" -> Among(Amount(e.arg, rows, all), e.members, e.negated)
      [] e.op = "EXISTS" -> Certain((e.members = {}) = e.negated)

\* a condition's value in the code, on the same scale
Scaled(v) == IF v = Null THEN 1 ELSE Certain(v)
=============================================================================
