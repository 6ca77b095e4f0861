------------------------------- MODULE Values -------------------------------
(***************************************************************************)
(* The values of columns (storage/schema.py) and Python's = on them.       *)
(*                                                                         *)
(* A number carries its amount in halves, enough to have some that are not *)
(* whole, a bool 0 or 2.  A text is known by what it spells, a number, a   *)
(* bool or nothing; it spells what str() writes.  NaN is left out, and so  *)
(* is the loss of digits in large floats.                                  *)
(***************************************************************************)
EXTENDS Integers

CONSTANTS
    Null,
    Bad         \* the TypeConversionError of a value that a column cannot take

Numeric == {"int", "float", "bool"}
NumberOf(ty, halves) == [ty |-> ty, halves |-> halves]
TextOf(spelled) == [ty |-> "str", spelled |-> spelled]
Nothing == [ty |-> "word"]

Whole(n) == n % 2 = 0
Number ==
    {v \in [ty : Numeric, halves : Int] :
       /\ v.ty # "float" => Whole(v.halves)
       /\ v.ty = "bool" => v.halves \in {0, 2}}
Text == [ty : {"str"}, spelled : Number \cup {Nothing}]
Value == Number \cup Text

ASSUME ValueAssumption == Null \notin Value /\ Bad \notin Value /\ Null # Bad

IsNumber(v) == v.ty \in Numeric

\* Python's ==: a bool is a number, a text is none
Equal(v, w) ==
    IF IsNumber(v) /\ IsNumber(w) THEN v.halves = w.halves ELSE v = w

\* < raises a TypeError for others
Comparable(v, w) == IsNumber(v) <=> IsNumber(w)

\* columns: their type, and for a VARCHAR(n), a TEXT here, the texts of more than n characters
Column == [ty : {"INT", "FLOAT", "BOOLEAN", "TEXT"}, nullable : BOOLEAN, long : SUBSET Text]

\* what a text is read as where a number is wanted
Spelled(v) == IF v.ty = "str" THEN v.spelled ELSE v

AsInt(v) ==
    LET n == Spelled(v)
    IN  IF \/ n.ty = "int"
           \/ v.ty = "bool"
           \/ v.ty = "float" /\ Whole(v.halves)
        THEN NumberOf("int", n.halves) ELSE Bad

AsFloat(v) ==
    LET n == Spelled(v)
    IN  IF n.ty \in {"int", "float"} THEN NumberOf("float", n.halves) ELSE Bad

AsBool(v) ==
    LET n == Spelled(v)
    IN  IF n.ty = "bool" \/ (n.ty = "int" /\ n.halves \in {0, 2})
        THEN NumberOf("bool", n.halves) ELSE Bad

AsText(v) == IF v.ty = "str" THEN v ELSE TextOf(v)

As(ty, v) ==
    IF ty = "INT" THEN AsInt(v)
    ELSE IF ty = "FLOAT" THEN AsFloat(v)
    ELSE IF ty = "BOOLEAN" THEN AsBool(v) ELSE AsText(v)

\* convert_value
Converted(col, v) ==
    IF v = Null THEN IF col.nullable THEN Null ELSE Bad
    ELSE IF As(col.ty, v) \in col.long THEN Bad ELSE As(col.ty, v)
=============================================================================
