----------------------------- MODULE MCPlanner -----------------------------
(* Planner on all queries over three tables that take their clauses from a *)
(* small stock, with every mix of inner and left joins.  The name x stands *)
(* unqualified in some: the second and third tables have it, or all do.    *)
(* In the typed queries the first table's key has each type in turn and is *)
(* asked for by literals of all types, one or two at once.                 *)
EXTENDS Planner

Whole1 == NumberOf("int", 2)
Whole2 == NumberOf("int", 4)
Float1 == NumberOf("float", 2)
Half == NumberOf("float", 3)
Yes == NumberOf("bool", 2)
Text1 == TextOf(Whole1)
Literal == {Whole1, Whole2, Float1, Half, Yes, Text1, TextOf(Half), TextOf(Yes), TextOf(Nothing)}

MCRow == [id : Literal, x : {Whole1, Whole2, Null}]

Tables(rows) == {C \in SUBSET rows : \A r, s \in C : r.id = s.id => r = s}
MCContent ==
    {<<a, b, c>> : a \in Tables([id : {Whole1}, x : {Whole1, Whole2}])
                           \cup {{[id |-> k, x |-> Whole1] : k \in K} :
                                   K \in SUBSET (Literal \ {Whole2, TextOf(Half)})},
                   b \in Tables([id : {Whole1, Whole2}, x : {Whole1, Null}]),
                   c \in Tables([id : {Whole1}, x : {Whole1, Whole2}])}

KeyColumn(ty, long) == [ty |-> ty, nullable |-> FALSE, long |-> long]
Plain == KeyColumn("INT", {})
Of(t, name) == [of |-> {t}, name |-> name]
Is(col, value) == [op |-> "is", col |-> col, value |-> value]
Same(a, b) == [op |-> "same", col |-> a, other |-> b]
Never == [op |-> "never"]
Bare(owners) == Is([of |-> owners, name |-> "x"], Whole1)

OnSecond ==
    {{}, {Same(Of(1, "x"), Of(2, "x"))}, {Same(Of(1, "id"), Of(2, "id"))},
     {Is(Of(2, "x"), Whole1)}, {Is(Of(1, "x"), Whole1)},
     {Same(Of(1, "id"), Of(2, "id")), Is(Of(1, "x"), Whole1)}, {Never}}
OnThird ==
    {{}, {Same(Of(2, "x"), Of(3, "x"))}, {Is(Of(1, "id"), Whole1), Same(Of(2, "id"), Of(3, "id"))},
     {Is(Of(2, "x"), Whole1)}}
Where ==
    {{}, {Is(Of(1, "id"), Whole1)}, {Is(Of(1, "id"), Whole1), Is(Of(1, "id"), Whole2)},
     {Is(Of(2, "x"), Null)}, {Is(Of(2, "id"), Whole2), Is(Of(3, "x"), Whole1)},
     {Is(Of(3, "x"), Null)}, {Bare({2, 3})}, {Bare({1, 2, 3})},
     {Same(Of(1, "x"), Of(3, "x"))}, {Never},
     {Same([of |-> {1, 2}, name |-> "x"], Of(2, "id"))}}

Ons(onSecond, onThird) ==
    {[t \in {2, 3} |-> IF t = 2 THEN o ELSE p] : o \in onSecond, p \in onThird}

MCQuery ==
    [kind : [{2, 3} -> {"INNER", "LEFT"}], on : Ons(OnSecond, OnThird), where : Where,
     key : {[t \in Table |-> Plain]}]

TypedQuery ==
    [kind : {[t \in {2, 3} |-> "LEFT"]},
     on : Ons({{Same(Of(1, "id"), Of(2, "id"))}}, {{Same(Of(2, "x"), Of(3, "x"))}}),
     where : {{Is(Of(1, "id"), v), Is(Of(1, "id"), w)} : v, w \in Literal},
     key : {[t \in Table |-> IF t = 1 THEN col ELSE Plain] :
              col \in {KeyColumn(ty, {TextOf(Nothing)}) : ty \in {"INT", "FLOAT", "BOOLEAN", "TEXT"}}}]

AllQueries == MCQuery \cup TypedQuery
=============================================================================
