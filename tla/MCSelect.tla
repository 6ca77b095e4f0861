------------------------------ MODULE MCSelect ------------------------------
(* Select on three families of queries: conditions two operators deep, on  *)
(* single rows; groups, with aggregates and HAVING; and plain rows.        *)
EXTENDS Select

Number == {1, 2, Null}
MCRow == [g : {1, Null}, v : Number]
UpTo(n) == UNION {[1..m -> MCRow] : m \in 0..n}

Lit(v) == [op |-> "literal", value |-> v]
Col(name) == [op |-> "column", name |-> name]
Bin(op, l, r) == [op |-> op, left |-> l, right |-> r]
Un(op, e) == [op |-> op, arg |-> e]
Agg(op, distinct) == [op |-> op, arg |-> Col("v"), distinct |-> distinct]
Count == [op |-> "COUNT(*)"]
Is(is) == [op |-> "truth", is |-> is]
Anything == Is(TRUE)

Bounds(low, high) == [op |-> "BETWEEN", arg |-> Col("v"), low |-> low, high |-> high]
In(members, negated) == [op |-> "IN", arg |-> Col("v"), members |-> members, negated |-> negated]
Exists(members, negated) == [op |-> "EXISTS", members |-> members, negated |-> negated]

Atoms ==
    {Bin(op, Col("v"), Lit(1)) : op \in {"=", "!=", "<", ">"}}
       \cup {Bin("<=", Bin("+", Col("g"), Lit(1)), Col("v")), Bin(">=", Col("v"), Lit(Null)),
             Un("IS NULL", Col("g")), Un("IS NOT NULL", Col("v")), Bounds(Col("g"), Lit(1)),
             Bounds(Lit(1), Lit(1)), In({1}, FALSE), In({1, Null}, TRUE), In({2}, TRUE),
             In({}, TRUE), Exists({1}, FALSE), Exists({}, FALSE), Lit(Null), Is(FALSE)}
Pairs(As, Bs) == {Bin(op, a, b) : op \in {"AND", "OR"}, a \in As, b \in Bs}
Clauses == Atoms \cup {Un("NOT", a) : a \in Atoms}
Deeper == Clauses \cup Pairs(Clauses, Clauses) \cup {Un("NOT", p) : p \in Pairs(Atoms, Atoms)}

Queries(where, group, having, items, distinct, order, offset, limit) ==
    [where : where, group : group, having : having, items : items, distinct : distinct,
     order : order, offset : offset, limit : limit]

By(e, desc) == [by |-> e, desc |-> desc]
First1 == [op |-> "ordinal", value |-> 1]
Second == [op |-> "ordinal", value |-> 2]

Conditions == Queries(Deeper, {<<>>}, {Anything}, {<<Col("v")>>}, {FALSE}, {<<>>}, {0}, {Null})

Havings ==
    {Anything, Bin("<", Agg("SUM", FALSE), Lit(3)), Un("NOT", Bin("=", Agg("MAX", FALSE), Lit(1))),
     Bin("OR", Bin(">", Count, Lit(1)), Bin("=", Col("g"), Lit(1))),
     Un("NOT", Bin("AND", Bin("=", Col("g"), Lit(1)), Bin("<", Agg("MIN", FALSE), Lit(2)))),
     Un("IS NULL", Col("g"))}
Grouping ==
    Queries({Anything}, {<<Col("g")>>, <<Col("v"), Col("g")>>}, Havings,
            {<<Col("g"), Count, Agg("COUNT", TRUE), Agg("SUM", FALSE)>>, <<Agg("MIN", FALSE)>>},
            BOOLEAN, {<<>>, <<By(Agg("MAX", FALSE), TRUE)>>, <<By(First1, TRUE)>>}, {0}, {Null})
Whole ==
    Queries({Anything, Bin("=", Col("v"), Lit(2))}, {<<>>}, {Anything},
            {<<Count, Agg("COUNT", FALSE), Agg("SUM", TRUE), Agg("MIN", FALSE), Agg("MAX", FALSE)>>,
             <<Col("g"), Agg("COUNT", TRUE), Lit(1)>>},
            BOOLEAN, {<<>>}, {0, 1}, {Null})
Terms1 == {By(e, desc) : e \in {Col("g"), Col("v"), First1, Second}, desc \in BOOLEAN}
Plain ==
    Queries({Anything}, {<<>>}, {Anything}, {<<Col("g")>>, <<Col("v"), Col("g")>>}, BOOLEAN,
            {<<>>} \cup {<<t>> : t \in Terms1}
               \cup {<<By(Col("g"), d), By(Col("v"), c)>> : d \in BOOLEAN, c \in BOOLEAN}
               \cup {<<By(Bin("-", Lit(0), Col("v")), FALSE)>>},
            {0, 1}, {Null, 1})

MCQuery == Conditions \cup Grouping \cup Whole \cup Plain
\* three groups, of which two have the same minimum on either side of the third's maximum
ThreeGroups == <<[g |-> 1, v |-> 1], [g |-> 2, v |-> 2], [g |-> Null, v |-> 1], [g |-> Null, v |-> 3]>>
MCInput(q) == IF q \in Grouping THEN UpTo(3) \cup {ThreeGroups}
              ELSE IF q.where \in {Anything, Bin("=", Col("v"), Lit(2))} THEN UpTo(3)
              ELSE {<<r>> : r \in MCRow}
=============================================================================
