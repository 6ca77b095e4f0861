------------------------------- MODULE Select -------------------------------
(***************************************************************************)
(* The rest of a SELECT after its joins (engine/executor.py): the filter,  *)
(* groups with their aggregates and HAVING, the projection, DISTINCT,      *)
(* ORDER BY, OFFSET and LIMIT, next to what the query means.               *)
(*                                                                         *)
(* The statement runs alone on the rows its snapshot shows: one step is    *)
(* one stage of _select_from, in its order.                                *)
(***************************************************************************)
EXTENDS Expressions

CONSTANTS
    Query,      \* queries: records of the fields of ast.SelectStmt (see Aggregates, Resolved)
    Input(_),   \* the sequences of joined rows a query is run on
    Avoided     \* situations that are kept out (see Sound)

ASSUME AvoidedAssumption ==
    Avoided \subseteq {"IS-NULL-in-HAVING", "NULL-as-a-bound-of-BETWEEN", "NULL-among-members",
                       "NULL-in-no-members", "ordinal-beyond-the-columns",
                       "literal-beside-aggregates-of-nothing",
                       "groups-of-DISTINCT-ordered-by-what-it-drops"}

VARIABLES
    query,
    input,      \* the joined rows
    rows,       \* those of them that WHERE leaves
    groups,     \* the groups by key, in the order of their first rows
    out,        \* the projected rows, each with its source values for ORDER BY
    stage

vars == <<query, input, rows, groups, out, stage>>

-----------------------------------------------------------------------------
(* Aggregate queries.                                                      *)

IsAggregate(e) == e.op \in Aggregate

\* plan_select: has_aggregates; there is no HAVING without GROUP BY
Aggregates ==
    query.group # <<>> \/ \E i \in DOMAIN query.items : IsAggregate(query.items[i])

KeyOf(row) == [i \in DOMAIN query.group |-> Evaluate(query.group[i], row)]

\* Mutant of AddTo: a row whose key is NULL is in no group.
AddToUnlessNull(gs, row) ==
    LET key == KeyOf(row)
        old == {i \in DOMAIN gs : gs[i].key = key}
    IN  IF Null \in Range(key) THEN gs
        ELSE IF old = {} THEN Append(gs, [key |-> key, rows |-> <<row>>])
        ELSE [i \in DOMAIN gs |-> IF i \in old THEN [gs[i] EXCEPT !.rows = Append(@, row)] ELSE gs[i]]

\* a row joins its group, or begins it
AddTo(gs, row) ==
    LET key == KeyOf(row)
        old == {i \in DOMAIN gs : gs[i].key = key}
    IN  IF old = {} THEN Append(gs, [key |-> key, rows |-> <<row>>])
        ELSE [i \in DOMAIN gs |-> IF i \in old THEN [gs[i] EXCEPT !.rows = Append(@, row)] ELSE gs[i]]

\* Mutant of Grouped: a query without rows has one group, with GROUP BY too.
GroupedAlways ==
    IF query.group = <<>> \/ rows = <<>>
      THEN <<[key |-> [i \in DOMAIN query.group |-> Null], rows |-> rows]>>
    ELSE FoldLeft(AddTo, <<>>, rows)

\* without GROUP BY there is one group, be it empty
Grouped ==
    IF query.group = <<>> THEN <<[key |-> <<>>, rows |-> rows]>> ELSE FoldLeft(AddTo, <<>>, rows)

\* a value for a group: an aggregate, a part of the key, or a value of the first row
GroupValue(e, g) ==
    LET parts == {i \in DOMAIN query.group : query.group[i] = e}
    IN  CASE IsAggregate(e) -> AggValue(e, g.rows)
          [] ~IsAggregate(e) /\ parts # {} -> g.key[Min(parts)]
          [] OTHER -> Evaluate(e, First(g.rows))

\* _project_one_agg: beside aggregates of no rows everything else is NULL
Projected(e, g) ==
    IF ~IsAggregate(e) /\ query.group = <<>> /\ g.rows = <<>> THEN Null ELSE GroupValue(e, g)

Passes(g) == Truthy(HavingValue(query.having, g.rows))

-----------------------------------------------------------------------------
(* ORDER BY.                                                               *)

Terms == DOMAIN query.order
SourceTerm(t) == query.order[t].by.op # "ordinal"

\* what a term is looked up as before the projection; None for an ordinal
Sources(ValueOf(_)) ==
    [t \in Terms |-> IF SourceTerm(t) THEN ValueOf(query.order[t].by) ELSE Null]

\* a term's value: by ordinal (0 is Python's index -1, the last column), by the name of
\* an output column, or from the source
Resolved(t, o) ==
    LET by == query.order[t].by
        at == IF by.value = 0 THEN Len(o.vals) ELSE by.value
        named == {i \in DOMAIN query.items : query.items[i] = by /\ by.op = "column"}
    IN  IF ~SourceTerm(t)
          THEN IF at \in DOMAIN o.vals THEN o.vals[at] ELSE Null
        ELSE IF named # {} THEN o.vals[Min(named)]
        ELSE o.source[t]

\* Mutant of NullRank: NULL comes last whatever the direction.
NullRankAsc(v, desc) == IF v = Null THEN 1 ELSE 0

\* _OrderKey: the rank of NULL, then _Cmp
NullRank(v, desc) == IF (v = Null) = desc THEN 0 ELSE 1

SameKey(v, w) == (v = Null) = (w = Null) /\ (Null \in {v, w} \/ v = w)
KeyBelow(v, w, desc) ==
    \/ NullRank(v, desc) < NullRank(w, desc)
    \/ Null \notin {v, w} /\ (IF desc THEN v > w ELSE v < w)

\* tuples of keys: the first that differs decides
Below(o, p) ==
    \E t \in Terms :
       /\ KeyBelow(Resolved(t, o), Resolved(t, p), query.order[t].desc)
       /\ \A u \in 1..(t - 1) : SameKey(Resolved(u, o), Resolved(u, p))

\* sorted, a stable sort
Sorted(os) ==
    LET order == SetToSortSeq(DOMAIN os, LAMBDA i, j : Below(os[i], os[j])
                                            \/ (~Below(os[j], os[i]) /\ i < j))
    IN  [n \in DOMAIN os |-> os[order[n]]]

\* _distinct_pairs, _distinct: the first of equal rows stays, with its source values
Distinct(os) ==
    IF ~query.distinct THEN os
    ELSE FoldLeft(LAMBDA seen, o : IF \E i \in DOMAIN seen : seen[i].vals = o.vals
                                     THEN seen ELSE Append(seen, o), <<>>, os)

\* Mutant of Page: LIMIT counts from the first row.
PageFromStart(os) ==
    IF query.limit = Null THEN SubSeq(os, query.offset + 1, Len(os))
    ELSE SubSeq(os, query.offset + 1, Lower(query.limit, Len(os)))

\* OFFSET, then LIMIT
Page(os) ==
    LET rest == SubSeq(os, query.offset + 1, Len(os))
    IN  IF query.limit = Null THEN rest ELSE SubSeq(rest, 1, Lower(query.limit, Len(rest)))

-----------------------------------------------------------------------------
(* Where the answer is known to be another than SQL's, or SQL has none.     *)

RECURSIVE Parts(_)
Parts(e) ==
    {e} \cup UNION {Parts(e[field]) : field \in {"arg", "left", "right"} \cap DOMAIN e}

Sound(q, in) ==
    LET KeptOut(situation, Occurs) == situation \in Avoided => ~Occurs
        of(op) == {e \in Parts(q.where) : e.op = op}
        Null_at(e) == \E i \in DOMAIN in : Evaluate(e, in[i]) = Null
    IN  /\ KeptOut("IS-NULL-in-HAVING",
                   \E e \in Parts(q.having) : e.op \in {"IS NULL", "IS NOT NULL"})
        /\ KeptOut("NULL-as-a-bound-of-BETWEEN",
                   \E e \in of("BETWEEN") : Null_at(e.low) \/ Null_at(e.high))
        /\ KeptOut("NULL-among-members", \E e \in of("IN") : Null \in e.members)
        /\ KeptOut("NULL-in-no-members",
                   \E e \in of("IN") : e.members = {} /\ Null_at(e.arg))
        /\ KeptOut("ordinal-beyond-the-columns",
                   \E t \in DOMAIN q.order : q.order[t].by.op = "ordinal"
                                             /\ q.order[t].by.value \notin DOMAIN q.items)
        /\ KeptOut("literal-beside-aggregates-of-nothing",
                   /\ Aggregates /\ q.group = <<>>
                   /\ \E e \in Range(q.items) : e.op = "literal"
                   /\ \A i \in DOMAIN in : ~Truthy(Evaluate(q.where, in[i])))
        /\ KeptOut("groups-of-DISTINCT-ordered-by-what-it-drops",
                   /\ Aggregates /\ q.distinct
                   /\ \E t \in DOMAIN q.order : q.order[t].by.op # "ordinal"
                                             /\ q.order[t].by \notin Range(q.items))

-----------------------------------------------------------------------------
(* The stages.                                                             *)

\* the joined rows (module Planner)
Start ==
    /\ stage = "new"
    /\ input' \in {in \in Input(query) : Sound(query, in)}
    /\ stage' = "joined"
    /\ UNCHANGED <<query, rows, groups, out>>

Filter ==
    /\ stage = "joined"
    /\ rows' = SelectSeq(input, LAMBDA r : Truthy(Evaluate(query.where, r)))
    /\ stage' = IF Aggregates THEN "group" ELSE "project"
    /\ UNCHANGED <<query, input, groups, out>>

Group ==
    /\ stage = "group"
    /\ groups' = Grouped
    /\ stage' = "reduce"
    /\ UNCHANGED <<query, input, rows, out>>

\* _group_and_aggregate: HAVING and the projection
Reduce ==
    /\ stage = "reduce"
    /\ out' = [n \in DOMAIN SelectSeq(groups, Passes) |->
          LET g == SelectSeq(groups, Passes)[n]
              Value(e) == GroupValue(e, g)
          IN  [vals |-> [i \in DOMAIN query.items |-> Projected(query.items[i], g)],
               source |-> Sources(Value)]]
    /\ stage' = "order"
    /\ UNCHANGED <<query, input, rows, groups>>

Project ==
    /\ stage = "project"
    /\ out' = [n \in DOMAIN rows |->
          LET Value(e) == Evaluate(e, rows[n])
          IN  [vals |-> [i \in DOMAIN query.items |-> Value(query.items[i])],
               source |-> Sources(Value)]]
    /\ stage' = "distinct"
    /\ UNCHANGED <<query, input, rows, groups>>

\* DISTINCT: of rows before they are ordered, of groups after it
DropDuplicates ==
    /\ stage = "distinct"
    /\ out' = Distinct(out)
    /\ stage' = IF Aggregates THEN "slice" ELSE "order"
    /\ UNCHANGED <<query, input, rows, groups>>

Order ==
    /\ stage = "order"
    /\ out' = Sorted(out)
    /\ stage' = IF Aggregates THEN "distinct" ELSE "slice"
    /\ UNCHANGED <<query, input, rows, groups>>

Slice ==
    /\ stage = "slice"
    /\ out' = Page(out)
    /\ stage' = "done"
    /\ UNCHANGED <<query, input, rows, groups>>

-----------------------------------------------------------------------------
(* What the query means.  Its units are single rows, or the groups; each   *)
(* is the set of its places in the input.                                  *)

Kept == {i \in DOMAIN input : Truth(query.where, {i}, input) = 2}

UnitsOf(places) ==
    IF ~Aggregates THEN {{i} : i \in places}
    ELSE IF query.group = <<>> THEN {places}
    ELSE {{j \in places : \A k \in DOMAIN query.group :
             Amount(query.group[k], {j}, input) = Amount(query.group[k], {i}, input)} : i \in places}

Vals(u) == [i \in DOMAIN query.items |-> Amount(query.items[i], u, input)]
Place(u) == IF u = {} THEN 0 ELSE Min(u)

Shown ==
    LET units == {u \in UnitsOf(Kept) : Truth(query.having, u, input) = 2}
    IN  IF ~query.distinct THEN units
        ELSE {u \in units : \A w \in units : Vals(w) = Vals(u) => Place(u) <= Place(w)}

\* a term's value, with NULL above every number
Height(t, u) ==
    LET by == query.order[t].by
        v == IF by.op = "ordinal" THEN Vals(u)[by.value] ELSE Amount(by, u, input)
    IN  IF v = Null THEN 1000 ELSE v

Precedes(u, w) ==
    LET differ == {t \in Terms : Height(t, u) # Height(t, w)}
        t == Min(differ)
    IN  IF differ = {} THEN Place(u) < Place(w)
        ELSE (Height(t, u) < Height(t, w)) # query.order[t].desc

Rank(u) == Cardinality({w \in Shown : Precedes(w, u)})

-----------------------------------------------------------------------------
Init ==
    /\ query \in Query /\ stage = "new"
    /\ input = <<>> /\ rows = <<>> /\ groups = <<>> /\ out = <<>>

Next == Start \/ Filter \/ Group \/ Reduce \/ Project \/ DropDuplicates \/ Order \/ Slice

Spec == Init /\ [][Next]_vars

-----------------------------------------------------------------------------
(* Properties.                                                             *)

(* Conditions have the truth values of SQL (ARCHITECTURE.md:133-134), in   *)
(* WHERE and in HAVING, which has an evaluator of its own: unknown too,    *)
(* which NOT tells from false (expressions.py:118-176, executor.py:667).   *)
ConditionsAreKleene ==
    /\ stage = "joined" =>
          \A i \in DOMAIN input :
             Scaled(Evaluate(query.where, input[i])) = Truth(query.where, {i}, input)
    /\ \A n \in DOMAIN groups :
          Scaled(HavingValue(query.having, groups[n].rows)) =
             Truth(query.having, 1..Len(groups[n].rows), groups[n].rows)

(* Before OFFSET and LIMIT the answer has the rows of the query, each as   *)
(* often: no group is lost, split or made up, the empty one of a query     *)
(* without GROUP BY neither, and no two equal rows survive DISTINCT        *)
(* (ARCHITECTURE.md:128-129).                                              *)
AnswerHasTheRows ==
    stage = "slice" =>
       \A row \in {out[i].vals : i \in DOMAIN out} \cup {Vals(u) : u \in Shown} :
          Cardinality({i \in DOMAIN out : out[i].vals = row})
             = Cardinality({u \in Shown : Vals(u) = row})

(* A page has the rows of its ranks: those that OFFSET skips come before   *)
(* it and those that LIMIT cuts off after it, in every direction of every  *)
(* term, with NULL last upwards and first downwards, and with the order of *)
(* arrival among equals (ARCHITECTURE.md:130-131), so that the pages of a  *)
(* query neither overlap nor miss a row.                                   *)
PageIsRanked ==
    stage = "done" =>
       LET on_page == {u \in Shown : Rank(u) >= query.offset
                          /\ (query.limit = Null \/ Rank(u) < query.offset + query.limit)}
       IN  /\ Len(out) = Cardinality(on_page)
           /\ \A u \in on_page : out[Rank(u) - query.offset + 1].vals = Vals(u)
=============================================================================
