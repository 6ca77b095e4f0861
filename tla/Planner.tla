------------------------------ MODULE Planner ------------------------------
(***************************************************************************)
(* SELECT over joins: predicate push-down (engine/planner.py) and the      *)
(* nested loops that run the plan (engine/executor.py), next to the same   *)
(* query without a planner.                                                *)
(*                                                                         *)
(* Tables are numbered as the query names them, the table of FROM is 1.  A *)
(* joined row is a function from the tables joined so far to their rows.   *)
(* A conjunct says of a column that it equals a literal or IS NULL, of two *)
(* columns that they are equal, or is false; conjuncts with subqueries are *)
(* never pushed and are left out.  Values have the types of Values.tla: a  *)
(* literal need not have that of the key it asks for.                      *)
(***************************************************************************)
EXTENDS Values, FiniteSets

CONSTANTS
    N,          \* tables of a query
    Row,        \* rows: records of the fields id, the primary key, and x
    Query,      \* queries: records of the fields kind, on, where, and key, the key's columns
    Content,    \* contents of the tables: functions from tables to sets of rows
    NoPredicate,    \* what split_conjuncts makes of a missing clause
    Avoided     \* situations that are kept out (see Sound)

Table == 1..N

\* a column is a name and the tables it can belong to: one if it is qualified, all that
\* have the name if it is not
ColumnName == [of : SUBSET Table \ {{}}, name : {"id", "x"}]
Conjunct ==
    [op : {"is"}, col : ColumnName, value : Value \cup {Null}]
       \cup [op : {"same"}, col : ColumnName, other : ColumnName] \cup [op : {"never"}]

ASSUME TableAssumption == N \in Nat \ {0}
ASSUME RowAssumption ==
    /\ \A r \in Row : {"id", "x"} \subseteq DOMAIN r /\ r.id \in Value
    /\ \A C \in Content : \A t \in Table :
          C[t] \subseteq Row /\ \A r, s \in C[t] : r.id = s.id => r = s
ASSUME QueryAssumption ==
    \A q \in Query :
       /\ q.key \in [Table -> Column] /\ q.where \subseteq Conjunct
       /\ \A t \in Table \ {1} : q.kind[t] \in {"INNER", "LEFT"} /\ q.on[t] \subseteq Conjunct
ASSUME NoPredicateAssumption == NoPredicate \notin Conjunct
ASSUME AvoidedAssumption ==
    Avoided \subseteq {"ON-about-the-joined-table-alone", "ON-about-the-first-table-no-WHERE",
                       "name-of-an-earlier-table-pushed-on"}

VARIABLES
    content,    \* the rows of each table, under the statement's snapshot
    query,      \* the tables: kind[t], on[t] of the joins, key[t]; and where
    pushed,     \* the conjuncts applied to a table's rows as it is scanned
    on,         \* JoinPlan.join_pred
    rest,       \* QueryPlan.where_remainder
    left,       \* left_rows
    full,       \* history: the joined rows without push-down
    joined,     \* how many tables are joined
    stage       \* of the statement

vars == <<content, query, pushed, on, rest, left, full, joined, stage>>

-----------------------------------------------------------------------------
(* Conjuncts.                                                              *)

NullRow == [id |-> Null, x |-> Null]
Joined(l, t, r) == [u \in DOMAIN l \cup {t} |-> IF u = t THEN r ELSE l[u]]
Alone(t, r) == [u \in {t} |-> r]

\* EvalContext.resolve: an unqualified name is that of the first table that has it
Resolved(col, l) ==
    LET owners == col.of \cap DOMAIN l
        first == CHOOSE t \in owners : \A u \in owners : t <= u
    IN  l[first][col.name]

Compares(v, w) == v # Null /\ w # Null /\ Equal(v, w)

Holds(c, l) ==
    \/ c = NoPredicate
    \/ /\ c # NoPredicate /\ c.op = "is" /\ c.value = Null
       /\ Resolved(c.col, l) = Null
    \/ /\ c # NoPredicate /\ c.op = "is" /\ c.value # Null
       /\ Compares(Resolved(c.col, l), c.value)
    \/ /\ c # NoPredicate /\ c.op = "same"
       /\ Compares(Resolved(c.col, l), Resolved(c.other, l))

Columns(c) ==
    IF c = NoPredicate THEN {}
    ELSE CASE c.op = "is" -> {c.col} [] c.op = "same" -> {c.col, c.other} [] OTHER -> {}

\* _conjunct_is_local; true of every table for a conjunct without columns
Local(c, t) == \A col \in Columns(c) : t \in col.of

\* split_conjuncts
Conjuncts(clause) == IF clause = {} THEN {NoPredicate} ELSE clause

-----------------------------------------------------------------------------
(* The plan.                                                               *)

\* Mutant of Pushable: into the right table of a left join, too.
PushableAnywhere(t) == TRUE

Pushable(t) == t = 1 \/ query.kind[t] # "LEFT"

\* the scan a WHERE conjunct is pushed to, the first that can have it; 0 if none can
HomeOf(c) ==
    LET homes == {t \in Table : Pushable(t) /\ Local(c, t)}
    IN  IF homes = {} THEN 0 ELSE CHOOSE t \in homes : \A u \in homes : t <= u

\* Mutant of ToFirst: the ON conjuncts of a left join, too.
ToFirstAlways(t) == {c \in Conjuncts(query.on[t]) : ~Local(c, t) /\ Local(c, 1)}

\* the ON conjuncts of a join that go to the scan of the first table
ToFirst(t) ==
    {c \in Conjuncts(query.on[t]) : query.kind[t] = "INNER" /\ ~Local(c, t) /\ Local(c, 1)}

\* plan_select.  The ON conjuncts about the joined table alone go to JoinPlan.pushed,
\* which nothing reads.
Plan ==
    /\ stage = "new"
    /\ pushed' = [t \in Table |->
          {c \in Conjuncts(query.where) : HomeOf(c) = t}
             \cup (IF t = 1 THEN UNION {ToFirst(u) : u \in Table \ {1}} ELSE {})]
    /\ on' = [t \in Table \ {1} |->
          {c \in Conjuncts(query.on[t]) : ~Local(c, t) /\ c \notin ToFirst(t)}]
    /\ rest' = {c \in Conjuncts(query.where) : HomeOf(c) = 0}
    /\ stage' = "planned"
    /\ UNCHANGED <<content, query, left, full, joined>>

-----------------------------------------------------------------------------
(* Its execution.                                                          *)

\* Mutant of KeyOf: the key is looked up as the literal writes it.
KeyAsWritten(t, literal) == literal

\* _pk_eq_key: the key a literal asks for, as the column would store it
KeyOf(t, literal) == Converted(query.key[t], literal)

\* the keys that pushed equalities ask of a table; a literal the column cannot take asks none
KeysAsked(t) ==
    {KeyOf(t, c.value) :
       c \in {d \in pushed[t] \ {NoPredicate} :
                d.op = "is" /\ t \in d.col.of /\ d.col.name = "id" /\ d.value # Null}} \ {Bad}

\* the rows a scan looks at: by key, none if there are two, or all
Candidates(t) == {r \in content[t] : \A k \in KeysAsked(t) : Equal(r.id, k)}

\* AND with a missing predicate cannot be evaluated, nor a key found among keys it does not
\* compare with
Broken(t) ==
    \/ NoPredicate \in pushed[t] /\ pushed[t] # {NoPredicate} /\ Candidates(t) # {}
    \/ \E k \in KeysAsked(t) :
          /\ \A j \in KeysAsked(t) : Equal(j, k)
          /\ \E r \in content[t] : ~Comparable(r.id, k)

Scan(t) == {r \in Candidates(t) : \A c \in pushed[t] : Holds(c, Alone(t, r))}

\* the rows that no match extends
Unmatched(rows, matched) ==
    {l \in rows : \A m \in matched : \E u \in DOMAIN l : m[u] # l[u]}

\* a left join's rows without a match
Outer(t, rows, matched) ==
    IF query.kind[t] = "LEFT"
      THEN {Joined(l, t, NullRow) : l \in Unmatched(rows, matched)} ELSE {}

\* the nested loop of one join
Join(t, rows, scanned, conjuncts) ==
    LET matched == {m \in {Joined(l, t, r) : l \in rows, r \in scanned} :
                      \A c \in conjuncts : Holds(c, m)}
    IN  matched \cup Outer(t, rows, matched)

ScanFirst ==
    /\ stage = "planned"
    /\ IF Broken(1) THEN stage' = "failed" /\ UNCHANGED <<left, full, joined>>
       ELSE /\ left' = {Alone(1, r) : r \in Scan(1)}
            /\ full' = {Alone(1, r) : r \in content[1]}
            /\ joined' = 1 /\ stage' = "joining"
    /\ UNCHANGED <<content, query, pushed, on, rest>>

JoinNext ==
    /\ stage = "joining" /\ joined < N
    /\ LET t == joined + 1
       IN  IF Broken(t) THEN stage' = "failed" /\ UNCHANGED <<left, full, joined>>
           ELSE /\ left' = Join(t, left, Scan(t), on[t])
                /\ full' = Join(t, full, content[t], query.on[t])
                /\ joined' = t /\ UNCHANGED stage
    /\ UNCHANGED <<content, query, pushed, on, rest>>

Filter ==
    /\ stage = "joining" /\ joined = N
    /\ left' = {l \in left : \A c \in rest : Holds(c, l)}
    /\ full' = {l \in full : \A c \in query.where : Holds(c, l)}
    /\ stage' = "done"
    /\ UNCHANGED <<content, query, pushed, on, rest, joined>>

-----------------------------------------------------------------------------
(* Where the plan is known to go wrong.                                    *)

Kept(situation, Occurs) == situation \in Avoided => ~Occurs

\* of the query q, which is the statement's
Sound(q) ==
    /\ Kept("ON-about-the-joined-table-alone",
            \E t \in Table \ {1} : \E c \in q.on[t] : Local(c, t))
    /\ Kept("ON-about-the-first-table-no-WHERE",
            /\ q.where = {}
            /\ \E t \in Table \ {1} : q.kind[t] = "INNER" /\ \E c \in q.on[t] : Local(c, 1))
    /\ Kept("name-of-an-earlier-table-pushed-on",
            \E c \in q.where : \E col \in Columns(c) : \E t \in col.of : t < HomeOf(c))

\* validate_and_convert has stored the keys
Stored(t, r) == Converted(query.key[t], r.id) = r.id

Init ==
    /\ query \in Query /\ Sound(query)
    /\ content \in Content /\ \A t \in Table : \A r \in content[t] : Stored(t, r)
    /\ pushed = [t \in Table |-> {}] /\ on = [t \in Table \ {1} |-> {}] /\ rest = {}
    /\ left = {} /\ full = {} /\ joined = 0 /\ stage = "new"

Next == Plan \/ ScanFirst \/ JoinNext \/ Filter

Spec == Init /\ [][Next]_vars

-----------------------------------------------------------------------------
(* Properties.                                                             *)

(* The rows of a planned query are those of the query as it is written:    *)
(* join everything, then filter (planner.py:3-7).  It does not fail.       *)
PlanIsEquivalent == stage # "failed" /\ (stage = "done" => left = full)

(* Push-down removes rows early and never makes one up: at each join the   *)
(* rows are some of those without push-down, the null rows of a left join  *)
(* too, so what a scan has dropped does not come back as an outer row.     *)
NothingIsMadeUp == left \subseteq full
=============================================================================
