--------------------------- MODULE PlannerProofs ---------------------------
(* What conversion promises of every column and value: that a stored value *)
(* is stored once and for all, and that the key an equality asks for is    *)
(* the one a row that satisfies it was stored under.  And that push-down   *)
(* is right for every query, number of tables and contents of the tables,  *)
(* outside the situations that Sound names: at each join the rows with     *)
(* push-down are those without it that pass the pushed filters.            *)
EXTENDS Planner, DataProofs

-----------------------------------------------------------------------------
(* Stored values and keys.                                                 *)

(* NULL and an error are not stored values.                                *)
LEMMA TypesApart == \A v \in Value : v # Null /\ v # Bad
BY ValueAssumption

(* A text is not a number, and only a text spells something.               *)
LEMMA Kinds ==
    /\ \A v \in Number : /\ v.ty \in {"int", "float", "bool"} /\ v.halves \in Int
                         /\ v = [ty |-> v.ty, halves |-> v.halves]
    /\ \A v \in Text : /\ v.ty = "str" /\ v.spelled \in Number \cup {Nothing}
                       /\ v = [ty |-> "str", spelled |-> v.spelled]
    /\ \A v \in Value : IsNumber(v) <=> v \in Number
BY DEF Number, Text, Value, IsNumber, Numeric

(* What a column stores is a value of its type.                            *)
LEMMA StoredHasTheType ==
    ASSUME NEW col \in Column, NEW v \in Value, Converted(col, v) # Bad
    PROVE  /\ Converted(col, v) \in Value
           /\ col.ty = "INT" => Converted(col, v).ty = "int"
           /\ col.ty = "FLOAT" => Converted(col, v).ty = "float"
           /\ col.ty = "BOOLEAN" => Converted(col, v).ty = "bool"
           /\ col.ty = "TEXT" => Converted(col, v).ty = "str" /\ Converted(col, v) \notin col.long
<1>1. v # Null BY TypesApart
<1>2. col.ty \in {"INT", "FLOAT", "BOOLEAN", "TEXT"} BY DEF Column
<1>3. Converted(col, v) = As(col.ty, v) /\ As(col.ty, v) \notin col.long
  BY <1>1 DEF Converted
<1>4. v.ty = "str" => v.spelled \in Number \cup {Nothing}
  BY Kinds DEF Value, Number
<1>5. CASE col.ty = "INT"
  <2>1. As(col.ty, v) = AsInt(v) BY <1>5 DEF As
  <2>2. AsInt(v) # Bad => AsInt(v).ty = "int" /\ AsInt(v).halves \in Int /\ AsInt(v) \in Number
    BY <1>4, Kinds DEF AsInt, Spelled, NumberOf, Number, Value, Numeric, Whole, Nothing
  <2>3. QED BY <1>3, <2>1, <2>2, <1>5 DEF Value
<1>6. CASE col.ty = "FLOAT"
  <2>1. As(col.ty, v) = AsFloat(v) BY <1>6 DEF As
  <2>2. AsFloat(v) # Bad => AsFloat(v).ty = "float" /\ AsFloat(v) \in Number
    BY <1>4, Kinds DEF AsFloat, Spelled, NumberOf, Number, Value, Numeric, Nothing
  <2>3. QED BY <1>3, <2>1, <2>2, <1>6 DEF Value
<1>7. CASE col.ty = "BOOLEAN"
  <2>1. As(col.ty, v) = AsBool(v) BY <1>7 DEF As
  <2>2. AsBool(v) # Bad => AsBool(v).ty = "bool" /\ AsBool(v) \in Number
    BY <1>4, Kinds DEF AsBool, Spelled, NumberOf, Number, Value, Numeric, Nothing
  <2>3. QED BY <1>3, <2>1, <2>2, <1>7 DEF Value
<1>8. CASE col.ty = "TEXT"
  <2>1. As(col.ty, v) = AsText(v) BY <1>8 DEF As
  <2>2. AsText(v) \in Text BY Kinds DEF AsText, TextOf, Text, Value, Number
  <2>3. QED BY <1>3, <2>1, <2>2, <1>8, Kinds DEF Value
<1>9. QED BY <1>2, <1>5, <1>6, <1>7, <1>8

(* A stored value converts to itself (validate_and_convert): writing back  *)
(* a row that was read, or a key that was looked up, changes nothing.      *)
THEOREM StoredOnce ==
    ASSUME NEW col \in Column, NEW v \in Value \cup {Null}, Converted(col, v) # Bad
    PROVE  Converted(col, Converted(col, v)) = Converted(col, v)
<1>1. CASE v = Null
  BY <1>1 DEF Converted
<1>2. CASE v \in Value
  <2> DEFINE w == Converted(col, v)
  <2>1. /\ w \in Value
        /\ col.ty = "INT" => w.ty = "int"
        /\ col.ty = "FLOAT" => w.ty = "float"
        /\ col.ty = "BOOLEAN" => w.ty = "bool"
        /\ col.ty = "TEXT" => w.ty = "str" /\ w \notin col.long
    BY <1>2, StoredHasTheType
  <2> HIDE DEF w
  <2>2. w # Null BY <2>1, TypesApart
  <2>3. col.ty \in {"INT", "FLOAT", "BOOLEAN", "TEXT"} BY DEF Column
  <2>4. w.ty # "str" => w = [ty |-> w.ty, halves |-> w.halves]
    BY <2>1, Kinds DEF Value
  <2>5. w.ty = "bool" => w.halves \in {0, 2}
    BY <2>1, Kinds DEF Value, Number
  <2>6. As(col.ty, w) = w
    BY <2>1, <2>3, <2>4, <2>5 DEF As, AsInt, AsFloat, AsBool, AsText, Spelled, NumberOf
  <2>7. w \notin col.long
    BY <2>1, <2>3, Kinds DEF Column
  <2>8. Converted(col, w) = w
    BY <2>2, <2>6, <2>7 DEF Converted
  <2>9. QED BY <2>8 DEF w
<1>3. QED BY <1>1, <1>2

(* The lookup by key misses nothing (_pk_eq_key): whatever literal a row's *)
(* stored key equals, it asks for that key or, when the column cannot take *)
(* it, for none, and the whole table is scanned.                           *)
THEOREM LookupFindsTheRow ==
    ASSUME NEW col \in Column, NEW v \in Value, NEW literal \in Value,
           Converted(col, v) = v, Equal(v, literal)
    PROVE  Converted(col, literal) \in {v, Bad}
<1>1. v # Null /\ literal # Null /\ v # Bad BY TypesApart
<1>2. col.ty \in {"INT", "FLOAT", "BOOLEAN", "TEXT"} BY DEF Column
<1>3. CASE ~(IsNumber(v) /\ IsNumber(literal))
  BY <1>3 DEF Equal
<1>4. CASE IsNumber(v) /\ IsNumber(literal)
  <2>1. v \in Number /\ literal \in Number /\ v.halves = literal.halves
    BY <1>4, Kinds DEF Equal
  <2>2. /\ col.ty = "INT" => v.ty = "int"
        /\ col.ty = "FLOAT" => v.ty = "float"
        /\ col.ty = "BOOLEAN" => v.ty = "bool"
        /\ col.ty # "TEXT"
    BY <1>1, <2>1, StoredHasTheType, Kinds
  <2>3. QED
    BY <1>1, <1>2, <2>1, <2>2, Kinds DEF Converted, As, AsInt, AsFloat, AsBool, Spelled, NumberOf
<1>5. QED BY <1>3, <1>4

-----------------------------------------------------------------------------

\* none of the situations occurs
AllAvoided ==
    {"ON-about-the-joined-table-alone", "ON-about-the-first-table-no-WHERE",
     "name-of-an-earlier-table-pushed-on"} \subseteq Avoided

Condition == Conjunct \cup {NoPredicate}
Joinable == Row \cup {NullRow}
JoinedRow(n) == [1..n -> Joinable]

Passes(l, t) == \A c \in pushed[t] : Holds(c, Alone(t, l[t]))

-----------------------------------------------------------------------------
(* Conditions on joined rows.                                              *)

(* A row that a join adds is itself and what was joined before.            *)
LEMMA JoinedIs ==
    ASSUME NEW n \in Nat, NEW l \in JoinedRow(n), NEW r \in Joinable
    PROVE  /\ Joined(l, n + 1, r) \in JoinedRow(n + 1)
           /\ Joined(l, n + 1, r)[n + 1] = r
           /\ \A u \in 1..n : Joined(l, n + 1, r)[u] = l[u]
<1>1. DOMAIN l = 1..n BY DEF JoinedRow
<1>2. 1..n \cup {n + 1} = 1..(n + 1) /\ n + 1 \notin 1..n OBVIOUS
<1>3. Joined(l, n + 1, r) = [u \in 1..(n + 1) |-> IF u = n + 1 THEN r ELSE l[u]]
  BY <1>1, <1>2 DEF Joined
<1>4. \A u \in 1..(n + 1) : u # n + 1 => l[u] \in Joinable
  BY <1>2 DEF JoinedRow
<1>5. QED BY <1>2, <1>3, <1>4 DEF JoinedRow

(* Joined rows that agree in every table are the same.                     *)
LEMMA SameRows ==
    ASSUME NEW n \in Nat, NEW l \in JoinedRow(n), NEW m \in JoinedRow(n),
           \A u \in 1..n : l[u] = m[u]
    PROVE  l = m
BY DEF JoinedRow

(* EvalContext.resolve: a name is that of the first table that has it.     *)
LEMMA ResolvesToFirst ==
    ASSUME NEW col \in ColumnName, NEW l, NEW t \in col.of, t \in DOMAIN l,
           \A u \in col.of \cap DOMAIN l : t <= u
    PROVE  Resolved(col, l) = l[t][col.name]
<1> DEFINE owners == col.of \cap DOMAIN l
           first == CHOOSE x \in owners : \A u \in owners : x <= u
<1>1. t \in owners /\ \A u \in owners : t <= u OBVIOUS
<1>2. first \in owners /\ \A u \in owners : first <= u BY <1>1
<1>3. owners \subseteq Int BY TableAssumption DEF ColumnName, Table
<1>4. first = t
  <2>1. first <= t /\ t <= first BY <1>1, <1>2
  <2>2. first \in Int /\ t \in Int BY <1>1, <1>2, <1>3
  <2> HIDE DEF first
  <2>3. QED BY <2>1, <2>2
<1>5. Resolved(col, l) = l[first][col.name] BY DEF Resolved
<1>6. QED BY <1>4, <1>5

(* A condition on one table alone, in which no name is that of an earlier  *)
(* table, says the same of the joined row and of the table's row.          *)
LEMMA LocalHolds ==
    ASSUME NEW n \in Nat, NEW l \in JoinedRow(n), NEW c \in Condition, NEW t \in 1..n,
           Local(c, t), \A col \in Columns(c) : \A u \in col.of : t <= u
    PROVE  Holds(c, l) <=> Holds(c, Alone(t, l[t]))
<1> DEFINE a == Alone(t, l[t])
<1>1. DOMAIN l = 1..n /\ DOMAIN a = {t} /\ a[t] = l[t] BY DEF JoinedRow, Alone
<1> HIDE DEF a
<1>2. ASSUME NEW col \in ColumnName, col \in Columns(c)
      PROVE  Resolved(col, l) = Resolved(col, a)
  <2>1. t \in col.of /\ \A u \in col.of : t <= u BY <1>2 DEF Local
  <2>2. Resolved(col, l) = l[t][col.name] BY <1>1, <2>1, ResolvesToFirst
  <2>3. Resolved(col, a) = a[t][col.name] BY <1>1, <2>1, ResolvesToFirst
  <2>4. QED BY <2>2, <2>3, <1>1
<1>3. CASE c = NoPredicate BY <1>3 DEF Holds
<1>4. CASE c # NoPredicate
  <2>1. c \in Conjunct BY <1>4 DEF Condition
  <2>2. CASE c.op = "is"
    <3>1. c.col \in ColumnName /\ c.col \in Columns(c)
      BY <1>4, <2>1, <2>2 DEF Conjunct, Columns
    <3>2. Resolved(c.col, l) = Resolved(c.col, a) BY <1>2, <3>1
    <3>3. QED BY <1>4, <2>2, <3>2 DEF Holds, a
  <2>3. CASE c.op = "same"
    <3>1. /\ c.col \in ColumnName /\ c.col \in Columns(c)
          /\ c.other \in ColumnName /\ c.other \in Columns(c)
      BY <1>4, <2>1, <2>3 DEF Conjunct, Columns
    <3>2. Resolved(c.col, l) = Resolved(c.col, a) /\ Resolved(c.other, l) = Resolved(c.other, a)
      BY <1>2, <3>1
    <3>3. QED BY <1>4, <2>3, <3>2 DEF Holds, a
  <2>4. CASE c.op = "never" BY <1>4, <2>4 DEF Holds
  <2>5. QED BY <2>1, <2>2, <2>3, <2>4 DEF Conjunct
<1>5. QED BY <1>3, <1>4

-----------------------------------------------------------------------------
(* The plan.                                                               *)

PushedFor(t) ==
    {c \in Conjuncts(query.where) : HomeOf(c) = t}
       \cup (IF t = 1 THEN UNION {ToFirst(u) : u \in Table \ {1}} ELSE {})
OnFor(t) == {c \in Conjuncts(query.on[t]) : ~Local(c, t) /\ c \notin ToFirst(t)}

Planned ==
    /\ pushed = [t \in Table |-> PushedFor(t)]
    /\ on = [t \in Table \ {1} |-> OnFor(t)]
    /\ rest = {c \in Conjuncts(query.where) : HomeOf(c) = 0}

\* the statement is one of the queries, outside the situations
Asked == query \in Query /\ Sound(query)

(* Tables are numbered from 1.                                             *)
LEMMA TablesAreNumbers == Table \subseteq Nat /\ 1 \in Table
BY TableAssumption DEF Table

(* The tables of a query and its conditions.                               *)
LEMMA QueryHas ==
    ASSUME Asked
    PROVE  /\ Conjuncts(query.where) \subseteq Condition
           /\ \A t \in Table : query.key[t] \in Column
           /\ \A t \in Table \ {1} : /\ query.kind[t] \in {"INNER", "LEFT"}
                                    /\ query.on[t] \subseteq Condition
                                    /\ Conjuncts(query.on[t]) \subseteq Condition
BY QueryAssumption DEF Asked, Conjuncts, Condition

(* What Sound keeps out.                                                   *)
LEMMA SoundMeans ==
    ASSUME Asked, AllAvoided
    PROVE  /\ \A t \in Table \ {1} : \A c \in query.on[t] : ~Local(c, t)
           /\ query.where = {} =>
                 \A t \in Table \ {1} : query.kind[t] = "INNER" =>
                    \A c \in query.on[t] : ~Local(c, 1)
           /\ \A c \in query.where : \A col \in Columns(c) : \A t \in col.of : ~(t < HomeOf(c))
BY DEF Asked, AllAvoided, Sound, Kept

(* A conjunct's home is a scan that may have it and can evaluate it.       *)
LEMMA HomeIs ==
    ASSUME NEW c, HomeOf(c) # 0
    PROVE  HomeOf(c) \in Table /\ Pushable(HomeOf(c)) /\ Local(c, HomeOf(c))
<1> DEFINE homes == {t \in Table : Pushable(t) /\ Local(c, t)}
<1>1. homes # {} BY DEF HomeOf
<1>2. homes \in SUBSET Nat BY TablesAreNumbers
<1>3. \E t \in homes : \A u \in homes : t <= u BY <1>1, <1>2, LeastMember
<1>4. HomeOf(c) \in homes BY <1>1, <1>3 DEF HomeOf
<1>5. QED BY <1>4

(* A missing clause is local to every table, and goes to the first.        *)
LEMMA MissingClause ==
    /\ \A t \in Table : Local(NoPredicate, t)
    /\ HomeOf(NoPredicate) = 1
<1>1. \A t \in Table : Local(NoPredicate, t) BY DEF Local, Columns
<1> DEFINE homes == {t \in Table : Pushable(t) /\ Local(NoPredicate, t)}
<1>2. 1 \in homes BY <1>1, TablesAreNumbers DEF Pushable
<1>3. \A t \in homes : 1 <= t BY TableAssumption DEF Table
<1>4. homes \subseteq Nat BY TablesAreNumbers
<1>5. \A t \in homes : (\A u \in homes : t <= u) => t = 1
  <2> TAKE t \in homes
  <2> HAVE \A u \in homes : t <= u
  <2>1. t <= 1 /\ 1 <= t /\ t \in Nat BY <1>2, <1>3, <1>4
  <2>2. QED BY <2>1
<1> HIDE DEF homes
<1>6. HomeOf(NoPredicate) = 1
  <2>1. HomeOf(NoPredicate) = IF homes = {} THEN 0 ELSE CHOOSE t \in homes : \A u \in homes : t <= u
    BY DEF HomeOf, homes
  <2>2. HomeOf(NoPredicate) \in homes /\ \A u \in homes : HomeOf(NoPredicate) <= u
    BY <2>1, <1>2, <1>3
  <2>3. QED BY <2>2, <1>5
<1>7. QED BY <1>1, <1>6

(* Nothing is pushed to the right table of a left join, and every          *)
(* condition of its ON stays in the join.                                  *)
LEMMA LeftJoinsKeepTheirs ==
    ASSUME Asked, AllAvoided, Planned, NEW t \in Table \ {1}, query.kind[t] = "LEFT"
    PROVE  pushed[t] = {} /\ on[t] = query.on[t]
<1>1. ~Pushable(t) BY DEF Pushable
<1>2. t # 0 BY TableAssumption DEF Table
<1>3. PushedFor(t) = {} BY <1>1, <1>2, HomeIs DEF PushedFor
<1>4. ToFirst(t) = {} BY DEF ToFirst
<1>5. OnFor(t) = query.on[t]
  BY <1>4, SoundMeans, MissingClause DEF OnFor, Conjuncts
<1>6. QED BY <1>3, <1>5 DEF Planned

(* Of the ON conditions of any join, those that do not stay in the join    *)
(* are about the first table and pushed there.                             *)
LEMMA OnIsSplit ==
    ASSUME Asked, AllAvoided, Planned, NEW t \in Table \ {1}
    PROVE  /\ on[t] \subseteq query.on[t]
           /\ \A c \in query.on[t] : c \in on[t] \/ (c \in ToFirst(t) /\ c \in pushed[1])
           /\ \A c \in ToFirst(t) : c \in query.on[t] /\ Local(c, 1)
<1>1. OnFor(t) \subseteq query.on[t]
  BY MissingClause DEF OnFor, Conjuncts
<1>2. \A c \in query.on[t] : ~Local(c, t) /\ c \in Conjuncts(query.on[t])
  BY SoundMeans DEF Conjuncts
<1>3. ToFirst(t) \subseteq pushed[1]
  BY TablesAreNumbers DEF Planned, PushedFor
<1>4. \A c \in ToFirst(t) : c \in query.on[t] /\ Local(c, 1)
  BY MissingClause DEF ToFirst, Conjuncts
<1>5. on[t] = OnFor(t) BY DEF Planned
<1>6. QED BY <1>1, <1>2, <1>3, <1>4, <1>5 DEF OnFor

(* What is pushed to a scan is a condition on its table alone, and names   *)
(* no earlier table.                                                       *)
LEMMA PushedAreLocal ==
    ASSUME Asked, AllAvoided, Planned, NEW t \in Table, NEW c \in pushed[t]
    PROVE  /\ c \in Condition /\ Local(c, t)
           /\ \A col \in Columns(c) : \A u \in col.of : t <= u
           /\ c = NoPredicate => query.where = {} /\ t = 1
           /\ \/ c \in Conjuncts(query.where) /\ HomeOf(c) = t
              \/ t = 1 /\ \E u \in Table \ {1} : c \in ToFirst(u)
<1>1. c \in PushedFor(t) BY DEF Planned
<1>2. CASE c \in Conjuncts(query.where) /\ HomeOf(c) = t
  <2>1. c \in Condition BY <1>2, QueryHas
  <2>2. t # 0 BY TableAssumption DEF Table
  <2>3. Local(c, t) BY <1>2, <2>2, HomeIs
  <2>4. CASE c = NoPredicate
    <3>1. Columns(c) = {} BY <2>4 DEF Columns
    <3>2. query.where = {}
      BY <1>2, <2>4, QueryAssumption, NoPredicateAssumption DEF Asked, Conjuncts
    <3>3. t = 1 BY <1>2, <2>4, MissingClause
    <3>4. QED BY <1>2, <2>1, <2>3, <3>1, <3>2, <3>3
  <2>5. CASE c # NoPredicate
    <3>1. c \in query.where BY <1>2, <2>5 DEF Conjuncts
    <3>2. \A col \in Columns(c) : \A u \in col.of : ~(u < t) BY <1>2, <3>1, SoundMeans
    <3>3. \A col \in Columns(c) : col.of \subseteq Int
      BY <2>1, <2>5, TablesAreNumbers DEF Condition, Conjunct, ColumnName, Columns
    <3>4. t \in Int BY TablesAreNumbers
    <3>5. \A col \in Columns(c) : \A u \in col.of : t <= u
      BY <3>2, <3>3, <3>4
    <3>6. QED BY <1>2, <2>1, <2>3, <2>5, <3>5
  <2>6. QED BY <2>4, <2>5
<1>3. CASE t = 1 /\ \E u \in Table \ {1} : c \in ToFirst(u)
  <2>1. PICK u \in Table \ {1} : c \in ToFirst(u) BY <1>3
  <2>2. c \in query.on[u] /\ Local(c, 1) BY <2>1, OnIsSplit
  <2>3. c \in Conjunct BY <2>2, QueryAssumption DEF Asked
  <2>4. c # NoPredicate BY <2>3, NoPredicateAssumption
  <2>5. \A col \in Columns(c) : col.of \subseteq Table
    BY <2>3, <2>4 DEF Conjunct, ColumnName, Columns
  <2>6. \A u1 \in Table : 1 <= u1 BY TableAssumption DEF Table
  <2>7. QED BY <1>3, <2>1, <2>2, <2>3, <2>4, <2>5, <2>6 DEF Condition
<1>4. QED BY <1>1, <1>2, <1>3 DEF PushedFor

-----------------------------------------------------------------------------
(* Scans.                                                                  *)

\* the tables hold rows under keys that their columns store
Filled ==
    /\ content \in Content
    /\ \A t \in Table : \A r \in content[t] : Stored(t, r)

(* A stored row has a key, which is a value and not NULL.                  *)
LEMMA RowsAre ==
    ASSUME Filled, NEW t \in Table, NEW r \in content[t]
    PROVE  r \in Row /\ r.id \in Value /\ r.id # Null /\ r.id # Bad
BY RowAssumption, TypesApart DEF Filled

(* A key that is asked for is that of a literal, as the column stores it.  *)
LEMMA KeysAre ==
    ASSUME Asked, AllAvoided, Planned, NEW t \in Table, NEW k \in KeysAsked(t)
    PROVE  \E c \in pushed[t] :
              /\ c \in Conjunct /\ c.op = "is" /\ c.col.name = "id" /\ t \in c.col.of
              /\ c.value \in Value /\ k = Converted(query.key[t], c.value) /\ k # Bad
<1>1. PICK c \in pushed[t] \ {NoPredicate} :
         /\ c.op = "is" /\ t \in c.col.of /\ c.col.name = "id" /\ c.value # Null
         /\ k = KeyOf(t, c.value)
  BY DEF KeysAsked
<1>2. k # Bad BY DEF KeysAsked
<1>3. c \in Conjunct BY <1>1, PushedAreLocal DEF Condition
<1>4. c.value \in Value BY <1>1, <1>3 DEF Conjunct
<1>5. QED BY <1>1, <1>2, <1>3, <1>4 DEF KeyOf

(* The lookup by key skips no row that passes the pushed conditions.       *)
LEMMA CandidatesSuffice ==
    ASSUME Asked, AllAvoided, Planned, Filled, NEW t \in Table, NEW r \in content[t],
           \A c \in pushed[t] : Holds(c, Alone(t, r))
    PROVE  r \in Candidates(t)
<1>1. SUFFICES ASSUME NEW k \in KeysAsked(t) PROVE Equal(r.id, k)
  BY DEF Candidates
<1>2. PICK c \in pushed[t] :
         /\ c \in Conjunct /\ c.op = "is" /\ c.col.name = "id" /\ t \in c.col.of
         /\ c.value \in Value /\ k = Converted(query.key[t], c.value) /\ k # Bad
  BY KeysAre
<1>3. c # NoPredicate BY <1>2, NoPredicateAssumption
<1>4. c.value # Null BY <1>2, TypesApart
<1>5. Compares(Resolved(c.col, Alone(t, r)), c.value)
  BY <1>2, <1>3, <1>4 DEF Holds
<1>6. Resolved(c.col, Alone(t, r)) = r.id
  <2>1. DOMAIN Alone(t, r) = {t} /\ Alone(t, r)[t] = r BY DEF Alone
  <2>2. c.col \in ColumnName BY <1>2 DEF Conjunct
  <2>3. t <= t BY TablesAreNumbers
  <2>4. Resolved(c.col, Alone(t, r)) = Alone(t, r)[t][c.col.name]
    BY <1>2, <2>1, <2>2, <2>3, ResolvesToFirst
  <2>5. QED BY <1>2, <2>1, <2>4
<1>7. Equal(r.id, c.value) BY <1>5, <1>6 DEF Compares
<1>8. query.key[t] \in Column BY QueryHas
<1>9. Converted(query.key[t], r.id) = r.id BY DEF Filled, Stored
<1>10. r.id \in Value BY RowsAre
<1>11. k = r.id BY <1>2, <1>7, <1>8, <1>9, <1>10, LookupFindsTheRow
<1>12. QED BY <1>11 DEF Equal

(* So a scan finds just the rows that pass.                                *)
LEMMA ScanIs ==
    ASSUME Asked, AllAvoided, Planned, Filled, NEW t \in Table
    PROVE  Scan(t) = {r \in content[t] : \A c \in pushed[t] : Holds(c, Alone(t, r))}
<1>1. Candidates(t) \subseteq content[t] BY DEF Candidates
<1>2. QED BY <1>1, CandidatesSuffice DEF Scan

(* Two values that one column stores can be compared.                      *)
LEMMA StoredCompare ==
    ASSUME NEW col \in Column, NEW v \in Value, NEW w \in Value,
           Converted(col, v) = v, Converted(col, w) # Bad
    PROVE  Comparable(v, Converted(col, w))
<1>1. v # Bad BY TypesApart
<1>2. /\ col.ty = "INT" => v.ty = "int" /\ Converted(col, w).ty = "int"
      /\ col.ty = "FLOAT" => v.ty = "float" /\ Converted(col, w).ty = "float"
      /\ col.ty = "BOOLEAN" => v.ty = "bool" /\ Converted(col, w).ty = "bool"
      /\ col.ty = "TEXT" => v.ty = "str" /\ Converted(col, w).ty = "str"
  BY <1>1, StoredHasTheType
<1>3. col.ty \in {"INT", "FLOAT", "BOOLEAN", "TEXT"} BY DEF Column
<1>4. QED BY <1>2, <1>3 DEF Comparable, IsNumber, Numeric

(* No scan raises.                                                         *)
LEMMA NoneIsBroken ==
    ASSUME Asked, AllAvoided, Planned, Filled, NEW t \in Table
    PROVE  ~Broken(t)
<1>1. ASSUME NoPredicate \in pushed[t], NEW c \in pushed[t], c # NoPredicate
      PROVE  FALSE
  <2>1. query.where = {} /\ t = 1 BY <1>1, PushedAreLocal
  <2>2. c \notin Conjuncts(query.where) BY <1>1, <2>1 DEF Conjuncts
  <2>3. PICK u \in Table \ {1} : c \in ToFirst(u) BY <2>2, PushedAreLocal
  <2>4. query.kind[u] = "INNER" BY <2>3 DEF ToFirst
  <2>5. c \in query.on[u] /\ Local(c, 1) BY <2>3, OnIsSplit
  <2>6. QED BY <2>1, <2>4, <2>5, SoundMeans
<1>2. ASSUME NEW k \in KeysAsked(t), NEW r \in content[t]
      PROVE  Comparable(r.id, k)
  <2>1. PICK c \in pushed[t] : c.value \in Value /\ k = Converted(query.key[t], c.value) /\ k # Bad
    BY KeysAre
  <2>2. query.key[t] \in Column BY QueryHas
  <2>3. r.id \in Value /\ Converted(query.key[t], r.id) = r.id BY RowsAre DEF Filled, Stored
  <2>4. QED BY <2>1, <2>2, <2>3, StoredCompare
<1>3. QED BY <1>1, <1>2 DEF Broken

-----------------------------------------------------------------------------
(* Joins.                                                                  *)

\* the rows with push-down are those without it that pass what has been pushed so far
Pruned(n) ==
    /\ full \subseteq JoinedRow(n)
    /\ left = {l \in full : \A t \in 1..n : Passes(l, t)}

\* rows without push-down satisfy the conditions of inner joins that were pushed
FullMeetsOn(n) ==
    \A l \in full : \A u \in 2..n : \A c \in ToFirst(u) : Holds(c, Alone(1, l[1]))

Matched(t, rows, scanned, conjuncts) ==
    {m \in {Joined(l, t, r) : l \in rows, r \in scanned} : \A c \in conjuncts : Holds(c, m)}

\* the next join: with push-down and without it
NextLeft == Join(joined + 1, left, Scan(joined + 1), on[joined + 1])
NextFull == Join(joined + 1, full, content[joined + 1], query.on[joined + 1])

(* A join step: the pairs that match, and the rows it pads.                *)
LEMMA JoinIs ==
    ASSUME NEW t, NEW rows, NEW scanned, NEW conjuncts
    PROVE  Join(t, rows, scanned, conjuncts) =
              Matched(t, rows, scanned, conjuncts)
                 \cup Outer(t, rows, Matched(t, rows, scanned, conjuncts))
BY DEF Join, Matched

(* What a match of the next join is made of.                               *)
LEMMA MatchedAre ==
    ASSUME joined \in Nat, NEW rows, NEW scanned, NEW conjuncts,
           NEW m \in Matched(joined + 1, rows, scanned, conjuncts),
           rows \subseteq JoinedRow(joined), scanned \subseteq Joinable
    PROVE  /\ m \in JoinedRow(joined + 1) /\ m[joined + 1] \in scanned
           /\ \E l \in rows : /\ m = Joined(l, joined + 1, m[joined + 1])
                             /\ \A u \in 1..joined : m[u] = l[u]
           /\ \A c \in conjuncts : Holds(c, m)
<1>1. PICK l \in rows, r \in scanned : m = Joined(l, joined + 1, r) BY DEF Matched
<1>2. l \in JoinedRow(joined) /\ r \in Joinable OBVIOUS
<1>3. m \in JoinedRow(joined + 1) /\ m[joined + 1] = r /\ \A u \in 1..joined : m[u] = l[u]
  BY <1>1, <1>2, JoinedIs
<1>4. QED BY <1>1, <1>3 DEF Matched

(* The rows of a table, NULLs or not, can be joined.                       *)
LEMMA ContentsAreJoinable ==
    ASSUME Filled, NEW t \in Table
    PROVE  content[t] \subseteq Joinable /\ Scan(t) \subseteq content[t] /\ NullRow \in Joinable
BY RowsAre DEF Joinable, Scan, Candidates

\* a joined row before a join, and after it
LEMMA PassesBefore ==
    ASSUME NEW n \in Nat, NEW l \in JoinedRow(n), NEW r \in Joinable, NEW t \in 1..n
    PROVE  Passes(Joined(l, n + 1, r), t) <=> Passes(l, t)
BY JoinedIs DEF Passes

(* Filtering before a join is filtering after it: the matches.             *)
LEMMA MatchesCommute ==
    ASSUME Asked, AllAvoided, Planned, Filled, joined \in Nat, joined # 0,
           joined + 1 \in Table, Pruned(joined), NEW m
    PROVE  m \in Matched(joined + 1, left, Scan(joined + 1), on[joined + 1])
              <=> /\ m \in Matched(joined + 1, full, content[joined + 1], query.on[joined + 1])
                  /\ \A t \in 1..(joined + 1) : Passes(m, t)
<1> DEFINE n == joined
           t1 == n + 1
<1>1. t1 \in Table \ {1} /\ n \in Nat /\ 1 \in 1..n /\ 1..t1 = 1..n \cup {t1} OBVIOUS
<1>2. full \subseteq JoinedRow(n) /\ left \subseteq full BY DEF Pruned
<1>3. content[t1] \subseteq Joinable /\ Scan(t1) \subseteq content[t1]
  BY <1>1, ContentsAreJoinable
<1>4. Scan(t1) = {r \in content[t1] : \A c \in pushed[t1] : Holds(c, Alone(t1, r))}
  BY <1>1, ScanIs
<1>5. /\ on[t1] \subseteq query.on[t1]
      /\ \A c \in query.on[t1] : c \in on[t1] \/ (c \in ToFirst(t1) /\ c \in pushed[1])
      /\ \A c \in ToFirst(t1) : c \in query.on[t1] /\ Local(c, 1)
  BY <1>1, OnIsSplit
<1>6. query.on[t1] \subseteq Condition BY <1>1, QueryHas
<1>7. n + 1 = joined + 1 OBVIOUS
<1> HIDE DEF t1
<1>8. ASSUME NEW l \in full, NEW r \in content[t1], m = Joined(l, t1, r)
      PROVE  /\ m \in JoinedRow(t1) /\ m[t1] = r /\ m[1] = l[1]
             /\ (\A t \in 1..t1 : Passes(m, t)) <=> l \in left /\ r \in Scan(t1)
  <2>1. l \in JoinedRow(n) /\ r \in Joinable BY <1>2, <1>3
  <2>2. m \in JoinedRow(t1) /\ m[t1] = r /\ \A u \in 1..n : m[u] = l[u]
    BY <1>1, <1>8, <2>1, JoinedIs DEF t1
  <2>3. \A t \in 1..n : Passes(m, t) <=> Passes(l, t)
    BY <1>1, <1>8, <2>1, PassesBefore DEF t1
  <2>4. Passes(m, t1) <=> r \in Scan(t1)
    BY <1>4, <2>2 DEF Passes
  <2>5. l \in left <=> \A t \in 1..n : Passes(l, t) BY DEF Pruned
  <2>6. QED BY <1>1, <2>2, <2>3, <2>4, <2>5
<1>9. ASSUME m \in Matched(t1, left, Scan(t1), on[t1])
      PROVE  m \in Matched(t1, full, content[t1], query.on[t1]) /\ \A t \in 1..t1 : Passes(m, t)
  <2>1. PICK l \in left, r \in Scan(t1) : m = Joined(l, t1, r) BY <1>9 DEF Matched
  <2>2. \A c \in on[t1] : Holds(c, m) BY <1>9 DEF Matched
  <2>3. l \in full /\ r \in content[t1] BY <1>2, <1>3, <2>1
  <2>4. /\ m \in JoinedRow(t1) /\ m[1] = l[1]
        /\ \A t \in 1..t1 : Passes(m, t)
    BY <1>8, <2>1, <2>3
  <2>5. ASSUME NEW c \in query.on[t1] PROVE Holds(c, m)
    <3>1. CASE c \in on[t1] BY <3>1, <2>2
    <3>2. CASE c \in ToFirst(t1) /\ c \in pushed[1]
      <4>1. Holds(c, Alone(1, m[1])) BY <1>1, <2>4, <3>2 DEF Passes
      <4>2. c \in Condition /\ Local(c, 1) /\ \A col \in Columns(c) : \A u \in col.of : 1 <= u
        BY <3>2, PushedAreLocal, TablesAreNumbers
      <4>3. Holds(c, m) <=> Holds(c, Alone(1, m[1]))
        BY <1>1, <2>4, <4>2, LocalHolds DEF t1
      <4>4. QED BY <4>1, <4>3
    <3>3. QED BY <1>5, <3>1, <3>2
  <2>6. QED BY <2>1, <2>3, <2>4, <2>5 DEF Matched
<1>10. ASSUME m \in Matched(t1, full, content[t1], query.on[t1]), \A t \in 1..t1 : Passes(m, t)
       PROVE  m \in Matched(t1, left, Scan(t1), on[t1])
  <2>1. PICK l \in full, r \in content[t1] : m = Joined(l, t1, r) BY <1>10 DEF Matched
  <2>2. \A c \in query.on[t1] : Holds(c, m) BY <1>10 DEF Matched
  <2>3. l \in left /\ r \in Scan(t1) BY <1>8, <1>10, <2>1
  <2>4. QED BY <1>5, <2>1, <2>2, <2>3 DEF Matched
<1>11. QED BY <1>9, <1>10 DEF t1

(* A left join leaves the same rows without a match, of those that pass:   *)
(* what it matches is not pushed down, and each match passes as its left   *)
(* row does.                                                               *)
LEMMA OuterRowsCommute ==
    ASSUME Asked, AllAvoided, Planned, Filled, joined \in Nat, joined # 0,
           joined + 1 \in Table, Pruned(joined), NEW m,
           NEW few, few = Matched(joined + 1, left, Scan(joined + 1), on[joined + 1]),
           NEW all, all = Matched(joined + 1, full, content[joined + 1], query.on[joined + 1])
    PROVE  m \in Outer(joined + 1, left, few)
              <=> /\ m \in Outer(joined + 1, full, all)
                  /\ \A t \in 1..(joined + 1) : Passes(m, t)
<1> DEFINE n == joined
           t1 == n + 1
<1>1. t1 \in Table \ {1} /\ n \in Nat /\ 1..t1 = 1..n \cup {t1} OBVIOUS
<1>2. full \subseteq JoinedRow(n) /\ left \subseteq full BY DEF Pruned
<1>3. content[t1] \subseteq Joinable /\ NullRow \in Joinable BY <1>1, ContentsAreJoinable
<1>4. \A x : x \in few <=> x \in all /\ \A t \in 1..t1 : Passes(x, t)
  BY MatchesCommute
<1> HIDE DEF t1
<1>5. CASE query.kind[t1] # "LEFT"
  BY <1>5 DEF Outer, t1
<1>6. CASE query.kind[t1] = "LEFT"
  <2>1. pushed[t1] = {} BY <1>1, <1>6, LeftJoinsKeepTheirs
  <2>2. ASSUME NEW x \in full, NEW r \in Joinable
        PROVE  (\A t \in 1..t1 : Passes(Joined(x, t1, r), t)) <=> x \in left
    <3>1. x \in JoinedRow(n) BY <1>2
    <3>2. \A t \in 1..n : Passes(Joined(x, t1, r), t) <=> Passes(x, t)
      BY <1>1, <3>1, PassesBefore DEF t1
    <3>3. Passes(Joined(x, t1, r), t1) BY <2>1 DEF Passes
    <3>4. x \in left <=> \A t \in 1..n : Passes(x, t) BY DEF Pruned
    <3>5. QED BY <1>1, <3>2, <3>3, <3>4
  <2>3. ASSUME NEW x \in left PROVE x \in Unmatched(left, few) <=> x \in Unmatched(full, all)
    <3>1. x \in full /\ x \in JoinedRow(n) /\ DOMAIN x = 1..n BY <1>2 DEF JoinedRow
    <3>2. few \subseteq all BY <1>4
    <3>3. ASSUME NEW y \in all, \A u \in DOMAIN x : y[u] = x[u] PROVE y \in few
      <4>1. t1 = n + 1 BY DEF t1
      <4>2. y \in Matched(t1, full, content[t1], query.on[t1]) BY DEF t1
      <4>3. PICK l \in full : y = Joined(l, t1, y[t1]) /\ \A u \in 1..n : y[u] = l[u]
        BY <1>1, <1>2, <1>3, <4>1, <4>2, MatchedAre DEF t1
      <4>4. y[t1] \in content[t1] BY <1>1, <1>2, <1>3, <4>1, <4>2, MatchedAre DEF t1
      <4>5. l = x BY <1>1, <1>2, <3>1, <3>3, <4>3, SameRows
      <4>6. \A t \in 1..t1 : Passes(y, t) BY <1>3, <2>2, <3>1, <4>3, <4>4, <4>5
      <4>7. QED BY <1>4, <4>6
    <3>4. QED BY <3>1, <3>2, <3>3 DEF Unmatched
  <2>4. ASSUME NEW x \in full PROVE x \in Unmatched(left, few) <=> x \in left /\ x \in Unmatched(full, all)
    BY <2>3 DEF Unmatched
  <2>5. /\ Outer(t1, left, few) = {Joined(x, t1, NullRow) : x \in Unmatched(left, few)}
        /\ Outer(t1, full, all) = {Joined(x, t1, NullRow) : x \in Unmatched(full, all)}
    BY <1>6 DEF Outer
  <2>6. Unmatched(left, few) \subseteq left /\ Unmatched(full, all) \subseteq full BY DEF Unmatched
  <2>7. ASSUME m \in Outer(t1, left, few)
        PROVE  m \in Outer(t1, full, all) /\ \A t \in 1..t1 : Passes(m, t)
    <3>1. PICK x \in Unmatched(left, few) : m = Joined(x, t1, NullRow) BY <2>5, <2>7
    <3>2. x \in left /\ x \in full /\ x \in Unmatched(full, all) BY <1>2, <2>3, <2>6, <3>1
    <3>3. \A t \in 1..t1 : Passes(m, t) BY <1>3, <2>2, <3>1, <3>2
    <3>4. QED BY <2>5, <3>1, <3>2, <3>3
  <2>8. ASSUME m \in Outer(t1, full, all), \A t \in 1..t1 : Passes(m, t)
        PROVE  m \in Outer(t1, left, few)
    <3>1. PICK x \in Unmatched(full, all) : m = Joined(x, t1, NullRow) BY <2>5, <2>8
    <3>2. x \in full /\ x \in left BY <1>3, <2>2, <2>6, <2>8, <3>1
    <3>3. QED BY <2>4, <2>5, <3>1, <3>2
  <2>9. QED BY <2>7, <2>8 DEF t1
<1>7. QED BY <1>5, <1>6

(* A join keeps the rows with push-down what they are: those without it    *)
(* that pass.                                                              *)
LEMMA JoinKeepsPruned ==
    ASSUME Asked, AllAvoided, Planned, Filled, joined \in Nat, joined # 0,
           joined + 1 \in Table, Pruned(joined)
    PROVE  /\ NextFull \subseteq JoinedRow(joined + 1)
           /\ NextLeft = {m \in NextFull : \A t \in 1..(joined + 1) : Passes(m, t)}
<1> DEFINE n == joined
           t1 == n + 1
           few == Matched(t1, left, Scan(t1), on[t1])
           all == Matched(t1, full, content[t1], query.on[t1])
<1>1. NextLeft = few \cup Outer(t1, left, few) /\ NextFull = all \cup Outer(t1, full, all)
  BY JoinIs DEF NextLeft, NextFull
<1>2. \A m : m \in few <=> m \in all /\ \A t \in 1..t1 : Passes(m, t)
  BY MatchesCommute
<1>3. \A m : m \in Outer(t1, left, few)
                <=> m \in Outer(t1, full, all) /\ \A t \in 1..t1 : Passes(m, t)
  BY OuterRowsCommute
<1>4. full \in SUBSET JoinedRow(n) /\ content[t1] \in SUBSET Joinable /\ NullRow \in Joinable
  BY ContentsAreJoinable DEF Pruned
<1>5. all \subseteq JoinedRow(t1) BY <1>4, MatchedAre
<1>6. Outer(t1, full, all) \subseteq JoinedRow(t1)
  <2>1. \A x \in full : Joined(x, n + 1, NullRow) \in JoinedRow(n + 1) BY <1>4, JoinedIs
  <2>2. QED BY <2>1 DEF Outer, Unmatched
<1> HIDE DEF few, all
<1>7. QED BY <1>1, <1>2, <1>3, <1>5, <1>6

(* And the rows without push-down satisfy one more inner join's ON.        *)
LEMMA JoinMeetsOn ==
    ASSUME Asked, AllAvoided, Planned, Filled, joined \in Nat, joined # 0,
           joined + 1 \in Table, Pruned(joined), FullMeetsOn(joined),
           NEW m \in NextFull, NEW u \in 2..(joined + 1), NEW c \in ToFirst(u)
    PROVE  Holds(c, Alone(1, m[1]))
<1> DEFINE n == joined
           t1 == n + 1
           all == Matched(t1, full, content[t1], query.on[t1])
<1>1. m \in all \/ m \in Outer(t1, full, all)
  BY JoinIs DEF NextFull
<1>2. full \in SUBSET JoinedRow(n) /\ content[t1] \in SUBSET Joinable /\ NullRow \in Joinable
  BY ContentsAreJoinable DEF Pruned
<1>3. \E l \in full : m[1] = l[1]
  <2>1. CASE m \in all
    <3>1. \E l \in full : \A v \in 1..n : m[v] = l[v] BY <1>2, <2>1, MatchedAre
    <3>2. QED BY <3>1
  <2>2. CASE m \in Outer(t1, full, all)
    <3>1. PICK l \in full : m = Joined(l, n + 1, NullRow) BY <2>2 DEF Outer, Unmatched
    <3>2. \A v \in 1..n : m[v] = l[v] BY <1>2, <3>1, JoinedIs
    <3>3. QED BY <3>2
  <2>3. QED BY <1>1, <2>1, <2>2
<1>4. CASE u \in 2..n BY <1>3, <1>4 DEF FullMeetsOn
<1>5. CASE u = t1
  <2>1. query.kind[t1] = "INNER" BY <1>5 DEF ToFirst
  <2>2. m \in all BY <1>1, <2>1 DEF Outer
  <2>3. m \in JoinedRow(t1) /\ \A d \in query.on[t1] : Holds(d, m) BY <1>2, <2>2, MatchedAre
  <2>4. c \in query.on[t1] /\ Local(c, 1) /\ c \in pushed[1]
    <3>1. t1 \in Table \ {1} BY TableAssumption DEF Table
    <3>2. c \in query.on[t1] /\ Local(c, 1) BY <1>5, <3>1, OnIsSplit
    <3>3. c \in pushed[1] BY <1>5, <3>1, TablesAreNumbers DEF Planned, PushedFor
    <3>4. QED BY <3>2, <3>3
  <2>5. c \in Condition /\ \A col \in Columns(c) : \A v \in col.of : 1 <= v
    BY <2>4, PushedAreLocal, TablesAreNumbers
  <2>6. 1 \in 1..t1 OBVIOUS
  <2>7. Holds(c, m) <=> Holds(c, Alone(1, m[1])) BY <2>3, <2>4, <2>5, <2>6, LocalHolds
  <2>8. QED BY <2>3, <2>4, <2>7
<1>6. QED BY <1>4, <1>5

-----------------------------------------------------------------------------
(* The invariant.                                                          *)

PlanInv ==
    /\ Asked /\ Filled
    /\ stage \in {"new", "planned", "joining", "done"}
    /\ stage # "new" => Planned
    /\ stage \in {"new", "planned"} => left = {} /\ full = {}
    /\ stage = "joining" => joined \in 1..N /\ Pruned(joined) /\ FullMeetsOn(joined)
    /\ stage = "done" => left = full

(* The scan of the first table: joined rows are its rows.                  *)
LEMMA FirstIsPruned ==
    ASSUME Asked, AllAvoided, Planned, Filled
    PROVE  /\ {Alone(1, r) : r \in content[1]} \subseteq JoinedRow(1)
           /\ {Alone(1, r) : r \in Scan(1)} =
                 {l \in {Alone(1, r) : r \in content[1]} : \A t \in 1..1 : Passes(l, t)}
<1>1. \A r : Alone(1, r)[1] = r /\ Alone(1, r) = [u \in 1..1 |-> r]
  BY DEF Alone
<1>2. content[1] \subseteq Joinable BY TablesAreNumbers, ContentsAreJoinable
<1>3. Scan(1) = {r \in content[1] : \A c \in pushed[1] : Holds(c, Alone(1, r))}
  BY TablesAreNumbers, ScanIs
<1>4. {Alone(1, r) : r \in content[1]} \subseteq JoinedRow(1)
  BY <1>1, <1>2 DEF JoinedRow
<1>5. \A r : Passes(Alone(1, r), 1) <=> \A c \in pushed[1] : Holds(c, Alone(1, r))
  BY <1>1 DEF Passes
<1>6. 1..1 = {1} OBVIOUS
<1>7. QED BY <1>3, <1>4, <1>5, <1>6

(* Filtering by all of WHERE at the end is filtering by its pushed part    *)
(* early and by the rest at the end.                                       *)
LEMMA FilterIs ==
    ASSUME Asked, AllAvoided, Planned, Filled, joined = N, Pruned(N), FullMeetsOn(N)
    PROVE  {l \in left : \A c \in rest : Holds(c, l)}
              = {l \in full : \A c \in query.where : Holds(c, l)}
<1>1. N \in Nat /\ 1 \in 1..N /\ Table = 1..N BY TableAssumption DEF Table
<1>2. ASSUME NEW l \in full, NEW t \in Table, NEW c \in pushed[t]
      PROVE  Holds(c, l) <=> Holds(c, Alone(t, l[t]))
  <2>1. l \in JoinedRow(N) BY DEF Pruned
  <2>2. /\ c \in Condition /\ Local(c, t)
        /\ \A col \in Columns(c) : \A u \in col.of : t <= u
    BY <1>2, PushedAreLocal
  <2>3. QED BY <1>1, <2>1, <2>2, LocalHolds
<1>3. ASSUME NEW l \in left, \A c \in rest : Holds(c, l), NEW c \in query.where
      PROVE  l \in full /\ Holds(c, l)
  <2>1. l \in full /\ \A t \in 1..N : Passes(l, t) BY <1>3 DEF Pruned
  <2>2. c \in Conjuncts(query.where) BY <1>3 DEF Conjuncts
  <2>3. CASE HomeOf(c) = 0 BY <1>3, <2>1, <2>2, <2>3 DEF Planned
  <2>4. CASE HomeOf(c) # 0
    <3>1. HomeOf(c) \in Table BY <2>4, HomeIs
    <3>2. c \in pushed[HomeOf(c)] BY <2>2, <3>1 DEF Planned, PushedFor
    <3>3. Holds(c, Alone(HomeOf(c), l[HomeOf(c)])) BY <1>1, <2>1, <3>1, <3>2 DEF Passes
    <3>4. Holds(c, l) <=> Holds(c, Alone(HomeOf(c), l[HomeOf(c)])) BY <1>2, <2>1, <3>1, <3>2
    <3>5. QED BY <2>1, <3>3, <3>4
  <2>5. QED BY <2>1, <2>3, <2>4
<1>4. ASSUME NEW l \in full, \A c \in query.where : Holds(c, l)
      PROVE  l \in left /\ \A c \in rest : Holds(c, l)
  <2>1. \A c \in Conjuncts(query.where) : Holds(c, l)
    BY <1>4 DEF Conjuncts, Holds
  <2>2. \A c \in rest : Holds(c, l) BY <2>1 DEF Planned
  <2>3. ASSUME NEW t \in 1..N, NEW c \in pushed[t] PROVE Holds(c, Alone(t, l[t]))
    <3>1. t \in Table BY <1>1
    <3>2. CASE c \in Conjuncts(query.where) BY <1>2, <2>1, <3>1, <3>2
    <3>3. CASE t = 1 /\ \E u \in Table \ {1} : c \in ToFirst(u)
      <4>1. PICK u \in Table \ {1} : c \in ToFirst(u) BY <3>3
      <4>2. u \in 2..N BY <1>1
      <4>3. QED BY <3>3, <4>1, <4>2 DEF FullMeetsOn
    <3>4. QED BY <3>1, <3>2, <3>3, PushedAreLocal
  <2>4. QED BY <2>2, <2>3 DEF Pruned, Passes
<1>5. left \subseteq full BY DEF Pruned
<1>6. QED BY <1>3, <1>4, <1>5

(* A step that leaves the query, the tables and the plan alone.            *)
LEMMA SameQuery ==
    ASSUME UNCHANGED <<content, query>>
    PROVE  /\ (\A c : HomeOf(c)' = HomeOf(c)) /\ (\A t : ToFirst(t)' = ToFirst(t))
           /\ (Asked => Asked') /\ (Filled => Filled')
<1>1. (\A c : HomeOf(c)' = HomeOf(c)) /\ (\A t : ToFirst(t)' = ToFirst(t))
  BY DEF HomeOf, Pushable, ToFirst
<1>2. Asked => Asked' BY <1>1 DEF Asked, Sound
<1>3. Filled => Filled' BY DEF Filled, Stored
<1>4. QED BY <1>1, <1>2, <1>3

(* A step that leaves the plan alone leaves it as it should be.            *)
LEMMA SamePlan ==
    ASSUME UNCHANGED <<content, query, pushed, on, rest>>, Planned
    PROVE  Planned'
<1>1. (\A c : HomeOf(c)' = HomeOf(c)) /\ (\A t : ToFirst(t)' = ToFirst(t)) BY SameQuery
<1>2. \A t : PushedFor(t)' = PushedFor(t) /\ OnFor(t)' = OnFor(t)
  BY <1>1 DEF PushedFor, OnFor
<1>3. QED BY <1>1, <1>2 DEF Planned

(* The invariant holds before planning begins.                             *)
LEMMA InitPlanInv ==
    ASSUME Init
    PROVE  PlanInv
BY DEF Init, PlanInv, Asked, Filled

(* Every step keeps it, and none fails.                                    *)
LEMMA NextPlanInv ==
    ASSUME AllAvoided, PlanInv, [Next]_vars
    PROVE  PlanInv'
<1>1. CASE UNCHANGED vars
  <2>1. /\ UNCHANGED <<content, query, pushed, on, rest>>
        /\ UNCHANGED <<left, full, joined, stage>>
    BY <1>1 DEF vars
  <2>2. Asked' /\ Filled' /\ (stage # "new" => Planned')
    BY <2>1, SameQuery, SamePlan DEF PlanInv
  <2>3. Pruned(joined) => Pruned(joined)' BY <2>1 DEF Pruned, Passes
  <2>4. FullMeetsOn(joined) => FullMeetsOn(joined)' BY <2>1, SameQuery DEF FullMeetsOn
  <2>5. QED BY <2>1, <2>2, <2>3, <2>4 DEF PlanInv
<1>2. CASE Plan
  <2>1. UNCHANGED <<content, query, left, full, joined>> /\ stage = "new" /\ stage' = "planned"
    BY <1>2 DEF Plan
  <2>2. Asked' /\ Filled'
    BY <2>1, SameQuery DEF PlanInv
  <2>3. /\ \A c : HomeOf(c)' = HomeOf(c)
        /\ \A t : ToFirst(t)' = ToFirst(t)
    BY <2>1, SameQuery
  <2>4. Planned'
    BY <1>2, <2>1, <2>3 DEF Plan, Planned, PushedFor, OnFor
  <2>5. QED BY <2>1, <2>2, <2>4 DEF PlanInv
<1>3. CASE ScanFirst
  <2>1. /\ UNCHANGED <<content, query, pushed, on, rest>> /\ stage = "planned"
        /\ Planned /\ Asked /\ Filled
    BY <1>3 DEF ScanFirst, PlanInv
  <2>2. Planned' /\ Asked' /\ Filled'
    BY <2>1, SameQuery, SamePlan
  <2>3. ~Broken(1) BY <2>1, TablesAreNumbers, NoneIsBroken
  <2>4. /\ left' = {Alone(1, r) : r \in Scan(1)}
        /\ full' = {Alone(1, r) : r \in content[1]}
        /\ joined' = 1 /\ stage' = "joining"
    BY <1>3, <2>3 DEF ScanFirst
  <2>5. /\ full' \subseteq JoinedRow(1)
        /\ left' = {l \in full' : \A t \in 1..1 : Passes(l, t)}
    BY <2>1, <2>4, FirstIsPruned
  <2>6. Pruned(joined)' BY <2>1, <2>4, <2>5 DEF Pruned, Passes
  <2>7. FullMeetsOn(joined)' BY <2>4 DEF FullMeetsOn
  <2>8. joined' \in 1..N BY <2>4, TableAssumption
  <2>9. QED BY <2>2, <2>4, <2>6, <2>7, <2>8 DEF PlanInv
<1>4. CASE JoinNext
  <2>1. /\ UNCHANGED <<content, query, pushed, on, rest>> /\ stage = "joining"
        /\ joined < N /\ joined \in 1..N /\ Pruned(joined) /\ FullMeetsOn(joined)
        /\ Planned /\ Asked /\ Filled
    BY <1>4 DEF JoinNext, PlanInv
  <2>2. Planned' /\ Asked' /\ Filled'
    BY <2>1, SameQuery, SamePlan
  <2>3. joined \in Nat /\ joined # 0 /\ joined + 1 \in Table /\ joined + 1 \in 1..N
    BY <2>1, TableAssumption DEF Table
  <2>4. ~Broken(joined + 1) BY <2>1, <2>3, NoneIsBroken
  <2>5. left' = NextLeft /\ full' = NextFull /\ joined' = joined + 1 /\ stage' = "joining"
    BY <1>4, <2>1, <2>4 DEF JoinNext, NextLeft, NextFull
  <2>6. /\ full' \subseteq JoinedRow(joined + 1)
        /\ left' = {m \in full' : \A t \in 1..(joined + 1) : Passes(m, t)}
    BY <2>1, <2>3, <2>5, JoinKeepsPruned
  <2>7. Pruned(joined)' BY <2>1, <2>5, <2>6 DEF Pruned, Passes
  <2>8. \A m \in full' : \A u \in 2..(joined + 1) : \A c \in ToFirst(u) : Holds(c, Alone(1, m[1]))
    BY <2>1, <2>3, <2>5, JoinMeetsOn
  <2>9. \A t : ToFirst(t)' = ToFirst(t) BY <2>1 DEF ToFirst
  <2>10. FullMeetsOn(joined)' BY <2>5, <2>8, <2>9 DEF FullMeetsOn
  <2>11. QED BY <2>2, <2>3, <2>5, <2>7, <2>10 DEF PlanInv
<1>5. CASE Filter
  <2>1. /\ UNCHANGED <<content, query, pushed, on, rest>> /\ stage = "joining" /\ joined = N
        /\ Pruned(N) /\ FullMeetsOn(N) /\ Planned /\ Asked /\ Filled
        /\ left' = {l \in left : \A c \in rest : Holds(c, l)}
        /\ full' = {l \in full : \A c \in query.where : Holds(c, l)}
        /\ stage' = "done"
    BY <1>5 DEF Filter, PlanInv
  <2>2. Planned' /\ Asked' /\ Filled'
    BY <2>1, SameQuery, SamePlan
  <2>3. left' = full' BY <2>1, FilterIs
  <2>4. QED BY <2>1, <2>2, <2>3 DEF PlanInv
<1>6. QED BY <1>1, <1>2, <1>3, <1>4, <1>5 DEF Next

(* Of every statement, at each step of its plan and its execution.         *)
THEOREM PlanInvariance ==
    ASSUME AllAvoided
    PROVE  Spec => []PlanInv
<1>1. Init => PlanInv BY InitPlanInv
<1>2. PlanInv /\ [Next]_vars => PlanInv' BY NextPlanInv
<1>3. QED BY <1>1, <1>2, PTL DEF Spec

(* A planned query fails never and returns just the rows that the query,   *)
(* joined in full and filtered at the end, has (planner.py:3-7).           *)
THEOREM PushDownIsEquivalent ==
    ASSUME AllAvoided
    PROVE  Spec => []PlanIsEquivalent
<1>1. PlanInv => PlanIsEquivalent BY DEF PlanInv, PlanIsEquivalent
<1>2. QED BY <1>1, PlanInvariance, PTL

(* At each join, push-down has only removed rows: none is made up, not by  *)
(* a left join whose match a filter has removed.                           *)
THEOREM PushDownMakesNothingUp ==
    ASSUME AllAvoided
    PROVE  Spec => []NothingIsMadeUp
<1>1. PlanInv => NothingIsMadeUp BY DEF PlanInv, NothingIsMadeUp, Pruned
<1>2. QED BY <1>1, PlanInvariance, PTL
=============================================================================
