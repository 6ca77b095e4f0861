------------------------------- MODULE Parser -------------------------------
(***************************************************************************)
(* The recursive descent of SELECT and of expressions (sql/parser.py), and *)
(* next to it the grammar its header documents, as a printer.              *)
(*                                                                         *)
(* A text is a sequence of tokens: words, punctuation, names and numbers.  *)
(* A qualified name is one token, and so are a string and t.*.  A tree is  *)
(* a tuple of its label and its subtrees.                                  *)
(***************************************************************************)
EXTENDS Naturals, Sequences, FiniteSets, SequencesExt

CONSTANTS
    Name,       \* tokens that are identifiers
    Number,     \* tokens that are numbers
    Typed,      \* tokens that are typed at random
    First,      \* the expression that is written first
    Operand,    \* those it is combined with
    MaxTyped,   \* bound: tokens typed
    MaxOps,     \* bound: times a written expression is combined
    Avoided     \* situations that are kept out (see Sound)

ASSUME ParserAssumption ==
    /\ {MaxTyped, MaxOps} \subseteq Nat
    /\ Avoided \subseteq {"NOT-before-a-comparison"}

VARIABLES
    text,       \* what is parsed
    form,       \* what it was written from, or Unwritten
    ops,        \* how often form was combined
    parsed      \* what parse_select returned for text, or Unparsed

vars == <<text, form, ops, parsed>>

Compares == {"=", "<"}
Functions == {"COUNT", "MAX"}
Reserved ==
    {"SELECT", "FROM", "JOIN", "INNER", "LEFT", "OUTER", "ON", "AS", "WHERE", "GROUP", "BY", "HAVING",
     "ORDER", "ASC", "DESC", "LIMIT", "OFFSET", "AND", "OR", "IS", "IN", "LIKE", "BETWEEN"}
\* keywords that _RESERVED_AS_NAME leaves out: they can be columns
Unreserved == {"NOT", "DISTINCT"}
Identifier == Name \cup Reserved \cup Unreserved \cup Functions \cup {"NULL"}

-----------------------------------------------------------------------------
(* What a parsing method returns: its tree, and where it left off.         *)

Got(i, tree) == [at |-> i, tree |-> tree]
Fail == Got(0, <<"ParseError">>)

At(i) == IF i \in 1..Len(text) THEN text[i] ELSE "EOF"

Over(r, tree) == IF r = Fail THEN Fail ELSE Got(r.at, tree)
Skipped(r) == IF r = Fail THEN Fail ELSE Got(r.at + 1, r.tree)

\* expect
Expect(r, word) == IF At(r.at) = word THEN Skipped(r) ELSE Fail

\* match_word
Matched(r, word) == IF At(r.at) = word THEN Skipped(r) ELSE r

Unary(op, r) == Over(r, <<op, r.tree>>)
Binary(op, l, r) == IF l = Fail THEN Fail ELSE Over(r, <<op, l.tree, r.tree>>)

\* a list gets one more item, an operator takes what is on its left whole
Joined(op, l, r) ==
    IF op = "," /\ l # Fail THEN Over(r, Append(l.tree, r.tree)) ELSE Binary(op, l, r)

-----------------------------------------------------------------------------
(* The descent.  Each level of an expression takes what binds as closely   *)
(* as it does or closer; the first and the last are for the items of the   *)
(* lists after SELECT and ORDER BY.                                        *)

Projection == 0
Disjunction == 1
Conjunction == 2
Negation == 3
Comparison == 4
Additive == 5
Multiplicative == 6
Sign == 7
Primary == 8
OrderItem == 9

\* Mutant of Words: AND and OR are taken at each other's level.
WordsSwapped(level) ==
    CASE level = Disjunction -> {"AND"} [] level = Conjunction -> {"OR"}
      [] level = Additive -> {"+", "-"} [] level = Multiplicative -> {"*"}

Words(level) ==
    CASE level = Disjunction -> {"OR"} [] level = Conjunction -> {"AND"}
      [] level = Additive -> {"+", "-"} [] level = Multiplicative -> {"*"}

RECURSIVE Parsed(_, _), Chained(_, _, _), Compared(_), Joins(_)

\* the loops over the operators of a level, and over the items of a list
Chained(level, words, left) ==
    IF At(left.at) \notin words THEN left
    ELSE Chained(level, words, Joined(At(left.at), left, Parsed(level, left.at + 1)))

ListOf(level, i) ==
    LET first == Parsed(level, i) IN Chained(level, {","}, Over(first, <<"list", first.tree>>))

\* an explicit list of IN is folded to a chain of =
AnyOf(left, items) ==
    LET equal == [k \in 1..Len(items) |-> <<"=", left, items[k]>>]
    IN  FoldLeft(LAMBDA cond, e : <<"OR", cond, e>>, equal[1], Tail(equal))

\* _parse_in_tail
InTail(left, i, negated) ==
    LET items == Expect(ListOf(Additive, i + 1), ")")
        folded == Over(items, AnyOf(left.tree, Tail(items.tree)))
    IN  CASE At(i) = "(" /\ At(i + 1) = "SELECT" ->
               Binary(IF negated THEN "NOT IN" ELSE "IN", left, Parsed(Primary, i))
          [] At(i) = "(" /\ At(i + 1) # "SELECT" ->
               IF negated THEN Unary("NOT", folded) ELSE folded
          [] OTHER -> Fail

\* _parse_comparison, with what it has so far
Compared(left) ==
    LET negated == At(left.at) = "NOT"
        i == IF negated THEN left.at + 1 ELSE left.at
        op == At(i)
        right == Parsed(Additive, i + 1)
        high == Parsed(Additive, Expect(right, "AND").at)
        between == Over(high, <<"BETWEEN", left.tree, right.tree, high.tree>>)
        null == IF At(i + 1) = "NOT" THEN Got(i + 2, <<"IS NOT NULL", left.tree>>)
                ELSE Got(i + 1, <<"IS NULL", left.tree>>)
        more ==
          CASE op \in Compares -> Binary(op, left, right)
            [] op = "LIKE" -> Binary(IF negated THEN "NOT LIKE" ELSE op, left, right)
            [] op = "IN" -> InTail(left, i + 1, negated)
            [] op = "BETWEEN" -> IF negated THEN Unary("NOT", between) ELSE between
            [] op = "IS" -> IF negated THEN Fail ELSE Expect(null, "NULL")
            [] OTHER -> Fail
        ends == ~negated /\ op \notin Compares \cup {"LIKE", "IN", "BETWEEN", "IS"}
    IN  IF left = Fail \/ ends THEN left ELSE Compared(more)

\* _parse_func
Call(i) ==
    LET open == Expect(Got(i + 1, <<>>), "(")
        distinct == At(open.at) = "DISTINCT"
        from == Matched(open, "DISTINCT").at
        args == CASE At(from) = "*" -> Got(from + 1, <<"list", <<"*">>>>)
                  [] At(from) = ")" -> Got(from, <<"list">>)
                  [] OTHER -> ListOf(Disjunction, from)
    IN  IF open = Fail THEN Fail
        ELSE Unary(IF distinct THEN At(i) \o " DISTINCT" ELSE At(i), Expect(args, ")"))

Ident(i) == IF At(i) \in Identifier THEN Got(i + 1, <<At(i)>>) ELSE Fail

\* a table and its alias
Source(i) ==
    LET table == Ident(i)
        alias == IF At(table.at) = "AS" THEN Ident(table.at + 1) ELSE Ident(table.at)
    IN  IF At(table.at) \in Name \cup {"AS"} THEN Binary("AS", table, alias) ELSE table

Clause(r, word, Body(_)) ==
    LET part == Body(r.at + 1)
    IN  IF At(r.at) # word THEN r ELSE Over(part, Append(r.tree, <<word, part.tree>>))

\* _parse_joins
Joins(r) ==
    LET word == At(r.at)
        start == CASE word = "INNER" -> Expect(Skipped(r), "JOIN")
                   [] word = "LEFT" -> Expect(Matched(Skipped(r), "OUTER"), "JOIN")
                   [] OTHER -> Skipped(r)
        source == Source(start.at)
        cond == IF At(source.at) = "ON" THEN Parsed(Disjunction, source.at + 1) ELSE Fail
        label == IF word = "LEFT" THEN "LEFT JOIN" ELSE "JOIN"
    IN  IF word \notin {"INNER", "LEFT", "JOIN"} THEN r
        ELSE Joins(Over(cond, Append(r.tree, <<label, source.tree, cond.tree>>)))

Expr(i) == Parsed(Disjunction, i)
By(level, i) == IF At(i) = "BY" THEN ListOf(level, i + 1) ELSE Fail
Groups(i) == By(Disjunction, i)
Orders(i) == By(OrderItem, i)
Amount(i) == IF At(i) \in Number THEN Got(i + 1, <<At(i)>>) ELSE Fail

\* LIMIT and OFFSET in either order; they stay in that order here
Paged(r) ==
    IF At(r.at) = "LIMIT" THEN Clause(Clause(r, "LIMIT", Amount), "OFFSET", Amount)
    ELSE IF At(r.at) = "OFFSET" THEN Clause(Clause(r, "OFFSET", Amount), "LIMIT", Amount)
    ELSE r

Selected(i) ==
    LET items == ListOf(Projection, Matched(Got(i + 1, <<>>), "DISTINCT").at)
    IN  Unary(IF At(i + 1) = "DISTINCT" THEN "SELECT DISTINCT" ELSE "SELECT", items)
Sourced(r) == IF At(r.at) = "FROM" THEN Joins(Clause(r, "FROM", Source)) ELSE r
Grouped(r) ==
    IF At(r.at) = "GROUP" THEN Clause(Clause(r, "GROUP", Groups), "HAVING", Expr) ELSE r

\* parse_select
Select(i) ==
    Paged(Clause(Grouped(Clause(Sourced(Selected(i)), "WHERE", Expr)), "ORDER", Orders))

\* _parse_primary
Atom(i) ==
    LET t == At(i)
        inner == IF At(i + 1) = "SELECT" THEN Select(i + 1) ELSE Expr(i + 1)
    IN  CASE t \in Name \cup Number \cup Unreserved \cup {"NULL"} -> Got(i + 1, <<t>>)
          [] t = "(" -> Expect(inner, ")")
          [] t \in Functions -> Call(i)
          [] OTHER -> Fail

Ordered(e) ==
    IF At(e.at) = "DESC" THEN Skipped(Unary("DESC", e)) ELSE Matched(Unary("ASC", e), "ASC")

Parsed(level, i) ==
    CASE level = Projection -> IF At(i) = "*" THEN Got(i + 1, <<"*">>) ELSE Expr(i)
      [] level \in {Disjunction, Conjunction, Additive, Multiplicative} ->
            Chained(level + 1, Words(level), Parsed(level + 1, i))
      [] level = Negation ->
            IF At(i) = "NOT" THEN Unary("NOT", Parsed(level, i + 1)) ELSE Parsed(level + 1, i)
      [] level = Comparison -> Compared(Parsed(level + 1, i))
      [] level = Sign -> IF At(i) = "-" THEN Unary("-", Parsed(level, i + 1))
                         ELSE IF At(i) = "+" THEN Parsed(level, i + 1) ELSE Parsed(level + 1, i)
      [] level = Primary -> Atom(i)
      [] level = OrderItem -> Ordered(Expr(i))

-----------------------------------------------------------------------------
(* Reference: how a tree is written, with as few parentheses as the levels *)
(* of the documented grammar need.                                         *)

Infix ==
    {"OR", "AND", "+", "-", "*", "=", "<", "LIKE", "NOT LIKE", "IN", "NOT IN", "AS"}
Postfix == {"IS NULL", "IS NOT NULL", "ASC", "DESC"}
Prefix == {"NOT", "-", "FROM", "WHERE", "GROUP", "HAVING", "ORDER", "LIMIT", "OFFSET"}

\* a query stands in parentheses wherever an expression does, and what is none has none
LevelOf(e) ==
    CASE e[1] \in {"SELECT", "SELECT DISTINCT"} -> Projection
      [] e[1] = "OR" -> Disjunction
      [] e[1] = "AND" -> Conjunction
      [] e[1] = "NOT" /\ Len(e) = 2 -> Negation
      [] e[1] \in {"=", "<", "LIKE", "NOT LIKE", "IN", "NOT IN", "IN list", "NOT IN list", "BETWEEN",
                   "NOT BETWEEN", "IS NULL", "IS NOT NULL"} -> Comparison
      [] e[1] \in {"+", "-"} /\ Len(e) = 3 -> Additive
      [] e[1] = "*" /\ Len(e) = 3 -> Multiplicative
      [] e[1] = "-" /\ Len(e) = 2 -> Sign
      [] OTHER -> OrderItem

\* the words of a label
Spelled(label) ==
    CASE label = "NOT LIKE" -> <<"NOT", "LIKE">>
      [] label = "IS NULL" -> <<"IS", "NULL">>
      [] label = "IS NOT NULL" -> <<"IS", "NOT", "NULL">>
      [] label = "IN list" -> <<"IN">>
      [] label \in {"NOT IN", "NOT IN list"} -> <<"NOT", "IN">>
      [] label = "NOT BETWEEN" -> <<"NOT", "BETWEEN">>
      [] label = "LEFT JOIN" -> <<"LEFT", "JOIN">>
      [] label = "SELECT DISTINCT" -> <<"SELECT", "DISTINCT">>
      [] label \in {"GROUP", "ORDER"} -> <<label, "BY">>
      [] label \in Functions -> <<label, "(">>
      [] label \in {f \o " DISTINCT" : f \in Functions} ->
           <<CHOOSE f \in Functions : label = f \o " DISTINCT", "(", "DISTINCT">>
      [] OTHER -> <<label>>

RECURSIVE Written(_, _)
Written(e, level) ==
    LET mine == LevelOf(e)
        inner == IF mine = OrderItem THEN Disjunction ELSE mine
        words == Spelled(e[1])
        Part(k, l) == Written(e[k], l)
        Sequel(separator, l) ==
            FoldLeft(LAMBDA so, k : so \o separator \o Part(k, l), Part(2, l), [k \in 1..Len(e) - 2 |-> k + 2])
        bare ==
          CASE Len(e) = 1 -> IF e[1] = "list" THEN <<>> ELSE <<e[1]>>
            [] e[1] \in Infix /\ Len(e) = 3 -> Part(2, inner) \o words \o Part(3, inner + 1)
            [] e[1] \in Prefix /\ Len(e) = 2 -> words \o Part(2, inner)
            [] e[1] \in Postfix -> Part(2, inner) \o words
            [] e[1] \in {"BETWEEN", "NOT BETWEEN"} ->
                 Part(2, inner) \o words \o Part(3, Additive) \o <<"AND">> \o Part(4, Additive)
            [] e[1] \in {"IN list", "NOT IN list"} ->
                 Part(2, inner) \o words \o <<"(">> \o Part(3, Additive) \o <<")">>
            [] e[1] = "list" /\ Len(e) > 1 -> Sequel(<<",">>, Disjunction)
            [] e[1] = "values" -> Sequel(<<",">>, Additive)
            [] e[1] \in {"JOIN", "LEFT JOIN"} ->
                 words \o Part(2, Disjunction) \o <<"ON">> \o Part(3, Disjunction)
            [] mine = Projection -> words \o Sequel(<<>>, Projection)
            [] OTHER -> words \o Part(2, Disjunction) \o <<")">>
    IN  IF mine < level THEN <<"(">> \o bare \o <<")">> ELSE bare

\* what a form means: an explicit list and NOT BETWEEN are short for others
RECURSIVE Meant(_)
Meant(e) ==
    LET parts == [k \in 1..Len(e) |-> IF k = 1 THEN e[1] ELSE Meant(e[k])]
        any == AnyOf(parts[2], Tail(parts[3]))
    IN  CASE e[1] = "IN list" -> any
          [] e[1] = "NOT IN list" -> <<"NOT", any>>
          [] e[1] = "NOT BETWEEN" -> <<"NOT", <<"BETWEEN", parts[2], parts[3], parts[4]>>>>
          [] OTHER -> parts

-----------------------------------------------------------------------------
(* Texts: tokens typed one by one after WHERE, and statements written from *)
(* expressions that are combined with more and more operands.              *)

Unwritten == <<"unwritten">>
Unparsed == Got(1, <<"unparsed">>)
List(e) == <<"list", e>>
Condition(e) == <<"SELECT", List(<<"*">>), <<"WHERE", e>>>>
Nested(e) == <<"SELECT", List(e), <<"FROM", <<"t">>>>, <<"WHERE", e>>>>

Kept(situation, Occurs) == situation \in Avoided => ~Occurs
Sound ==
    Kept("NOT-before-a-comparison",
         \E k \in 1..Len(text) - 1 : text[k] = "NOT" /\ text[k + 1] \in Compares)

Combined(e, f) ==
    {<<op, e, f>> : op \in Infix \ {"IN", "NOT IN", "AS"}}
    \cup {<<op, f, e>> : op \in Infix \ {"IN", "NOT IN", "AS"}}
    \cup {<<op, e>> : op \in {"NOT", "-", "IS NULL", "IS NOT NULL"}}
    \cup UNION {{<<op, e, f, f>>, <<op, f, e, f>>, <<op, f, f, e>>} : op \in {"BETWEEN", "NOT BETWEEN"}}
    \cup UNION {{<<op, e, <<"values", f>>>>, <<op, f, <<"values", f, e>>>>} :
                  op \in {"IN list", "NOT IN list"}}
    \cup {<<op, f, Nested(e)>> : op \in {"IN", "NOT IN"}}
    \cup {Nested(e), <<"MAX", List(e)>>, <<"COUNT DISTINCT", <<"list", f, e>>>>}

\* statements with e wherever a clause can have it
Asked(e) ==
    LET aliased == <<"AS", <<"t">>, <<"u">>>>
        Optional(clauses) == {<<>>} \cup clauses
        froms == {<<<<"FROM", <<"t">>>>>>,
                  <<<<"FROM", aliased>>, <<"JOIN", <<"t">>, e>>, <<"LEFT JOIN", aliased, e>>>>}
        wheres == {<<<<"WHERE", e>>>>}
        groups == {<<<<"GROUP", <<"list", <<"a">>, e>>>>>>, <<<<"GROUP", List(e)>>, <<"HAVING", e>>>>}
        orders == {<<<<"ORDER", <<"list", <<"DESC", e>>, <<"ASC", e>>>>>>>>}
        pages == {<<<<"LIMIT", <<"1">>>>>>, <<<<"OFFSET", <<"1">>>>>>,
                  <<<<"LIMIT", <<"1">>>>, <<"OFFSET", <<"1">>>>>>,
                  <<<<"OFFSET", <<"1">>>>, <<"LIMIT", <<"1">>>>>>}
    IN  {<<label, items>> \o f \o w \o g \o o \o p :
           label \in {"SELECT", "SELECT DISTINCT"}, items \in {List(e), <<"list", <<"*">>, e>>},
           f \in Optional(froms), w \in Optional(wheres), g \in Optional(groups),
           o \in Optional(orders), p \in Optional(pages)}

Init ==
    /\ ops = 0 /\ parsed = Unparsed
    /\ form \in {Unwritten, First}
    /\ text = IF form = Unwritten THEN <<"SELECT", "*", "WHERE">>
              ELSE Written(Condition(form), Projection)

Type(token) ==
    /\ parsed = Unparsed
    /\ form = Unwritten /\ Len(text) < 3 + MaxTyped
    /\ text' = Append(text, token)
    /\ Sound'
    /\ UNCHANGED <<form, ops, parsed>>

Combine(f) ==
    /\ parsed = Unparsed
    /\ form # Unwritten /\ ops < MaxOps
    /\ \E e \in Combined(form, f) :
          form' = e /\ text' = Written(Condition(e), Projection)
    /\ ops' = ops + 1
    /\ UNCHANGED parsed

Ask(statement) ==
    /\ parsed = Unparsed /\ form = First
    /\ form' = statement /\ text' = Written(statement, Projection)
    /\ ops' = MaxOps + 1
    /\ UNCHANGED parsed

Parse ==
    /\ parsed = Unparsed
    /\ parsed' = Select(1)
    /\ UNCHANGED <<text, form, ops>>

Next ==
    \/ \E token \in Typed : Type(token)
    \/ \E f \in Operand : Combine(f)
    \/ \E e \in Operand : \E statement \in Asked(e) : Ask(statement)
    \/ Parse

Spec == Init /\ [][Next]_vars

-----------------------------------------------------------------------------
(* Properties.                                                             *)

\* Mutant of Accepted: what follows the statement is not looked at.
AcceptedAnyway == parsed \notin {Unparsed, Fail}

\* parse, which expects the end of the text
Accepted == parsed # Unparsed /\ parsed.at = Len(text) + 1

(* What is written with no more parentheses than the documented levels     *)
(* need (parser.py:15-18) is read as it was meant: binding, associativity, *)
(* which AND is a BETWEEN's, and where each clause of a query ends.        *)
ReadAsMeant ==
    form # Unwritten /\ parsed # Unparsed =>
       Accepted /\ parsed.tree = Meant(IF ops > MaxOps THEN form ELSE Condition(form))

(* Of an accepted text nothing but parentheses, signs and noise words is   *)
(* lost: the tree has each other token as often as the text.               *)
Noise == {"(", ")", "+", "ASC"}
Times(token, tokens) == Cardinality({k \in 1..Len(tokens) : tokens[k] = token})
NothingIsDropped ==
    form = Unwritten /\ Accepted =>
       LET again == Written(parsed.tree, Projection)
       IN  \A token \in Typed \ Noise : Times(token, again) = Times(token, text)
=============================================================================
