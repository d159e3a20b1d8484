------------------------------ MODULE Queries -------------------------------
(***************************************************************************)
(* What a SELECT answers (SqlSelect), and an instance of it: tables of two *)
(* columns a and b, and joins of a table on k and a table of k and c.      *)
(***************************************************************************)
EXTENDS SqlSelect, SqlExpressions

CONSTANTS MaxRows,  \* bound: rows of a table; one more of fewer values
          MaxSide   \* bound: rows of a side of a join

Names == {"a", "b", "k", "c", "l"}

(* Rows are as wide as their columns, but for the joins that pair two rows *)
(* of one side: LEFT and RIGHT look only at the keys, and OUTER puts rows  *)
(* of the right side where those of the left belong.                       *)
TypeOK ==
  /\ stage \in Ends \cup {"from", "collect", "group", "select", "distinct",
                          "order", "union", "value", "table"}
  /\ joining \in Ends \cup {"index", "merge"}
  /\ ToSet(relation.columns) \subseteq Names
  /\ from.type \in {"table", "inner", "cross"} =>
       \A row \in ToSet(relation.rows) : Len(row) = Len(relation.columns)
  /\ \A g \in ToSet(groups) : g.rows = <<>> => groups = EmptyGroup
  /\ \A row \in ToSet(rows) : Len(row.tuple) = Len(Columns)

(***************************************************************************)
(* Names                                                                   *)
(***************************************************************************)
(* In ORDER BY a name means a column of the table, though the rows by then *)
(* have the selected columns, under an alias or not at all.                *)
NamesMeanColumns ==
  Done /\ Plain =>
    \A i \in DOMAIN rows, k \in DOMAIN query.orderBy :
      LET e == query.orderBy[k].column
      IN e.op = "identifier" =>
           OrderKey(rows[i])[k] = InTable(e.name, relation.columns, Sources[i])

(***************************************************************************)
(* Groups                                                                  *)
(***************************************************************************)
Selected == SelectSeq(relation.rows, LAMBDA row : Included(row) = Yes)
Key(row) == GroupKey(row)
RowsOf(group) == SelectSeq(Selected, LAMBDA row : Key(row) = group)
GroupsThereAre ==
  IF query.groupBy = <<>> THEN {<<>>} ELSE {Key(row) : row \in ToSet(Selected)}

(* docs/Functions/Aggregate.md: R_n, the values that are not NULL *)
GivenValues(e, group) ==
  SelectSeq([i \in DOMAIN RowsOf(group) |->
               InTable(e.lhs.name, relation.columns, RowsOf(group)[i])],
            LAMBDA x : ~IsNull(x))
Total(values) == FoldLeft(LAMBDA acc, x : acc + x.v, 0, values)
Documented(op, values, V) ==
  CASE op = "COUNT" -> Int32(Len(values))
    [] op = "SUM" -> Float(2 * Total(values))
    [] op = "MIN" -> Float(2 * (CHOOSE m \in V : \A x \in V : m <= x))
    [] op = "MAX" -> Float(2 * (CHOOSE m \in V : \A x \in V : m >= x))
    [] op = "AVG" -> Float(Quotient(2 * Total(values), Len(values)))

(* MAX looks for a value above 0, MIN and AVG take NULL for 0. *)
Keeps(op, V, nulls) ==
  CASE op \in {"COUNT", "SUM"} -> TRUE
    [] op = "MAX" -> \E x \in V : x >= 0
    [] op = "MIN" -> V # {} /\ (nulls => \E x \in V : x <= 0)
    [] op = "AVG" -> V # {} /\ ~nulls

AnswersFor(x, e, group) ==
  LET values == GivenValues(e, group)
      V == {y.v : y \in ToSet(values)}
      nulls == Len(values) < Len(RowsOf(group))
  IN Keeps(e.op, V, nulls) => x = Documented(e.op, values, V)

(* A GROUP BY without HAVING gives one row for each value of its columns   *)
(* among the rows that pass WHERE, and the aggregates of that row are what *)
(* docs/Functions/Aggregate.md says of the values of that group which are  *)
(* not NULL: COUNT and SUM always, MAX if one is not negative, MIN if none *)
(* is NULL or one is not positive, AVG if none is NULL.  Without GROUP BY  *)
(* there is one row, if the table is empty or some row passes WHERE.  (An  *)
(* empty table has one group of no rows: aggregates under a GROUP BY give  *)
(* a row there, too.)                                                      *)
AggregatesAreAsDocumented ==
  Done /\ Grouping /\ query.having = None
  /\ (Selected # <<>> \/ (relation.rows = <<>> /\ query.groupBy = <<>>)) =>
    /\ Len(rows) = Cardinality(GroupsThereAre)
    /\ \A group \in GroupsThereAre : \E i \in DOMAIN rows : \A c \in DOMAIN Columns :
         LET e == Columns[c].column
         IN /\ e.op = "identifier" => rows[i].tuple[c] = group[1]
            /\ e.op \in Aggregates => AnswersFor(rows[i].tuple[c], e, group)

(* A name in ORDER BY and an aggregate in a group are worth what they say. *)
NamesAndAggregatesAreRight == NamesMeanColumns /\ AggregatesAreAsDocumented

(***************************************************************************)
(* Statements that cannot be evaluated                                     *)
(***************************************************************************)
BareBesideAggregate(e) ==
  /\ e.op \in Arithmetic
  /\ {"identifier"} = {x.op : x \in {e.lhs, e.rhs}} \ Aggregates

(* The rows are as wide as their columns (TypeOK), and a statement does    *)
(* something C++ does not define, or ends the process,                     *)
(* only if it joins nothing to nothing, groups an empty table by a column  *)
(* it selects, asks for DISTINCT groups, orders by an aggregate, has a     *)
(* CASE without an ELSE, or a bare column beside an aggregate in one       *)
(* expression.  Everything else ends in a result or an error.              *)
OnlyTheseAreUndefined ==
  TypeOK /\ (stage = "undefined" =>
    \/ from.type # "table" /\ from.lhs.rows \o from.rhs.rows = <<>>
    \/ query.groupBy # <<>> /\ relation.rows = <<>>
    \/ query.distinct /\ Grouping
    \/ \E k \in DOMAIN query.orderBy : query.orderBy[k].column.op \in Aggregates
    \/ \E c \in DOMAIN query.columns :
         LET e == query.columns[c].column
         IN (e.op = "CASE" /\ e.otherwise = NoElse) \/ BareBesideAggregate(e))

(* A statement always ends: the walk of a join moves on, and every clause  *)
(* is left.                                                                *)
StatementEnds == <>(stage \in Ends)

-----------------------------------------------------------------------------
(* The instance of the runs: the expressions of SqlExpressions, and statements *)
MCValueOf(e, f) == Evaluate(e, f)
MCAggregateIn(e) == ContainsAggregate(e)
MCNothingAskedIn(e) == AsksNothing(e)
MCColumnsIn(e) == ReferencedColumns(e)

MCStrings == <<[text |-> "null", number |-> <<>>, digits |-> FALSE],
               [text |-> "-1", number |-> <<-2>>, digits |-> FALSE],
               [text |-> "1", number |-> <<2>>, digits |-> TRUE],
               [text |-> "2", number |-> <<4>>, digits |-> TRUE],
               [text |-> "3", number |-> <<6>>, digits |-> TRUE]>>

a == Identifier("a")
b == Identifier("b")
Num(n) == Literal(Int32(n))
Column(alias, text, e) == [alias |-> alias, text |-> text, column |-> e]
Plainly(text, e) == Column("", text, e)
By(e, descending) == [column |-> e, descending |-> descending]
Top(percent, n) == [percent |-> percent, value |-> n]

Star ==
  [columns |-> <<>>, where |-> None, groupBy |-> <<>>, partition |-> FALSE,
   having |-> None, distinct |-> FALSE, orderBy |-> <<>>, top |-> None,
   use |-> [as |-> "done"]]
CountB == Plainly("COUNT(b)", Aggregate("COUNT", b))
GroupA == [Star EXCEPT !.groupBy = <<"a">>,
                       !.columns = <<Plainly("a", a), CountB,
                                     Column("s", "SUM(b)", Aggregate("SUM", b))>>]
OfAll(op) == [Star EXCEPT !.columns = <<Plainly(op, Aggregate(op, b))>>]

MCQueries ==
  { [Star EXCEPT !.where = Binary(">", b, Num(0)),
                 !.orderBy = <<By(a, FALSE), By(b, TRUE)>>],
    [Star EXCEPT !.distinct = TRUE, !.orderBy = <<By(b, FALSE)>>,
                 !.where = Binary("OR", Is("IS NULL", b), In(b, <<Num(3), Num(-1)>>))],
    [Star EXCEPT !.distinct = TRUE, !.groupBy = <<"a">>, !.partition = TRUE],
    [Star EXCEPT !.columns = <<Plainly("b", b)>>, !.orderBy = <<By(a, TRUE)>>,
                 !.top = Top(TRUE, 50)],
    [Star EXCEPT !.columns = <<Column("x", "b", b)>>, !.top = Top(FALSE, 2),
                 !.where = Between(b, Num(-1), Binary("+", a, Num(1))),
                 !.orderBy = <<By(Index(1), FALSE)>>],
    GroupA,
    [GroupA EXCEPT !.where = Binary("AND", Binary("!=", b, Num(3)), Is("IS NOT NULL", a)),
                   !.having = Binary(">", Aggregate("COUNT", b), Num(0)),
                   !.orderBy = <<By(Identifier("s"), TRUE)>>],
    [GroupA EXCEPT !.distinct = TRUE, !.columns = <<CountB>>],
    [GroupA EXCEPT !.partition = TRUE],
    [GroupA EXCEPT !.groupBy = <<"z">>],
    [GroupA EXCEPT !.having = Binary(">", Identifier("z"), Num(0))],
    [Star EXCEPT !.where = Binary("=", Identifier("z"), Num(0))],
    [Star EXCEPT !.columns = <<Plainly("z", Identifier("z"))>>],
    OfAll("COUNT"), OfAll("AVG"), OfAll("MIN"), OfAll("MAX"),
    [OfAll("COUNT") EXCEPT !.use = [as |-> "value"]],
    [Star EXCEPT !.use = [as |-> "value"]],
    [Star EXCEPT !.use = [as |-> "table"]],
    [Star EXCEPT !.use = [as |-> "union", distinct |-> TRUE, names |-> <<"a", "b">>,
                          rows |-> <<<<Int32(1), Null>>, <<Int32(2), Int32(3)>>>>]],
    [Star EXCEPT !.use = [as |-> "union", distinct |-> FALSE, names |-> <<"b", "a">>,
                          rows |-> <<<<Int32(1), Null>>>>]],
    [Star EXCEPT !.columns = <<Column("x", "\"null\"", Literal(VarcharAt(1)))>>,
                 !.use = [as |-> "union", distinct |-> TRUE, names |-> <<"x">>,
                          rows |-> <<<<Int32(1)>>>>]],
    [Star EXCEPT !.columns = <<CountB, Plainly("a", a)>>],
    [Star EXCEPT !.columns = <<Plainly("(COUNT(b) + a)",
                                       Binary("+", Aggregate("COUNT", b), a))>>],
    [Star EXCEPT !.columns = <<Plainly("c", Case(<<<<Binary("<", b, a), Num(1)>>>>, NoElse))>>],
    [Star EXCEPT !.columns = <<Plainly("c", Case(<<<<Binary("=", b, a), [op |-> "MINUS", lhs |-> b]>>>>,
                                                 Binary("*", b, Num(2))))>>],
    [Star EXCEPT !.orderBy = <<By(Aggregate("COUNT", b), FALSE)>>],
    [Star EXCEPT !.orderBy = <<By(Identifier("c"), FALSE)>>] }

SequencesUpTo(S, n) == UNION {[1..m -> S] : m \in 0..n}
Relation(columns, rows_) == [columns |-> columns, rows |-> rows_]
Nothing == Relation(<<>>, <<>>)
FromTable(t) ==
  [type |-> "table", lhs |-> t, rhs |-> Nothing, onLhs |-> "", onRhs |-> ""]
FromJoin(type, l, r) ==
  [type |-> type, lhs |-> l, rhs |-> r, onLhs |-> "k", onRhs |-> "k"]

MCRows == {Int32(1), Int32(2)} \X {Null, Int32(-1), Int32(3)}
SomeRows == {Int32(1), Int32(2)} \X {Null, Int32(3)}
MCTables ==
  {Relation(<<"a", "b">>, t) :
     t \in SequencesUpTo(MCRows, MaxRows) \cup [1..(MaxRows + 1) -> SomeRows]}
Keys == {Null, Int32(1), Int32(2), Int32(3)}
LeftSides == {Relation(<<"k">>, [i \in DOMAIN t |-> <<t[i]>>]) :
                t \in SequencesUpTo(Keys, MaxSide)}
RightSides == {Relation(<<"c", "k">>, [i \in DOMAIN t |-> <<Int32(10 + i), t[i]>>]) :
                 t \in SequencesUpTo(Keys, MaxSide)}

MCStatements ==
  [from : {FromTable(t) : t \in MCTables}, query : MCQueries]
  \cup [from : {FromJoin(type, l, r) : type \in {"inner", "left", "right", "outer", "cross"},
                                       l \in LeftSides, r \in RightSides},
        query : {Star}]
  \cup [from : {[FromJoin("inner", l, l) EXCEPT !.onRhs = "z"] : l \in LeftSides} \cup
               {[FromJoin("left", l, l) EXCEPT !.onLhs = "z"] : l \in LeftSides},
        query : {Star}]
  \cup [from : {[FromTable(Nothing) EXCEPT !.type = "none"]},
        query : {Star, OfAll("COUNT"),
                 [Star EXCEPT !.columns = <<Plainly("COUNT(5)", Aggregate("COUNT", Num(5)))>>]}]

=============================================================================
