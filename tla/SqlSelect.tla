----------------------------- MODULE SqlSelect ------------------------------
(***************************************************************************)
(* SELECT: Select::execute and Select::collect_rows (db/sql/Select.cpp)    *)
(* over the relation its FROM clause names (SqlJoins), and what is done    *)
(* with the result: UNION, a SELECT used as a value or as a table          *)
(* (db/sql/ast/Select.cpp).  SELECT INTO is in Catalog.  What expressions  *)
(* are is left open; SqlExpressions has those of the runs.                 *)
(*                                                                         *)
(* One step reads one row, evaluates one group or is one clause.  A step   *)
(* that meets an error ends the statement, and one that does what C++ does *)
(* not define, or fails an assertion, ends it as undefined.                *)
(***************************************************************************)
EXTENDS SqlFrames, SqlJoins

CONSTANTS
  Statements,        \* the statements: a FROM and what is selected from it
  ValueOf(_, _),     \* Expression::evaluate of an expression in a frame
  AggregateIn(_),    \* contains_aggregate_function
  NothingAskedIn(_), \* it asks the ELSE that a CASE does not have
  ColumnsIn(_)       \* referenced_columns

ASSUME StatementsAssumption ==
  \A statement \in Statements :
    /\ statement.from \in Joinable
    /\ statement.query.use.as \in {"done", "union", "value", "table"}
    /\ statement.query.orderBy \in Seq(ToSet(statement.query.orderBy))

VARIABLES
  query,   \* the SELECT: columns, where, groupBy, partition, having,
           \* distinct, orderBy, top, and what is done with its result
  stage,   \* the clause that comes next
  at,      \* rows read, or groups evaluated, so far
  groups,  \* nonaggregated_row_groups: key and rows, in the order of the keys
  rows,    \* the selected rows: tuple and source
  result   \* the tuples that are returned

selectVars == <<query, stage, at, groups, rows, result>>
vars == <<joinVars, selectVars>>

None == [op |-> "none"]
Ends == {"done", "error", "undefined"}

Init ==
  \E statement \in Statements :
    /\ JoinInit(statement.from)
    /\ query = statement.query
    /\ stage = "from" /\ at = 0
    /\ groups = <<>> /\ rows = <<>> /\ result = <<>>

(* The statement stops with the error, or the undefined operation, x. *)
Fail(x) ==
  /\ stage' = IF x = Trap THEN "undefined" ELSE "error"
  /\ UNCHANGED <<query, at, groups, rows, result>>

(* SELECT * has an IndexExpression for each column of the table. *)
Columns ==
  IF query.columns # <<>> THEN query.columns
  ELSE Once([i \in DOMAIN relation.columns |->
               [alias |-> "", text |-> relation.columns[i], column |-> Index(i)]])

Frame(row, source, group, ofTable) ==
  [names |-> relation.columns, row |-> row, source |-> source,
   group |-> group, columns |-> Columns, ofTable |-> ofTable]

Evaluated(e, f) == IF e.op = "index" THEN AtIndex(e.index, f) ELSE ValueOf(e, f)

FirstError(values) ==
  LET failed == {i \in DOMAIN values : IsError(values[i])}
  IN IF failed = {} THEN Null ELSE values[First(failed)]

(***************************************************************************)
(* FROM                                                                    *)
(***************************************************************************)
EvaluateFrom ==
  /\ stage = "from" /\ from.type # "none"
  /\ joining \in {"index", "merge"}
  /\ JoinNext
  /\ UNCHANGED selectVars

FromEvaluated ==
  /\ stage = "from"
  /\ joining \in Ends
  /\ stage' = IF joining = "done" THEN "collect" ELSE joining
  /\ UNCHANGED <<joinVars, query, at, groups, rows, result>>

SelectWithoutFrom ==
  /\ stage = "from" /\ from.type = "none"
  /\ LET frame == Frame(<<>>, NoRow, NoGroup, TRUE)
         values == Once([i \in DOMAIN query.columns |->
                           Evaluated(query.columns[i].column, frame)])
     IN IF query.columns = <<>> THEN Fail(Error)
        ELSE IF IsError(FirstError(values)) THEN Fail(FirstError(values))
        ELSE /\ rows' = <<[tuple |-> values, source |-> NoRow]>>
             /\ stage' = "distinct"
             /\ UNCHANGED <<query, at, groups, result>>
  /\ UNCHANGED joinVars

(***************************************************************************)
(* WHERE, GROUP BY and PARTITION BY                                        *)
(***************************************************************************)
Included(row) ==
  IF query.where = None THEN Yes
  ELSE Truthy(Evaluated(query.where, Frame(row, NoRow, NoGroup, TRUE)))

GroupKey(row) ==
  Once([k \in DOMAIN query.groupBy |-> InTable(query.groupBy[k], relation.columns, row)])

SameKeyOf(key, other) == ~TupleLess(key, other) /\ ~TupleLess(other, key)

AssignToGroup(map, key, row) ==              \* = in the place of push_back
  LET same == {i \in DOMAIN map : SameKeyOf(key, map[i].key)}
  IN IF same # {} THEN [map EXCEPT ![First(same)].rows = <<row>>]
     ELSE Append(map, [key |-> key, rows |-> <<row>>])

(* std::map::operator[] and push_back *)
AddToGroup(map, key, row) ==
  LET same == {i \in DOMAIN map : SameKeyOf(key, map[i].key)}
      before == {i \in DOMAIN map : TupleLess(map[i].key, key)}
  IN IF same # {} THEN [map EXCEPT ![First(same)].rows = Append(@, row)]
     ELSE InsertAt(map, Cardinality(before) + 1, [key |-> key, rows |-> <<row>>])

CollectRow ==
  /\ stage = "collect" /\ at < Len(relation.rows)
  /\ \E row \in {relation.rows[at + 1]} : \E included \in {Included(row)} :
       \/ IsError(included) /\ Fail(included)
       \/ /\ included = No
          /\ at' = at + 1
          /\ UNCHANGED <<query, stage, groups, rows, result>>
       \/ /\ included = Yes
          /\ \E key \in {GroupKey(row)} :
               IF IsError(FirstError(key)) THEN Fail(Error)
               ELSE /\ at' = at + 1
                    /\ groups' = AddToGroup(groups, key, row)
                    /\ UNCHANGED <<query, stage, rows, result>>
  /\ UNCHANGED joinVars

(* contains_aggregate_function of the columns, up to one that has one *)
HasAggregate == \E i \in DOMAIN Columns : AggregateIn(Columns[i].column)
AsksNoElse ==
  \E i \in DOMAIN Columns :
    /\ NothingAskedIn(Columns[i].column)
    /\ \A j \in 1..(i - 1) : ~AggregateIn(Columns[j].column)

ShouldGroup == IF query.groupBy # <<>> THEN ~query.partition ELSE HasAggregate

(* An empty table gets one empty group, and its columns are checked on a   *)
(* row of NULLs.                                                           *)
EmptyGroup == <<[key |-> <<>>, rows |-> <<>>]>>

OnDummyRow ==
  LET dummy == [i \in DOMAIN relation.columns |-> Null]
  IN Once([i \in DOMAIN query.columns |->
             Evaluated(query.columns[i].column, Frame(dummy, NoRow, <<dummy>>, TRUE))])

RowsCollected ==
  /\ stage = "collect" /\ at = Len(relation.rows)
  /\ IF query.groupBy = <<>> /\ AsksNoElse THEN Fail(Trap)
     ELSE IF relation.rows = <<>> /\ IsError(FirstError(OnDummyRow))
     THEN Fail(FirstError(OnDummyRow))
     ELSE /\ stage' = IF ShouldGroup THEN "group" ELSE "select"
          /\ at' = 0
          /\ groups' = IF relation.rows = <<>> /\ ShouldGroup THEN EmptyGroup ELSE groups
          /\ UNCHANGED <<query, rows, result>>
  /\ UNCHANGED joinVars

(***************************************************************************)
(* The selected columns, and HAVING                                        *)
(***************************************************************************)
InGroupBy(e) == \E k \in DOMAIN query.groupBy : query.groupBy[k] \in ColumnsIn(e)

InAnyGroup(e, group) ==                      \* the columns of GROUP BY not asked
  IF AggregateIn(e)
  THEN Evaluated(e, Frame(<<>>, NoRow, group.rows, TRUE))
  ELSE IF group.rows = <<>> THEN Trap
  ELSE Evaluated(e, Frame(group.rows[1], NoRow, group.rows, TRUE))

(* A grouped column is evaluated on the first row of the group, which the  *)
(* group of an empty table does not have.                                  *)
InGroup(e, group) ==
  IF NothingAskedIn(e) THEN Trap
  ELSE IF AggregateIn(e) THEN Evaluated(e, Frame(<<>>, NoRow, group.rows, TRUE))
  ELSE IF ~InGroupBy(e) THEN Error
  ELSE IF group.rows = <<>> THEN Trap
  ELSE Evaluated(e, Frame(group.rows[1], NoRow, group.rows, TRUE))

HavingHolds(values, group) ==
  IF query.having = None THEN Yes
  ELSE Truthy(Evaluated(query.having, Frame(values, NoRow, group.rows, FALSE)))

EvaluateGroup ==
  /\ stage = "group" /\ at < Len(groups)
  /\ \E group \in {groups[at + 1]} :
     \E values \in {Once([i \in DOMAIN Columns |-> InGroup(Columns[i].column, group)])} :
       \/ IsError(FirstError(values)) /\ Fail(FirstError(values))
       \/ /\ ~IsError(FirstError(values))
          /\ \E having \in {HavingHolds(values, group)} :
               IF IsError(having) THEN Fail(having)
               ELSE /\ at' = at + 1
                    /\ rows' = IF having = No THEN rows
                               ELSE Append(rows, [tuple |-> values, source |-> NoRow])
                    /\ UNCHANGED <<query, stage, groups, result>>
  /\ UNCHANGED joinVars

(* PARTITION BY and plain columns: every row is kept, with its source. *)
SelectedRow(row, group) ==
  [tuple |-> Once([i \in DOMAIN Columns |->
                     Evaluated(Columns[i].column, Frame(row, row, group.rows, TRUE))]),
   source |-> row]

EvaluateRows ==
  /\ stage = "select" /\ at < Len(groups)
  /\ \E group \in {groups[at + 1]} :
     \E selected \in {Once([r \in DOMAIN group.rows |-> SelectedRow(group.rows[r], group)])} :
       LET failed == {r \in DOMAIN selected : IsError(FirstError(selected[r].tuple))}
       IN \/ failed # {} /\ Fail(FirstError(selected[First(failed)].tuple))
          \/ /\ failed = {}
             /\ at' = at + 1
             /\ rows' = rows \o selected
             /\ UNCHANGED <<query, stage, groups, result>>
  /\ UNCHANGED joinVars

RowsSelected ==
  /\ stage \in {"group", "select"} /\ at = Len(groups)
  /\ stage' = "distinct"
  /\ at' = 0
  /\ UNCHANGED <<joinVars, query, groups, rows, result>>

(***************************************************************************)
(* DISTINCT, ORDER BY and TOP                                              *)
(***************************************************************************)
(* Two rows are one if their tuples are and the rows they came from are;   *)
(* asking for the source of a row that has none throws.                    *)
SameRow(r, s) ==
  LET same == TupleEqual(r.tuple, s.tuple)
  IN CASE same # Yes -> same
       [] same = Yes /\ r.source = NoRow -> Trap
       [] same = Yes /\ r.source # NoRow -> TupleEqual(r.source, s.source)

(* Rows 1..at are the occurrences found so far. *)
DistinctRow ==
  /\ stage = "distinct" /\ query.distinct /\ at < Len(rows)
  /\ LET settled == {i \in 1..at : SameRow(rows[at + 1], rows[i]) # No}
         same == SameRow(rows[at + 1], rows[First(settled)])
     IN \/ /\ settled = {}
           /\ at' = at + 1
           /\ UNCHANGED <<query, stage, groups, rows, result>>
        \/ /\ settled # {} /\ same = Yes
           /\ rows' = RemoveAt(rows, at + 1)
           /\ UNCHANGED <<query, stage, at, groups, result>>
        \/ /\ settled # {} /\ same # Yes
           /\ Fail(same)
  /\ UNCHANGED joinVars

RowsDistinct ==
  /\ stage = "distinct" /\ (query.distinct => at = Len(rows))
  /\ stage' = "order"
  /\ at' = 0
  /\ UNCHANGED <<joinVars, query, groups, rows, result>>

(* The span of the group dangles by now. *)
OrderKey(row) ==
  Once([k \in DOMAIN query.orderBy |->
          Evaluated(query.orderBy[k].column,
                   Frame(row.tuple, row.source,
                         IF from.type = "none" THEN NoGroup ELSE Freed, FALSE))])

(* A descending column changes sides. *)
Side(key, other) ==
  [k \in DOMAIN key |-> IF query.orderBy[k].descending THEN other[k] ELSE key[k]]

GoesNotAfter(key, other) ==                  \* <= in the place of <
  ~TupleLess(Side(other, key), Side(key, other))

GoesBefore(key, other) == TupleLess(Side(key, other), Side(other, key))

(* std::stable_sort: a row goes behind those before it that it does not    *)
(* precede.  Of one row nothing is asked.                                  *)
OrderRow ==
  /\ stage = "order" /\ query.orderBy # <<>>
  /\ Len(rows) > 1 /\ at < Len(rows)
  /\ \E key \in {OrderKey(rows[at + 1])} :
       \/ IsError(FirstError(key)) /\ Fail(FirstError(key))
       \/ /\ ~IsError(FirstError(key))
          /\ LET ahead == {i \in 1..at : ~GoesBefore(key, OrderKey(rows[i]))}
             IN rows' = InsertAt(RemoveAt(rows, at + 1), Cardinality(ahead) + 1, rows[at + 1])
          /\ at' = at + 1
          /\ UNCHANGED <<query, stage, groups, result>>
  /\ UNCHANGED joinVars

Smaller(m, n) == IF m < n THEN m ELSE n

Kept(n) ==
  CASE query.top = None -> n
    [] query.top # None /\ query.top.percent -> (n * Smaller(query.top.value, 100)) \div 100
    [] query.top # None /\ ~query.top.percent -> Smaller(query.top.value, n)

TakeTop ==
  /\ stage = "order"
  /\ query.orderBy # <<>> /\ Len(rows) > 1 => at = Len(rows)
  /\ result' = [i \in 1..Kept(Len(rows)) |-> rows[i].tuple]
  /\ stage' = query.use.as
  /\ UNCHANGED <<joinVars, query, at, groups, rows>>

(***************************************************************************)
(* What becomes of the result.  UNION evaluates the other SELECT after     *)
(* this one: query.use has the names of its columns and its rows.  A row   *)
(* is compared with those of this SELECT until one is equal.               *)
(***************************************************************************)
ColumnNames ==
  [i \in DOMAIN Columns |->
     IF Columns[i].alias # "" THEN Columns[i].alias ELSE Columns[i].text]

Among(row, left) ==
  LET met == {i \in DOMAIN left : TupleEqual(row, left[i]) # No}
  IN IF met = {} THEN No
     ELSE TupleEqual(row, left[CHOOSE i \in met : \A j \in met : i <= j])
Unite(left, right, distinct) ==
  left \o (IF distinct THEN SelectSeq(right, LAMBDA row : Among(row, left) = No) ELSE right)

MakeUnion ==
  /\ stage = "union"
  /\ IF /\ ColumnNames = query.use.names
        /\ query.use.distinct =>
             \A i \in DOMAIN query.use.rows : Among(query.use.rows[i], result) \in {Yes, No}
     THEN /\ result' = Unite(result, query.use.rows, query.use.distinct)
          /\ stage' = "done"
     ELSE stage' = "error" /\ UNCHANGED result
  /\ UNCHANGED <<joinVars, query, at, groups, rows>>

(* SelectExpression::evaluate *)
AsValue ==
  /\ stage = "value"
  /\ stage' = IF Len(result) = 1 /\ Len(Columns) = 1 THEN "done" ELSE "error"
  /\ UNCHANGED <<joinVars, query, at, groups, rows, result>>

(* SelectTableExpression::evaluate: the first row gives the columns their  *)
(* types, and Table::insert refuses a value of another type.               *)
AsTable ==
  /\ stage = "table"
  /\ stage' = IF \A i \in DOMAIN result, c \in DOMAIN Columns :
                   IsNull(result[i][c]) \/ result[i][c].type = result[1][c].type
              THEN "done" ELSE "error"
  /\ UNCHANGED <<joinVars, query, at, groups, rows, result>>

Ended == stage \in Ends /\ UNCHANGED vars

Next ==
  \/ EvaluateFrom \/ FromEvaluated \/ SelectWithoutFrom
  \/ CollectRow \/ RowsCollected \/ EvaluateGroup \/ EvaluateRows \/ RowsSelected
  \/ DistinctRow \/ RowsDistinct \/ OrderRow \/ TakeTop
  \/ MakeUnion \/ AsValue \/ AsTable
  \/ Ended

(* Nothing but the statement runs, so it makes every step it can make. *)
Spec == Init /\ [][Next]_vars /\ WF_vars(Next)

(***************************************************************************)
(* Properties                                                              *)
(***************************************************************************)
Grouping == from.type # "none" /\ ShouldGroup
Plain == from.type # "none" /\ ~ShouldGroup
Done == stage = "done"

Occurring(seq, x) == Cardinality({i \in DOMAIN seq : seq[i] = x})
Sources == [i \in DOMAIN rows |-> rows[i].source]
Passing(row) == IF Included(row) = Yes THEN Occurring(relation.rows, row) ELSE 0

(* A 0 is equal to a NULL on its right, and an INT to a FLOAT. *)
RowsAreToldApart ==
  \A r, s \in ToSet(relation.rows) : TupleEqual(r, s) = Yes => r = s

(* Without GROUP BY and aggregates, each row of the table that passes      *)
(* WHERE is selected as often as the table has it, PARTITION BY or not;    *)
(* SELECT DISTINCT of all columns has it once, if no other row is equal to *)
(* it (Select::collect_rows and Select::execute, Select.cpp).              *)
RowsAnswerWhere ==
  Done /\ Plain =>
    \A row \in ToSet(relation.rows) :
      /\ ~query.distinct => Occurring(Sources, row) = Passing(row)
      /\ query.distinct /\ query.columns = <<>> /\ RowsAreToldApart =>
           Occurring(Sources, row) = Smaller(1, Passing(row))

(***************************************************************************)
(* The order of the rows                                                   *)
(***************************************************************************)
Lower(x, y) == ~IsNull(y) /\ (IsNull(x) \/ x.v < y.v)

(* What ORDER BY asks for two rows has these keys *)
KeyBefore(key, other) ==
  \E k \in DOMAIN query.orderBy :
    /\ \A j \in 1..(k - 1) : key[j] = other[j]
    /\ IF query.orderBy[k].descending THEN Lower(other[k], key[k])
                                      ELSE Lower(key[k], other[k])

(* The keys have values, of one type or NULL in each column, and no value  *)
(* beside NULL that passes for it.                                         *)
CanBeSorted(rs) ==
  \A i, j \in DOMAIN rs, k \in DOMAIN query.orderBy :
    LET x == OrderKey(rs[i])[k]  y == OrderKey(rs[j])[k]
    IN /\ x \in Values
       /\ IsNull(x) \/ IsNull(y) \/ x.type = y.type
       /\ IsNull(y) => ~PassesForNull(x)

(* ORDER BY gives NULLs first, or last where it is descending.  Without    *)
(* groups it keeps rows whose keys are the same, and a SELECT without      *)
(* ORDER BY all rows, in the order of the table; TOP takes the first of    *)
(* them (Select::execute, Select.cpp).                                     *)
OrderIsStable ==
  Done =>
    /\ CanBeSorted(rows) =>
         \A i, j \in DOMAIN rows : i < j =>
           LET key == OrderKey(rows[i])  other == OrderKey(rows[j])
           IN /\ ~KeyBefore(other, key)
              /\ Plain /\ query.groupBy = <<>> /\ ~KeyBefore(key, other) =>
                   \E p, q \in DOMAIN relation.rows :
                     p < q /\ relation.rows[p] = Sources[i] /\ relation.rows[q] = Sources[j]
    /\ query.use.as = "done" => \A i \in DOMAIN result : result[i] = rows[i].tuple

=============================================================================
