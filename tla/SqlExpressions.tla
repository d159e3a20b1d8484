--------------------------- MODULE SqlExpressions ---------------------------
(***************************************************************************)
(* Expressions: what Expression::evaluate gives in a frame of the          *)
(* evaluation context (db/sql/ast/Expression.cpp, Expression.hpp,          *)
(* SelectColumns.cpp and the aggregate functions of Function.cpp).         *)
(* Operators without state; expressions are records whose "op" names the   *)
(* class or the operation.  LIKE and the string functions are in SqlText;  *)
(* MATCH, the date and math functions and subqueries are left out.  A      *)
(* column named by its place is evaluated in SqlSelect.                    *)
(***************************************************************************)
EXTENDS SqlFrames

CONSTANT Biggest  \* numeric_limits<float>::max(), in halves

Literal(x) == [op |-> "literal", value |-> x]
Identifier(name) == [op |-> "identifier", name |-> name]
Binary(op, x, y) == [op |-> op, lhs |-> x, rhs |-> y]
Is(what, x) == [op |-> what, lhs |-> x]
In(x, args) == [op |-> "IN", lhs |-> x, args |-> args]
Between(x, min, max) == [op |-> "BETWEEN", lhs |-> x, min |-> min, max |-> max]
Case(whens, otherwise) == [op |-> "CASE", whens |-> whens, otherwise |-> otherwise]
Aggregate(f, x) == [op |-> f, lhs |-> x]
NoElse == [op |-> "no else"]

Comparisons == {"=", "!=", "<", "<=", ">", ">="}
Arithmetic == {"+", "-", "*", "/"}
Aggregates == {"COUNT", "SUM", "MIN", "MAX", "AVG"}

Compare(op, x, y) ==
  CASE op = "=" -> Equal(x, y)
    [] op = "!=" -> NotEqual(x, y)
    [] op = "<" -> Less(x, y)
    [] op = "<=" -> LessOrEqual(x, y)
    [] op = ">" -> Greater(x, y)
    [] op = ">=" -> GreaterOrEqual(x, y)

Calculated(op, x, y) ==
  CASE op = "+" -> Plus(x, y)
    [] op = "-" -> Minus(x, y)
    [] op = "*" -> Product(x, y)
    [] op = "/" -> Divide(x, y)

(* TRY: the first operand that failed, or what the operator makes of both *)
Tried(x, y, r) == IF IsError(x) THEN x ELSE IF IsError(y) THEN y ELSE r

(***************************************************************************)
(* Names.  Identifier::evaluate looks in the table for a row of a table    *)
(* and first among the selected columns for a row of the result.           *)
(***************************************************************************)
ResolveValue(name, f) ==
  LET at == {i \in DOMAIN f.columns : name \in {f.columns[i].alias, f.columns[i].text}}
  IN IF at # {} THEN At(f.row, First(at))
     ELSE IF f.source = NoRow THEN Error
     ELSE InTable(name, f.names, f.source)

Resolve(name, f) ==
  IF f.ofTable THEN InTable(name, f.names, f.row) ELSE ResolveValue(name, f)

(***************************************************************************)
(* What a SELECT must know of an expression before it has rows.  CASE asks *)
(* its ELSE, whether it has one or not.                                    *)
(***************************************************************************)
Operands(e) ==
  CASE e.op \in Comparisons \cup Arithmetic \cup {"AND", "OR"} -> <<e.lhs, e.rhs>>
    [] e.op \in {"IS NULL", "IS NOT NULL", "MINUS"} -> <<e.lhs>>
    [] e.op \in Aggregates -> <<e.lhs>>
    [] e.op = "BETWEEN" -> <<e.lhs, e.min, e.max>>
    [] e.op = "IN" -> <<e.lhs>> \o e.args
    [] e.op = "CASE" -> <<e.otherwise>> \o FlattenSeq(e.whens)
    [] e.op \in {"literal", "identifier", "index", "no else"} -> <<>>

(* Of a CASE only its ELSE and its conditions count. *)
Asked(e) ==
  CASE e.op \in Aggregates -> <<>>
    [] e.op = "CASE" -> <<e.otherwise>> \o [i \in DOMAIN e.whens |-> e.whens[i][1]]
    [] OTHER -> Operands(e)

RECURSIVE ContainsAggregate(_)
ContainsAggregate(e) ==
  \/ e.op \in Aggregates
  \/ \E i \in DOMAIN Asked(e) : ContainsAggregate(Asked(e)[i])

(* The ELSE that is not there is asked, unless the answer is found before. *)
RECURSIVE AsksNothing(_)
AsksNothing(e) ==
  \/ e.op = "no else"
  \/ \E i \in DOMAIN Asked(e) :
       /\ AsksNothing(Asked(e)[i])
       /\ \A j \in 1..(i - 1) : ~ContainsAggregate(Asked(e)[j])

RECURSIVE ReferencedColumns(_)
ReferencedColumns(e) ==
  IF e.op = "identifier" THEN {e.name}
  ELSE UNION {ReferencedColumns(Operands(e)[i]) : i \in DOMAIN Operands(e)}

(***************************************************************************)
(* AggregateFunction::aggregate, of the values its expression has in the   *)
(* rows of a group.  A value that cannot be converted ends it.  MAX begins *)
(* with numeric_limits<float>::min(), a positive number close to 0.        *)
(***************************************************************************)
Sum(values, Convert(_)) ==
  FoldLeft(LAMBDA acc, x : acc + Convert(x).v, 0, values)
LeastOf(values) == FoldLeft(LAMBDA m, x : IF x < m THEN x ELSE m, Biggest, values)
GreatestOf(values) == FoldLeft(LAMBDA m, x : IF x > m THEN x ELSE m, 0, values)

EveryRow(values) == Len(values)              \* NULLs counted as well
NotNull(values) == Cardinality({i \in DOMAIN values : ~IsNull(values[i])})

Aggregated(f, values) ==
  LET Read(x) == CASE IsError(x) \/ f = "COUNT" -> x
                   [] f = "AVG" /\ ~IsError(x) -> ToInt(x)
                   [] OTHER -> ToFloat(x)
      failing == {i \in DOMAIN values : IsError(Read(values[i]))}
      halves == [i \in DOMAIN values |-> Read(values[i]).v]
  IN IF failing # {} THEN Read(values[First(failing)])
     ELSE CASE f = "COUNT" -> Int32(NotNull(values))
            [] f = "SUM" -> Float(Sum(values, ToFloat))
            [] f = "MIN" -> Float(LeastOf(halves))
            [] f = "MAX" -> Float(GreatestOf(halves))
            [] f = "AVG" -> Float(Quotient(2 * Sum(values, ToInt),
                                          IF values = <<>> THEN 1 ELSE Len(values)))

(***************************************************************************)
(* Expression::evaluate                                                    *)
(***************************************************************************)
RECURSIVE Evaluate(_, _)

EvaluateAggregate(e, f) ==
  LET rows == IF f.group = NoGroup THEN << <<>> >> ELSE f.group
      InRow(row) == Evaluate(e.lhs, [f EXCEPT !.row = row, !.source = NoRow,
                                             !.group = NoGroup, !.ofTable = TRUE])
  IN IF f.group = Freed THEN Trap
     ELSE Aggregated(e.op, Once([i \in DOMAIN rows |-> InRow(rows[i])]))

EvaluateLogic(e, f) ==
  LET x == Truthy(Evaluate(e.lhs, f))
  IN IF x # Bool(e.op = "AND") THEN x ELSE Truthy(Evaluate(e.rhs, f))

EvaluateBetween(e, f) ==
  LET x == Evaluate(e.lhs, f)  min == Evaluate(e.min, f)  max == Evaluate(e.max, f)
      above == GreaterOrEqual(x, min)
  IN Tried(x, min, Tried(max, above, IF above = Yes THEN LessOrEqual(x, max) ELSE No))

EvaluateIn(e, f) ==
  LET x == Evaluate(e.lhs, f)
      args == Once([i \in DOMAIN e.args |-> Evaluate(e.args[i], f)])
      settled == {i \in DOMAIN args : IsError(args[i]) \/ TextOf(args[i]) = TextOf(x)}
  IN IF IsError(x) THEN x
     ELSE IF settled = {} THEN No
     ELSE IF IsError(args[First(settled)]) THEN args[First(settled)] ELSE Yes

EvaluateCase(e, f) ==
  LET conditions == Once([i \in DOMAIN e.whens |-> Truthy(Evaluate(e.whens[i][1], f))])
      taken == {i \in DOMAIN conditions : conditions[i] # No}
  IN IF taken # {}
     THEN IF IsError(conditions[First(taken)]) THEN conditions[First(taken)]
          ELSE Evaluate(e.whens[First(taken)][2], f)
     ELSE IF e.otherwise = NoElse THEN Null ELSE Evaluate(e.otherwise, f)

Evaluate(e, f) ==
  CASE e.op = "literal" -> e.value
    [] e.op = "identifier" -> Resolve(e.name, f)
    [] e.op \in Comparisons ->
         LET x == Evaluate(e.lhs, f)  y == Evaluate(e.rhs, f)
         IN Tried(x, y, Compare(e.op, x, y))
    [] e.op \in Arithmetic ->
         LET x == Evaluate(e.lhs, f)  y == Evaluate(e.rhs, f)
         IN Tried(x, y, Calculated(e.op, x, y))
    [] e.op = "MINUS" ->
         LET x == Evaluate(e.lhs, f) IN Tried(x, x, Minus(Int32(0), x))
    [] e.op \in {"AND", "OR"} -> EvaluateLogic(e, f)
    [] e.op \in {"IS NULL", "IS NOT NULL"} ->
         LET x == Evaluate(e.lhs, f)
         IN Tried(x, x, Bool(IsNull(x) = (e.op = "IS NULL")))
    [] e.op = "BETWEEN" -> EvaluateBetween(e, f)
    [] e.op = "IN" -> EvaluateIn(e, f)
    [] e.op = "CASE" -> EvaluateCase(e, f)
    [] e.op \in Aggregates -> EvaluateAggregate(e, f)

=============================================================================
