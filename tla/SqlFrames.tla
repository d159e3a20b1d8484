----------------------------- MODULE SqlFrames ------------------------------
(***************************************************************************)
(* Frames: what an expression is evaluated in, and what a name or a place  *)
(* stands for there (db/sql/ast/EvaluationContext.hpp,                     *)
(* TableExpression.cpp, Expression.cpp).  Operators without state.         *)
(*                                                                         *)
(* A frame is the EvaluationContextFrame of one SELECT:                    *)
(*   names    the names of the table's columns                             *)
(*   row      the tuple at hand, source the tuple it was computed from     *)
(*   group    row_group: the rows of the group at hand, NoGroup, or Freed  *)
(*            once collect_rows has returned and the span dangles          *)
(*   columns  the selected columns: alias, text and column (SelectColumns) *)
(*   ofTable  row_type is FromTable                                        *)
(***************************************************************************)
EXTENDS SqlValues, SequencesExt

NoRow == <<Error>>
NoGroup == <<NoRow>>
Freed == <<<<Trap>>>>

(* A list whose elements are evaluated once. *)
Once(seq) == <<>> \o seq

First(S) == CHOOSE i \in S : \A j \in S : i <= j

Truthy(x) == IF IsError(x) THEN x ELSE ToBool(x)

(* An index beyond a tuple is a failed assertion, Trap. *)
At(tuple, i) == IF i \in DOMAIN tuple THEN tuple[i] ELSE Trap

InTable(name, names, tuple) ==
  LET at == {i \in DOMAIN names : names[i] = name}
  IN IF at = {} THEN Error ELSE At(tuple, First(at))

(* SELECT * and ORDER BY 1 name a column by its place. *)
Index(i) == [op |-> "index", index |-> i]
AtIndex(i, f) == IF i \in DOMAIN f.row THEN f.row[i] ELSE Error

=============================================================================
