------------------------------ MODULE SqlJoins ------------------------------
(***************************************************************************)
(* The relations a FROM clause can name: JoinExpression::evaluate and      *)
(* CrossJoinExpression::evaluate (db/sql/ast/TableExpression.cpp).         *)
(*                                                                         *)
(* A join puts the rows of both sides in one std::multimap, sorted by key, *)
(* and then walks it once, looking at each entry and the one before it.    *)
(* One step inserts a row or is one iteration of that walk.  The columns   *)
(* joined on are of one type, so that `<` orders the keys.                 *)
(***************************************************************************)
EXTENDS SqlValues, SequencesExt

VARIABLES
  from,      \* the table expression: type, lhs, rhs, onLhs, onRhs
  contents,  \* the multimap: entries key, side, row
  it,        \* rows inserted, then the iterator; `last` is always one before it
  relation,  \* the relation evaluated so far: columns and rows
  joining    \* where evaluate is: index, merge, done, error or undefined

joinVars == <<from, contents, it, relation, joining>>

Relations == [columns : Seq(STRING), rows : Seq(Seq(Values))]
TableExpressions ==
  [type : {"inner", "left", "right", "outer", "cross", "table", "none"},
   lhs : Relations, rhs : Relations, onLhs : STRING, onRhs : STRING]

JoinInit(expression) ==
  /\ from = expression
  /\ contents = <<>> /\ it = 0
  /\ relation = [columns |-> <<>>, rows |-> <<>>]
  /\ joining = "index"

(***************************************************************************)
(* The index                                                               *)
(***************************************************************************)
(* The place of the column joined on: one too many if there is none.       *)
KeyIndex(table, on) ==
  LET named == {i \in DOMAIN table.columns : table.columns[i] = on}
  IN IF named = {} THEN Len(table.columns) + 1
     ELSE CHOOSE i \in named : \A j \in named : i <= j

(* The columns joined on are of one type. *)
SameTypes(table, on, other, otherOn) ==
  \A r \in ToSet(table.rows), s \in ToSet(other.rows) :
    LET k == KeyIndex(table, on)  m == KeyIndex(other, otherOn)
    IN k <= Len(r) /\ m <= Len(s) /\ ~IsNull(r[k]) /\ ~IsNull(s[m])
         => r[k].type = s[m].type

Joinable ==
  {e \in TableExpressions :
     /\ SameTypes(e.lhs, e.onLhs, e.lhs, e.onLhs)
     /\ SameTypes(e.lhs, e.onLhs, e.rhs, e.onRhs)
     /\ SameTypes(e.rhs, e.onRhs, e.rhs, e.onRhs)}

InsertFirst(map, entry) ==                   \* before the entries of its key
  LET before == {i \in DOMAIN map : Less(map[i].key, entry.key) = Yes}
  IN InsertAt(map, Cardinality(before) + 1, entry)

(* multimap::insert puts an entry behind those whose key is not greater. *)
InsertEntry(map, entry) ==
  LET before == {i \in DOMAIN map : Less(entry.key, map[i].key) # Yes}
  IN InsertAt(map, Cardinality(before) + 1, entry)

Joining(type) == joining = "index" /\ from.type = type
IsJoin == from.type \in {"inner", "left", "right", "outer"}

(* add_columns, for a row of the left side, then for those of the right. *)
AddRow(side, table, on, row) ==
  /\ IF KeyIndex(table, on) > Len(row)
     THEN joining' = "error" /\ UNCHANGED <<contents, it>>
     ELSE /\ contents' = InsertEntry(contents,
                           [key |-> row[KeyIndex(table, on)], side |-> side, row |-> row])
          /\ it' = it + 1
          /\ UNCHANGED joining
  /\ UNCHANGED <<from, relation>>

AddColumns ==
  /\ joining = "index" /\ IsJoin
  /\ \/ /\ it < Len(from.lhs.rows)
        /\ AddRow("lhs", from.lhs, from.onLhs, from.lhs.rows[it + 1])
     \/ /\ it >= Len(from.lhs.rows)
        /\ it < Len(from.lhs.rows) + Len(from.rhs.rows)
        /\ AddRow("rhs", from.rhs, from.onRhs, from.rhs.rows[it + 1 - Len(from.lhs.rows)])

BothColumns == from.lhs.columns \o from.rhs.columns

(* The walk begins with `beg++`, on an empty map as well. *)
BeginWalk ==
  /\ joining = "index" /\ IsJoin
  /\ it = Len(from.lhs.rows) + Len(from.rhs.rows)
  /\ relation' = [columns |-> BothColumns, rows |-> <<>>]
  /\ joining' = IF contents = <<>> THEN "undefined" ELSE "merge"
  /\ it' = 2
  /\ UNCHANGED <<from, contents>>

(***************************************************************************)
(* The walk                                                                *)
(***************************************************************************)
Previous == contents[it - 1]
Here == contents[it]
Merging(type) == joining = "merge" /\ from.type = type /\ it <= Len(contents)

(* After a pair the iterator is moved twice, and `last` with it. *)
Emit(row, steps) ==
  /\ relation' = [relation EXCEPT !.rows = Append(@, row)]
  /\ it' = it + steps
  /\ UNCHANGED <<from, contents, joining>>

StandStill == UNCHANGED joinVars             \* the iterator not moved

PassBy ==
  /\ it' = it + 1
  /\ UNCHANGED <<from, contents, relation, joining>>

SameKey == Equal(Here.key, Previous.key) = Yes
IsPair == Previous.side = "lhs" /\ Here.side = "rhs" /\ SameKey
NullsFor(table) == [i \in DOMAIN table.columns |-> Null]

InnerJoin ==
  /\ Merging("inner")
  /\ IF IsPair THEN Emit(Previous.row \o Here.row, 2) ELSE PassBy

LeftJoin ==
  /\ Merging("left")
  /\ IF Previous.side # "lhs" THEN PassBy
     ELSE IF SameKey THEN Emit(Previous.row \o Here.row, 2)
     ELSE Emit(Previous.row \o NullsFor(from.rhs), 1)

RightJoin ==
  /\ Merging("right")
  /\ IF "rhs" \notin {Previous.side, Here.side} THEN PassBy
     ELSE IF SameKey THEN Emit(Previous.row \o Here.row, 2)
     ELSE Emit(NullsFor(from.lhs) \o Here.row, 1)

OuterJoin ==
  /\ Merging("outer")
  /\ IF IsPair THEN Emit(Previous.row \o Here.row, 2)
     ELSE IF Previous.side = "lhs" THEN Emit(Previous.row \o NullsFor(from.rhs), 1)
     ELSE Emit(NullsFor(from.lhs) \o Here.row, 1)

EndOfWalk ==
  /\ joining = "merge" /\ it > Len(contents)
  /\ joining' = "done"
  /\ UNCHANGED <<from, contents, it, relation>>

CrossJoin ==
  /\ Joining("cross")
  /\ relation' =
       [columns |-> BothColumns,
        rows |-> FlattenSeq([l \in DOMAIN from.lhs.rows |->
                   [r \in DOMAIN from.rhs.rows |->
                      from.lhs.rows[l] \o from.rhs.rows[r]]])]
  /\ joining' = "done"
  /\ UNCHANGED <<from, contents, it>>

(* TableIdentifier::evaluate wraps the table. *)
OneTable ==
  /\ Joining("table")
  /\ relation' = from.lhs
  /\ joining' = "done"
  /\ UNCHANGED <<from, contents, it>>

JoinNext ==
  \/ AddColumns \/ BeginWalk \/ InnerJoin \/ LeftJoin \/ RightJoin \/ OuterJoin
  \/ EndOfWalk \/ CrossJoin \/ OneTable

(***************************************************************************)
(* Properties                                                              *)
(***************************************************************************)
LeftKey(row) == row[KeyIndex(from.lhs, from.onLhs)]
RightKey(row) == row[KeyIndex(from.rhs, from.onRhs)]
LeftRows == ToSet(from.lhs.rows)
RightRows == ToSet(from.rhs.rows)

OneRowPerKey(rows, Key(_)) ==
  \A i, j \in DOMAIN rows : i # j => Key(rows[i]) # Key(rows[j])
KeysAreUnique ==
  /\ OneRowPerKey(from.lhs.rows, LeftKey) /\ OneRowPerKey(from.rhs.rows, RightKey)
  /\ \A l \in LeftRows : ~IsNull(LeftKey(l))
  /\ \A r \in RightRows : ~IsNull(RightKey(r))

Matches(l) == {r \in RightRows : LeftKey(l) = RightKey(r)}
MatchedRows == UNION {{l \o r : r \in Matches(l)} : l \in LeftRows}
Unmatched == {l \in LeftRows : Matches(l) = {}}
Found == ToSet(relation.rows)
PassedBy ==
  LET end == contents[Len(contents)]
  IN IF end.side = "lhs" THEN {end.row} ELSE {}

(* Where no side has a key twice and none is NULL, the one walk finds what *)
(* two nested loops find: every kind of join has each pair of equal keys,  *)
(* an inner join nothing else, and a left join besides them each row of    *)
(* the left that has no match, but for the last entry of the map           *)
(* (JoinExpression::evaluate, TableExpression.cpp).                        *)
JoinFindsEveryPair ==
  joining = "done" /\ contents # <<>> /\ KeysAreUnique =>
    /\ MatchedRows \subseteq Found
    /\ from.type = "inner" => Found = MatchedRows /\ Len(relation.rows) = Cardinality(Found)
    /\ from.type = "left" =>
         Found = MatchedRows \cup {l \o NullsFor(from.rhs) : l \in Unmatched \ PassedBy}

(* A RIGHT JOIN has every row of its right side.                           *)
(* tests/sql/select/joins/simple_joins.sql asks why one is skipped.        *)
NoRightRowIsSkipped ==
  joining = "done" /\ from.type = "right" /\ KeysAreUnique =>
    \A r \in RightRows : \E i \in DOMAIN relation.rows :
      SubSeq(relation.rows[i], Len(from.lhs.columns) + 1,
             Len(relation.rows[i])) = r

=============================================================================
