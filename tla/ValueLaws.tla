----------------------------- MODULE ValueLaws ------------------------------
(***************************************************************************)
(* What the rest of EssaDB relies on when it calls the operators of values *)
(* and tuples (SqlValues): that `<` orders the keys of ORDER BY, GROUP BY  *)
(* and joins as std::stable_sort, std::map and std::multimap demand, that  *)
(* the comparisons agree with one another, that arithmetic ends in a value *)
(* or an error, and that a value's text reads back.                        *)
(*                                                                         *)
(* keys holds the tuples that have reached such a container; acc is the    *)
(* left operand of a chain of operations, as in 1 + 2 - x, and from the    *)
(* two operands that gave it.                                              *)
(***************************************************************************)
EXTENDS SqlValues

CONSTANTS
  Operands,  \* the values that are calculated with
  Sorted,    \* the values that keys are made of
  MaxKeys    \* bound: keys in a container

ASSUME OperandsAssumption == Operands \subseteq Values /\ Sorted \subseteq Values

VARIABLES keys, acc, from

vars == <<keys, acc, from>>

\* A behaviour sorts or calculates.
NoOperands == <<Null, Null>>
Init ==
  /\ keys = {}
  /\ \/ acc = Null /\ from = NoOperands
     \/ acc \in Operands \ {Null} /\ from = <<acc, Null>>

AddKey(t) ==
  /\ from = NoOperands /\ Cardinality(keys) < MaxKeys
  /\ keys' = keys \cup {t}
  /\ UNCHANGED <<acc, from>>

Compute(Operator(_, _), x) ==
  /\ ~IsError(acc) /\ keys = {}
  /\ acc' = Operator(acc, x)
  /\ acc'.v \in -4..4
  /\ from' = <<acc, x>>
  /\ UNCHANGED keys

Calculate(x) ==
  \/ /\ acc.type = "varchar" =>
           \E s \in DOMAIN Strings : Strings[s].text = TextOf(acc) \o TextOf(x)
     /\ Compute(Plus, x)
  \/ Compute(Minus, x)
  \/ Compute(Product, x)
  \/ Compute(Divide, x)

Next ==
  \/ \E x, y \in Sorted : AddKey(<<x, y>>)
  \/ \E x \in Operands : Calculate(x)

Spec == Init /\ [][Next]_vars

(***************************************************************************)
(* Properties                                                              *)
(***************************************************************************)
(* Arithmetic gives the type of its left operand, NULL or an error.  A     *)
(* division by zero is caught as an error for INT and FLOAT; only BOOL     *)
(* operands reach a division C++ does not define.                          *)
TypeOK ==
  /\ keys \subseteq Sorted \X Sorted
  /\ acc \in [type : Types \cup {"error", "trap"}, v : Int]
  /\ acc.type \in {from[1].type, "null", "error", "trap"}
  /\ acc.type = "trap" => from[1].type = "bool"

Column(i) == {t[i] : t \in keys}
OneType(X) == \A x, y \in X : IsNull(x) \/ IsNull(y) \/ x.type = y.type
Incomparable(t, u) == ~TupleLess(t, u) /\ ~TupleLess(u, t)
Orderable == \A i \in 1..2 :
  /\ OneType(Column(i))
  /\ Null \in Column(i) => \A y \in Column(i) : ~PassesForNull(y)

(* Over columns of one type that do not mix NULL with a value that equals  *)
(* NULL when it stands on the left (0, 0.0, FALSE, 'null'), the order of   *)
(* tuples is a strict weak order, which std::map in GROUP BY (Select.cpp), *)
(* std::multimap in the joins and std::stable_sort in ORDER BY demand; and *)
(* the keys a std::map takes for one are those that compare equal: GROUP   *)
(* BY and DISTINCT agree on what a duplicate is.                           *)
OrderIsStrictWeak ==
  Orderable =>
    /\ \A t, u \in keys : /\ ~(TupleLess(t, u) /\ TupleLess(u, t))
                          /\ Incomparable(t, u) <=> TupleEqual(t, u) = Yes
    /\ \A t, u, w \in keys :
         /\ TupleLess(t, u) /\ TupleLess(u, w) => TupleLess(t, w)
         /\ Incomparable(t, u) /\ Incomparable(u, w) => Incomparable(t, w)

(* For two values of one type, neither NULL, exactly one of <, = and >     *)
(* holds, and <= and >= are what they are called: WHERE with a comparison  *)
(* and with its complement split the rows.                                 *)
ComparisonsAgree ==
  \A t \in keys : LET x == t[1]  y == t[2] IN
    x.type = y.type /\ ~IsNull(x) =>
      /\ Cardinality({R \in {"<", "=", ">"} :
                        Yes = CASE R = "<" -> Less(x, y)
                                [] R = "=" -> Equal(x, y)
                                [] R = ">" -> Greater(x, y)}) = 1
      /\ LessOrEqual(x, y) = Not(Greater(x, y))
      /\ GreaterOrEqual(x, y) = Not(Less(x, y))

(* A value that is not a string is read back from its own text by          *)
(* from_string: what a table's export writes its import reads.             *)
TextReadsBack ==
  acc.type \notin {"null", "varchar", "error", "trap"} =>
    FromString(acc.type, TextOf(acc)) = acc

-----------------------------------------------------------------------------
(* The instance of the runs *)
Entry(text, number, digits) == [text |-> text, number |-> number, digits |-> digits]
Dates == [i \in 1..9 |-> Entry("#" \o ToString(i - 5), <<4044>>, FALSE)]
Numbers ==
  << <<"-0.500000", -1>>, <<"-1", -2>>, <<"-1.000000", -2>>, <<"-1.500000", -3>>,
     <<"-2", -4>>, <<"-2.000000", -4>>, <<"-3", -6>>, <<"-4", -8>>,
     <<"0", 0>>, <<"0.000000", 0>>, <<"0.500000", 1>>, <<"1", 2>>,
     <<"1.000000", 2>>, <<"1.500000", 3>>, <<"2", 4>>, <<"2.000000", 4>>,
     <<"3", 6>>, <<"4", 8>> >>
MCStrings ==
  << Entry("", <<>>, TRUE) >> \o Dates
  \o [i \in DOMAIN Numbers |->
        Entry(Numbers[i][1], <<Numbers[i][2]>>,
              Numbers[i][1] \in {"0", "1", "2", "3", "4"})]
  \o << Entry("false", <<>>, FALSE), Entry("null", <<>>, FALSE),
        Entry("true", <<>>, FALSE) >>

MCOperands ==
  {Null, Int32(-1), Int32(0), Int32(2), Float(-1), Float(0), Float(1),
   Bool(FALSE), Bool(TRUE), Time(1), Time(2),
   Varchar(""), Varchar("1"), Varchar("null")}
MCTimes == -4..4
MCSorted ==
  {Null, Int32(0), Int32(1), Float(1), Bool(FALSE), Bool(TRUE),
   Varchar("1"), Varchar("null")}

=============================================================================
