----------------------------- MODULE SqlValues ------------------------------
(***************************************************************************)
(* Values and tuples: the conversions, the arithmetic and the comparisons  *)
(* of Db::Core::Value (db/core/Value.cpp) and the order of tuples          *)
(* (db/core/Tuple.cpp).  A module of operators, without state, that the    *)
(* modules of tables and statements use.                                   *)
(*                                                                         *)
(* Every value carries one integer.  An INT, a BOOL (0 or 1) and a TIME    *)
(* (seconds) are that integer, a FLOAT is counted in halves, and a VARCHAR *)
(* is its place in Strings, which is sorted as std::string sorts.          *)
(* DbErrorOr is a value or Error; Trap is what C++ does not define.        *)
(* Overflow of int and the rounding of floats that are not halves are not  *)
(* modelled.                                                               *)
(***************************************************************************)
EXTENDS Integers, Sequences, FiniteSets, TLC

CONSTANTS
  Strings, \* the strings there are, in ascending order: each its text, the
           \* number stoi and stof read from it (<<n>> in halves, or <<>> where
           \* they throw) and whether it has no characters but digits
  Times,   \* the points in time there are
  Zone     \* seconds that local time is ahead of UTC

ASSUME StringsAssumption ==
  /\ \A i \in DOMAIN Strings : i \in Nat
  /\ \A i, j \in DOMAIN Strings : Strings[i].text = Strings[j].text => i = j
  /\ Zone \in Int

Types == {"null", "int", "float", "varchar", "bool", "time"}

Null == [type |-> "null", v |-> 0]
Int32(n) == [type |-> "int", v |-> n]
Float(halves) == [type |-> "float", v |-> halves]
Bool(b) == [type |-> "bool", v |-> IF b THEN 1 ELSE 0]
Time(seconds) == [type |-> "time", v |-> seconds]
VarcharAt(i) == [type |-> "varchar", v |-> i]
Varchar(text) == VarcharAt(CHOOSE i \in DOMAIN Strings : Strings[i].text = text)

Values ==
  {Null} \cup [type : {"int", "float", "time"}, v : Int]
         \cup [type : {"bool"}, v : {0, 1}]
         \cup [type : {"varchar"}, v : DOMAIN Strings]

Error == [type |-> "error", v |-> 0]
Trap == [type |-> "trap", v |-> 0]

IsNull(x) == x.type = "null"
IsError(x) == x.type \in {"error", "trap"}
Yes == Bool(TRUE)
No == Bool(FALSE)
Text(x) == Strings[x.v].text
Number(x) == Strings[x.v].number

(* TRY of two operands of an operator, left first *)
Both(a, b, Op(_, _)) ==
  IF IsError(a) THEN a ELSE IF IsError(b) THEN b ELSE Op(a.v, b.v)

Not(r) == IF IsError(r) THEN r ELSE Bool(r = No)

Quotient(a, b) ==                            \* C++ division: towards zero
  IF (a >= 0) = (b > 0)
  THEN (IF a >= 0 THEN a ELSE -a) \div (IF b > 0 THEN b ELSE -b)
  ELSE -((IF a >= 0 THEN a ELSE -a) \div (IF b > 0 THEN b ELSE -b))

(***************************************************************************)
(* The conversions.  Date::to_utc_epoch is mktime, which takes the date as *)
(* local time; Date::from_utc_epoch is gmtime.                             *)
(***************************************************************************)
ToUtcEpoch(t) == t - Zone
FromUtcEpoch(n) == Time(n)

ToInt(x) ==
  CASE x.type \in {"null", "int", "bool"} -> Int32(x.v)
    [] x.type = "float" -> Int32(Quotient(x.v, 2))
    [] x.type = "time" -> Int32(ToUtcEpoch(x.v))
    [] x.type = "varchar" -> IF Number(x) = <<>> THEN Error
                             ELSE Int32(Quotient(Number(x)[1], 2))

ToFloat(x) ==
  CASE x.type \in {"null", "int", "bool"} -> Float(2 * x.v)
    [] x.type = "float" -> x
    [] x.type = "time" -> Error
    [] x.type = "varchar" -> IF Number(x) = <<>> THEN Error
                             ELSE Float(Number(x)[1])

BoolAsDigit(x) == ToString(x.v)              \* a bool written as a number

BoolText(x) == IF x.v = 1 THEN "true" ELSE "false"

(* to_string; the calendar is left out, so a time is written as its seconds *)
TextOf(x) ==
  CASE x.type = "null" -> "null"
    [] x.type = "varchar" -> Text(x)
    [] x.type = "bool" -> BoolText(x)
    [] x.type = "time" -> "#" \o ToString(x.v)
    [] x.type = "int" -> ToString(x.v)
    [] x.type = "float" ->
         (IF x.v = -1 THEN "-0" ELSE ToString(Quotient(x.v, 2)))
         \o (IF x.v % 2 = 0 THEN ".000000" ELSE ".500000")

ToBool(x) == IF IsError(ToInt(x)) THEN Error ELSE Bool(ToInt(x).v # 0)

ToVarchar(x) == Varchar(TextOf(x))

(* Value::from_string *)
FromString(type, text) ==
  LET i == Varchar(text)
      asTime == {t \in Times : TextOf(Time(t)) = text}
  IN CASE type = "null" -> Error
       [] type = "int" -> ToInt(i)
       [] type = "float" -> ToFloat(i)
       [] type = "varchar" -> i
       [] type = "bool" -> IF text = "true" THEN Yes
                           ELSE IF text = "false" THEN No ELSE Error
       [] type = "time" -> IF asTime = {} THEN Error
                           ELSE Time(CHOOSE t \in asTime : TRUE)

(* find_type: the empty string has no character that is not a digit *)
FindType(text) ==
  IF text = "null" THEN "null"
  ELSE IF Strings[Varchar(text).v].digits THEN "int" ELSE "varchar"

(***************************************************************************)
(* The arithmetic.  The type of the result is that of the left operand.    *)
(***************************************************************************)
Truth(n) == Bool(n # 0)                      \* int to bool, as create_bool takes it

ShiftTime(t, n) == FromUtcEpoch(ToUtcEpoch(t) + n)

Concat(x, y) == Varchar(TextOf(x) \o TextOf(y))

Plus(x, y) ==
  IF IsNull(x) \/ IsNull(y) THEN Null
  ELSE CASE x.type = "bool" -> Both(x, ToBool(y), LAMBDA a, b : Truth(a + b))
         [] x.type = "int" -> Both(x, ToInt(y), LAMBDA a, b : Int32(a + b))
         [] x.type = "float" -> Both(x, ToFloat(y), LAMBDA a, b : Float(a + b))
         [] x.type = "varchar" -> Concat(x, y)
         [] x.type = "time" -> Both(x, ToInt(y), LAMBDA a, b : ShiftTime(a, b))

Minus(x, y) ==
  IF IsNull(x) \/ IsNull(y) THEN Null
  ELSE CASE x.type = "bool" -> Both(x, ToBool(y), LAMBDA a, b : Truth(a - b))
         [] x.type = "int" -> Both(x, ToInt(y), LAMBDA a, b : Int32(a - b))
         [] x.type = "float" -> Both(x, ToFloat(y), LAMBDA a, b : Float(a - b))
         [] x.type = "varchar" -> Error
         [] x.type = "time" -> Both(x, ToInt(y), LAMBDA a, b : ShiftTime(a, -b))

Product(x, y) ==
  IF IsNull(x) \/ IsNull(y) THEN Null
  ELSE CASE x.type = "bool" -> Both(x, ToBool(y), LAMBDA a, b : Truth(a * b))
         [] x.type = "int" -> Both(x, ToInt(y), LAMBDA a, b : Int32(a * b))
         [] x.type = "float" -> Both(x, ToFloat(y),
                                     LAMBDA a, b : Float(Quotient(a * b, 2)))
         [] x.type \in {"varchar", "time"} -> Error

IntRatio(a, b) == IF b = 0 THEN Trap ELSE Int32(Quotient(a, b))   \* unchecked

Ratio(a, b) == IF b = 0 THEN Error ELSE Int32(Quotient(a, b))

(* The operands of BOOL are promoted to int; a division by 0 is not caught. *)
BoolRatio(a, b) == IF b = 0 THEN Trap ELSE Truth(Quotient(a, b))

Divide(x, y) ==
  IF IsNull(x) \/ IsNull(y) THEN Null
  ELSE CASE x.type = "bool" -> Both(x, ToBool(y), BoolRatio)
         [] x.type = "int" -> Both(x, ToInt(y), Ratio)
         [] x.type = "float" ->
              Both(x, ToFloat(y), LAMBDA a, b : IF b = 0 THEN Error
                                                ELSE Float(Quotient(2 * a, b)))
         [] x.type \in {"varchar", "time"} -> Error

(***************************************************************************)
(* The comparisons convert the right operand to the type of the left one.  *)
(***************************************************************************)
Below(a, b) == Bool(a < b)
Same(a, b) == Bool(a = b)

Less(x, y) ==
  IF IsNull(x) THEN Yes
  ELSE IF IsNull(y) THEN No
  ELSE CASE x.type = "bool" -> Both(x, ToBool(y), Below)
         [] x.type \in {"int", "time"} -> Both(ToInt(x), ToInt(y), Below)
         [] x.type = "float" -> Both(x, ToFloat(y), Below)
         [] x.type = "varchar" -> Both(x, ToVarchar(y), Below)

Equal(x, y) ==
  CASE IsNull(x) -> Bool(IsNull(y))
    [] x.type = "bool" -> Both(x, ToBool(y), Same)
    [] x.type \in {"int", "time"} -> Both(ToInt(x), ToInt(y), Same)
    [] x.type = "float" -> Both(x, ToFloat(y), Same)
    [] x.type = "varchar" -> Both(x, ToVarchar(y), Same)

(* NULL on the right is converted: 0 equals it, which it does not equal.   *)
PassesForNull(x) == ~IsNull(x) /\ Equal(x, Null) = Yes

(* The right operand of || is evaluated, and may fail, only after a FALSE. *)
LessOrEqual(x, y) ==
  IF Less(x, y) = No THEN Equal(x, y) ELSE Less(x, y)
NotEqual(x, y) == Not(Equal(x, y))
GreaterOrEqual(x, y) == Not(Less(x, y))
GreaterAsNotLess(x, y) == Not(Less(x, y))    \* > without the second test
Greater(x, y) ==
  IF Less(x, y) = No THEN NotEqual(x, y) ELSE Not(Less(x, y))

(***************************************************************************)
(* Tuples: a missing value counts as NULL, and a failing comparison as     *)
(* "not less" (Tuple.cpp).  Equality of rows that carry their source       *)
(* (Tuple.hpp) ends in a thrown bad_optional_access, here Trap, where both *)
(* have equal tuples and no source.                                        *)
(***************************************************************************)
Field(t, i) == IF i <= Len(t) THEN t[i] ELSE Null
Fields(t, u) == 1..(IF Len(t) < Len(u) THEN Len(u) ELSE Len(t))

TupleLessByValue(t, u) ==                    \* the test of equality left out
  \E i \in Fields(t, u) : /\ Less(Field(t, i), Field(u, i)) = Yes
                          /\ \A j \in 1..(i - 1) :
                               Less(Field(t, j), Field(u, j)) # Yes

TupleLess(t, u) ==
  \E i \in Fields(t, u) :
     /\ \A j \in 1..(i - 1) : Equal(Field(t, j), Field(u, j)) = Yes
     /\ Equal(Field(t, i), Field(u, i)) = No
     /\ Less(Field(t, i), Field(u, i)) = Yes

(* && of fields from left to right: an error counts unless a FALSE precedes *)
TupleEqual(t, u) ==
  LET settled == {i \in DOMAIN t : Equal(t[i], u[i]) # Yes}
  IN IF Len(t) # Len(u) THEN No
     ELSE IF settled = {} THEN Yes
     ELSE LET i == CHOOSE i \in settled : \A j \in settled : i <= j
          IN Equal(t[i], u[i])

=============================================================================
