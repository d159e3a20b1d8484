--------------------------- MODULE SqlValuesProofs ---------------------------
(***************************************************************************)
(* Lemmas about values, for every set of strings: what the comparisons of  *)
(* SqlValues compute on values of one type or NULL, and what arithmetic    *)
(* returns.                                                                *)
(***************************************************************************)
EXTENDS SqlValues, TLAPS

LEMMA ValueFacts ==
  ASSUME NEW x \in Values
  PROVE  /\ x.type \in Types /\ ~IsError(x) /\ x.v \in Int
         /\ x = [type |-> x.type, v |-> x.v]
         /\ IsNull(x) => x = Null
         /\ x.type = "bool" => x.v \in {0, 1}
         /\ x.type = "varchar" => x.v \in DOMAIN Strings
BY StringsAssumption DEF Values, Types, Null, IsNull, IsError

\* A string is found under its own text.
LEMMA StringIsFound ==
  ASSUME NEW x \in Values, x.type = "varchar"
  PROVE  ToVarchar(x) = x
<1>1. x.v \in DOMAIN Strings /\ x = [type |-> "varchar", v |-> x.v]
  BY ValueFacts
<1>2. TextOf(x) = Strings[x.v].text
  BY DEF TextOf, Text
<1>3. (CHOOSE i \in DOMAIN Strings : Strings[i].text = Strings[x.v].text) = x.v
  BY <1>1, StringsAssumption
<1> QED BY <1>1, <1>2, <1>3 DEF ToVarchar, Varchar, VarcharAt

(***************************************************************************)
(* On values of one type, neither of them NULL, < and = are those of the   *)
(* integers that the values carry.                                         *)
(***************************************************************************)
LEMMA OneTypeOrder ==
  ASSUME NEW x \in Values, NEW y \in Values, x.type = y.type, ~IsNull(x)
  PROVE  Less(x, y) = Bool(x.v < y.v) /\ Equal(x, y) = Bool(x.v = y.v)
<1> USE DEF IsNull
<1>1. x.v \in Int /\ y.v \in Int /\ x.type \in Types /\ ~IsError(x) /\ ~IsError(y)
  BY ValueFacts
<1>2. CASE x.type = "bool"
  <2>1. y.v \in {0, 1}
    BY <1>2, ValueFacts
  <2>2. ToBool(y) = [type |-> "bool", v |-> y.v]
    BY <1>2, <2>1 DEF ToBool, ToInt, Int32, IsError, Bool
  <2> QED BY <1>1, <1>2, <2>2 DEF Less, Equal, Both, IsError, Below, Same
<1>3. CASE x.type = "int"
  BY <1>1, <1>3 DEF Less, Equal, Both, ToInt, Int32, IsError, Below, Same
<1>4. CASE x.type = "time"
  BY <1>1, <1>4, StringsAssumption
  DEF Less, Equal, Both, ToInt, Int32, ToUtcEpoch, IsError, Below, Same
<1>5. CASE x.type = "float"
  BY <1>1, <1>5 DEF Less, Equal, Both, ToFloat, IsError, Below, Same
<1>6. CASE x.type = "varchar"
  <2>1. ToVarchar(y) = y
    BY <1>6, StringIsFound
  <2> QED BY <1>1, <1>6, <2>1 DEF Less, Equal, Both, Below, Same
<1> QED BY <1>1, <1>2, <1>3, <1>4, <1>5, <1>6 DEF Types

\* NULL comes first.
LEMMA NullOrder ==
  ASSUME NEW y \in Values
  PROVE  /\ Less(Null, y) = Yes /\ Equal(Null, y) = Bool(IsNull(y))
         /\ ~IsNull(y) => Less(y, Null) = No
BY DEF Less, Equal, IsNull, Null

\* Values of one type are equal when they are the same.
LEMMA EqualIsSame ==
  ASSUME NEW x \in Values, NEW y \in Values, x.type = y.type
  PROVE  /\ Equal(x, y) = Yes <=> x = y
         /\ Equal(x, y) = No <=> x # y
<1>1. Yes = Bool(TRUE) /\ No = Bool(FALSE) /\ Yes # No
  BY DEF Yes, No, Bool
<1>2. CASE IsNull(x)
  <2>1. x = Null /\ y = Null
    BY <1>2, ValueFacts DEF IsNull
  <2> QED BY <1>1, <2>1, NullOrder DEF IsNull, Null
<1>3. CASE ~IsNull(x)
  <2>1. x = [type |-> x.type, v |-> x.v] /\ y = [type |-> y.type, v |-> y.v]
    BY ValueFacts
  <2>2. Equal(x, y) = Bool(x.v = y.v)
    BY <1>3, OneTypeOrder
  <2>3. CASE x.v = y.v
    <3>1. (x.v = y.v) = TRUE /\ x = y
      BY <2>1, <2>3
    <3> QED BY <1>1, <2>2, <3>1
  <2>4. CASE x.v # y.v
    <3>1. (x.v = y.v) = FALSE /\ x # y
      BY <2>4
    <3> QED BY <1>1, <2>2, <3>1
  <2> QED BY <2>3, <2>4
<1> QED BY <1>2, <1>3

\* A value compared with NULL on the right gives a truth value, not an error.
LEMMA EqualNull ==
  ASSUME NEW x \in Values, ~IsNull(x)
  PROVE  Equal(x, Null) \in {Yes, No}
<1> USE DEF IsNull
<1>1. x.v \in Int /\ x.type \in Types /\ ~IsError(x)
  BY ValueFacts
<1>2. ToInt(Null) = Int32(0) /\ ToFloat(Null) = Float(0) /\ ToBool(Null) = Bool(FALSE)
  <2>1. ToInt(Null) = Int32(0)
    BY DEF ToInt, Null
  <2>2. ToFloat(Null) = Float(0)
    BY DEF ToFloat, Null
  <2>3. ToBool(Null) = Bool(FALSE)
    BY <2>1 DEF ToBool, Int32, IsError, Bool
  <2> QED BY <2>1, <2>2, <2>3
<1>3. ToVarchar(Null).type = "varchar"
  BY DEF ToVarchar, Varchar, VarcharAt
<1>4. \A a, b : Same(a, b) \in {Yes, No}
  BY DEF Same, Yes, No, Bool
<1>5. CASE x.type \in {"int", "time"}
  <2>1. ToInt(x).type = "int"
    BY <1>5 DEF ToInt, Int32
  <2> QED BY <1>1, <1>2, <1>4, <1>5, <2>1 DEF Equal, Both, IsError, Int32
<1>6. CASE x.type = "bool"
  BY <1>1, <1>2, <1>4, <1>6 DEF Equal, Both, IsError, Bool
<1>7. CASE x.type = "float"
  BY <1>1, <1>2, <1>4, <1>7 DEF Equal, Both, IsError, Float
<1>8. CASE x.type = "varchar"
  BY <1>1, <1>3, <1>4, <1>8 DEF Equal, Both, IsError
<1> QED BY <1>1, <1>5, <1>6, <1>7, <1>8 DEF Types

(***************************************************************************)
(* For two values of one type, neither NULL, exactly one of <, = and >     *)
(* holds, and the other comparisons are what they are called.              *)
(***************************************************************************)
LEMMA Comparisons ==
  ASSUME NEW x \in Values, NEW y \in Values, x.type = y.type, ~IsNull(x)
  PROVE  /\ Less(x, y) = Bool(x.v < y.v)
         /\ Equal(x, y) = Bool(x.v = y.v)
         /\ Greater(x, y) = Bool(y.v < x.v)
         /\ LessOrEqual(x, y) = Bool(x.v <= y.v)
         /\ GreaterOrEqual(x, y) = Bool(y.v <= x.v)
<1>1. x.v \in Int /\ y.v \in Int
  BY ValueFacts
<1>2. Less(x, y) = Bool(x.v < y.v) /\ Equal(x, y) = Bool(x.v = y.v)
  BY OneTypeOrder
<1>3. /\ Bool(TRUE) # Bool(FALSE) /\ ~IsError(Bool(TRUE)) /\ ~IsError(Bool(FALSE))
      /\ No = Bool(FALSE)
  BY DEF Bool, IsError, No
<1>4. \A b \in BOOLEAN : Not(Bool(b)) = Bool(~b)
  BY <1>3 DEF Not
<1>5. GreaterOrEqual(x, y) = Bool(y.v <= x.v)
  <2>2. CASE x.v < y.v
    <3>1. (y.v <= x.v) = FALSE /\ (x.v < y.v) = TRUE
      BY <1>1, <2>2
    <3> QED BY <1>2, <1>3, <1>4, <3>1 DEF GreaterOrEqual
  <2>3. CASE ~(x.v < y.v)
    <3>1. (y.v <= x.v) = TRUE /\ (x.v < y.v) = FALSE
      BY <1>1, <2>3
    <3> QED BY <1>2, <1>3, <1>4, <3>1 DEF GreaterOrEqual
  <2> QED BY <2>2, <2>3
<1>6. LessOrEqual(x, y) = Bool(x.v <= y.v) /\ Greater(x, y) = Bool(y.v < x.v)
  <2>1. CASE x.v < y.v
    <3>1. (x.v <= y.v) = TRUE /\ (y.v < x.v) = FALSE /\ (x.v < y.v) = TRUE
      BY <1>1, <2>1
    <3> QED BY <1>2, <1>3, <1>4, <3>1 DEF LessOrEqual, Greater
  <2>2. CASE x.v = y.v
    <3>1. /\ (x.v <= y.v) = TRUE /\ (y.v < x.v) = FALSE /\ (x.v < y.v) = FALSE
          /\ (x.v = y.v) = TRUE
      BY <1>1, <2>2
    <3> QED BY <1>2, <1>3, <1>4, <3>1 DEF LessOrEqual, Greater, NotEqual
  <2>3. CASE y.v < x.v
    <3>1. /\ (x.v <= y.v) = FALSE /\ (y.v < x.v) = TRUE /\ (x.v < y.v) = FALSE
          /\ (x.v = y.v) = FALSE
      BY <1>1, <2>3
    <3> QED BY <1>2, <1>3, <1>4, <3>1 DEF LessOrEqual, Greater, NotEqual
  <2> QED BY <1>1, <2>1, <2>2, <2>3
<1> QED BY <1>2, <1>5, <1>6

-----------------------------------------------------------------------------
(***************************************************************************)
(* What arithmetic returns.                                                *)
(***************************************************************************)
IsRecord(r) == r = [type |-> r.type, v |-> r.v]

ResultFor(x, r) ==
  /\ IsRecord(r)
  /\ r.type \in {x.type, "null", "error", "trap"}
  /\ r.type = "trap" => x.type = "bool"

LEMMA Conversions ==
  ASSUME NEW y \in Values
  PROVE  /\ IsRecord(ToInt(y)) /\ ToInt(y).type \in {"int", "error"}
         /\ IsRecord(ToFloat(y)) /\ ToFloat(y).type \in {"float", "error"}
         /\ IsRecord(ToBool(y)) /\ ToBool(y).type \in {"bool", "error"}
<1>1. y.type \in Types /\ IsRecord(y)
  BY ValueFacts DEF IsRecord
<1>2. /\ IsRecord(Error) /\ Error.type = "error"
      /\ \A n : IsRecord(Int32(n)) /\ Int32(n).type = "int"
      /\ \A n : IsRecord(Float(n)) /\ Float(n).type = "float"
      /\ \A n : IsRecord(Bool(n)) /\ Bool(n).type = "bool"
  BY DEF IsRecord, Error, Int32, Float, Bool
<1>3. IsRecord(ToInt(y)) /\ ToInt(y).type \in {"int", "error"}
  BY <1>1, <1>2 DEF ToInt, Types
<1>4. IsRecord(ToFloat(y)) /\ ToFloat(y).type \in {"float", "error"}
  BY <1>1, <1>2 DEF ToFloat, Types
<1>5. IsRecord(ToBool(y)) /\ ToBool(y).type \in {"bool", "error"}
  BY <1>2 DEF ToBool
<1> QED BY <1>3, <1>4, <1>5

LEMMA Arithmetic ==
  ASSUME NEW x, IsRecord(x), x.type \in Types, NEW y \in Values
  PROVE  /\ ResultFor(x, Plus(x, y)) /\ ResultFor(x, Minus(x, y))
         /\ ResultFor(x, Product(x, y)) /\ ResultFor(x, Divide(x, y))
<1>0. /\ IsRecord(ToInt(y)) /\ ToInt(y).type \in {"int", "error"}
      /\ IsRecord(ToFloat(y)) /\ ToFloat(y).type \in {"float", "error"}
      /\ IsRecord(ToBool(y)) /\ ToBool(y).type \in {"bool", "error"}
  BY Conversions
<1>1. /\ IsRecord(Null) /\ Null.type = "null"
      /\ IsRecord(Error) /\ Error.type = "error"
      /\ IsRecord(Trap) /\ Trap.type = "trap"
      /\ \A n : IsRecord(Int32(n)) /\ Int32(n).type = "int"
      /\ \A n : IsRecord(Float(n)) /\ Float(n).type = "float"
      /\ \A n : IsRecord(Truth(n)) /\ Truth(n).type = "bool"
      /\ \A n, m : IsRecord(ShiftTime(n, m)) /\ ShiftTime(n, m).type = "time"
      /\ IsRecord(Concat(x, y)) /\ Concat(x, y).type = "varchar"
  BY DEF IsRecord, Null, Error, Trap, Int32, Float, Truth, Bool, ShiftTime,
     FromUtcEpoch, Time, Concat, Varchar, VarcharAt
<1>2. \A a, b : /\ IsRecord(Ratio(a, b)) /\ Ratio(a, b).type \in {"int", "error"}
                /\ IsRecord(BoolRatio(a, b)) /\ BoolRatio(a, b).type \in {"bool", "trap"}
  BY <1>1 DEF Ratio, BoolRatio
<1>3. x.type # "null" => x.type \in {"int", "float", "varchar", "bool", "time"}
  BY DEF Types
<1>4. ResultFor(x, Plus(x, y))
  BY <1>0, <1>1, <1>3 DEF ResultFor, Plus, Both, IsError, IsNull
<1>5. ResultFor(x, Minus(x, y))
  BY <1>0, <1>1, <1>3 DEF ResultFor, Minus, Both, IsError, IsNull
<1>6. ResultFor(x, Product(x, y))
  BY <1>0, <1>1, <1>3 DEF ResultFor, Product, Both, IsError, IsNull
<1>7. ResultFor(x, Divide(x, y))
  BY <1>0, <1>1, <1>2, <1>3 DEF ResultFor, Divide, Both, IsError, IsNull
<1> QED BY <1>4, <1>5, <1>6, <1>7

-----------------------------------------------------------------------------
(***************************************************************************)
(* The order of a column whose values are of one type or NULL              *)
(***************************************************************************)
Alike(x, y) == IF IsNull(x) THEN IsNull(y) ELSE ~IsNull(y) /\ x.v = y.v
Under(x, y) == IF IsNull(x) THEN ~IsNull(y) ELSE ~IsNull(y) /\ x.v < y.v

LEMMA ColumnOrder ==
  ASSUME NEW x \in Values, NEW y \in Values,
         IsNull(x) \/ IsNull(y) \/ x.type = y.type,
         IsNull(y) => ~PassesForNull(x)
  PROVE  /\ Equal(x, y) \in {Yes, No} /\ Yes # No
         /\ Equal(x, y) = Yes <=> Alike(x, y)
         /\ Equal(x, y) = No /\ Less(x, y) = Yes <=> Under(x, y)
<1>1. /\ Yes # No /\ Yes = Bool(TRUE) /\ No = Bool(FALSE)
      /\ \A b \in BOOLEAN : Bool(b) \in {Yes, No} /\ (Bool(b) = Yes <=> b)
  BY DEF Yes, No, Bool
<1>2. CASE IsNull(x)
  <2>1. x = Null
    BY <1>2, ValueFacts
  <2>2. Less(x, y) = Yes /\ Equal(x, y) = IF IsNull(y) THEN Yes ELSE No
    <3>1. CASE IsNull(y)
      <4>1. IsNull(y) = TRUE
        BY <3>1 DEF IsNull
      <4> QED BY <1>1, <2>1, <3>1, <4>1, NullOrder
    <3>2. CASE ~IsNull(y)
      <4>1. IsNull(y) = FALSE
        BY <3>2 DEF IsNull
      <4> QED BY <1>1, <2>1, <3>2, <4>1, NullOrder
    <3> QED BY <3>1, <3>2
  <2> QED BY <1>1, <1>2, <2>2 DEF Alike, Under
<1>3. CASE ~IsNull(x) /\ IsNull(y)
  <2>1. y = Null
    BY <1>3, ValueFacts
  <2>2. Equal(x, y) = No /\ Less(x, y) = No
    BY <1>1, <1>3, <2>1, EqualNull, NullOrder DEF PassesForNull, Less, IsNull, Null
  <2> QED BY <1>1, <1>3, <2>2 DEF Alike, Under
<1>4. CASE ~IsNull(x) /\ ~IsNull(y)
  <2>1. Less(x, y) = Bool(x.v < y.v) /\ Equal(x, y) = Bool(x.v = y.v)
    BY <1>4, OneTypeOrder
  <2>2. x.v \in Int /\ y.v \in Int
    BY ValueFacts
  <2>3. (x.v < y.v) \in BOOLEAN /\ (x.v = y.v) \in BOOLEAN
    OBVIOUS
  <2>4. (Less(x, y) = Yes <=> x.v < y.v) /\ (Equal(x, y) = Yes <=> x.v = y.v)
        /\ Equal(x, y) \in {Yes, No}
    BY <1>1, <2>1, <2>3
  <2>5. x.v < y.v => x.v # y.v
    BY <2>2
  <2> QED BY <1>1, <1>4, <2>4, <2>5 DEF Alike, Under
<1> QED BY <1>2, <1>3, <1>4

LEMMA ValuesOrder ==
  ASSUME NEW x \in Values, NEW y \in Values, NEW z \in Values
  PROVE  /\ ~(Under(x, y) /\ Under(y, x)) /\ ~(Under(x, y) /\ Alike(x, y))
         /\ Under(x, y) \/ Under(y, x) \/ Alike(x, y)
         /\ Alike(x, y) <=> Alike(y, x)
         /\ Under(x, y) /\ Under(y, z) => Under(x, z)
         /\ Under(x, y) /\ Alike(y, z) => Under(x, z)
         /\ Alike(x, y) /\ Under(y, z) => Under(x, z)
         /\ Alike(x, y) /\ Alike(y, z) => Alike(x, z)
<1>1. x.v \in Int /\ y.v \in Int /\ z.v \in Int
  BY ValueFacts
<1> QED BY <1>1 DEF Alike, Under

=============================================================================
