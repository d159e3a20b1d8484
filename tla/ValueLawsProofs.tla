--------------------------- MODULE ValueLawsProofs ---------------------------
(***************************************************************************)
(* Proofs about ValueLaws, for every set of strings and of operands: that  *)
(* arithmetic has a result, that the comparisons agree, and that the order *)
(* of tuples built from them is the one the sorted containers ask for.     *)
(***************************************************************************)
EXTENDS ValueLaws, SqlValuesProofs, FiniteSetTheorems

-----------------------------------------------------------------------------
(***************************************************************************)
(* The order of tuples.  In a column that holds values of one type and no  *)
(* value that equals NULL, = and, between different values, < are those of *)
(* an order in which NULL comes first.                                     *)
(***************************************************************************)
LEMMA TupleOrder ==
  ASSUME NEW t \in Values \X Values, NEW u \in Values \X Values,
         \A i \in 1..2 : IsNull(t[i]) \/ IsNull(u[i]) \/ t[i].type = u[i].type,
         \A i \in 1..2 : IsNull(u[i]) => ~PassesForNull(t[i])
  PROVE  /\ TupleLess(t, u) <=>
               Under(t[1], u[1]) \/ (Alike(t[1], u[1]) /\ Under(t[2], u[2]))
         /\ TupleEqual(t, u) = Yes <=> Alike(t[1], u[1]) /\ Alike(t[2], u[2])
<1>1. /\ t[1] \in Values /\ t[2] \in Values /\ u[1] \in Values /\ u[2] \in Values
      /\ Len(t) = 2 /\ Len(u) = 2 /\ DOMAIN t = 1..2
  OBVIOUS
<1>2. \A i \in 1..2 : /\ Equal(t[i], u[i]) \in {Yes, No} /\ Yes # No
                      /\ Equal(t[i], u[i]) = Yes <=> Alike(t[i], u[i])
                      /\ Equal(t[i], u[i]) = No /\ Less(t[i], u[i]) = Yes
                            <=> Under(t[i], u[i])
  <2>1. \A i \in 1..2 : t[i] \in Values /\ u[i] \in Values
    BY <1>1
  <2> QED BY <2>1, ColumnOrder
<1>3. TupleLess(t, u) <=>
         Under(t[1], u[1]) \/ (Alike(t[1], u[1]) /\ Under(t[2], u[2]))
  <2>1. Fields(t, u) = 1..2 /\ \A i \in 1..2 : Field(t, i) = t[i] /\ Field(u, i) = u[i]
    BY <1>1 DEF Fields, Field
  <2>2. TupleLess(t, u) <=>
          \E i \in 1..2 : /\ \A j \in 1..(i - 1) : Alike(t[j], u[j])
                          /\ Under(t[i], u[i])
    <3>1. \A i \in 1..2 : \A j \in 1..(i - 1) : j \in 1..2
      OBVIOUS
    <3> QED BY <1>2, <2>1, <3>1 DEF TupleLess
  <2>3. 1..(1 - 1) = {} /\ 1..(2 - 1) = {1} /\ 1..2 = {1, 2}
    OBVIOUS
  <2> QED BY <2>2, <2>3
<1>4. TupleEqual(t, u) = Yes <=> Alike(t[1], u[1]) /\ Alike(t[2], u[2])
  <2> DEFINE settled == {i \in DOMAIN t : Equal(t[i], u[i]) # Yes}
  <2>1. TupleEqual(t, u) =
          IF settled = {} THEN Yes
          ELSE LET i == CHOOSE i \in settled : \A j \in settled : i <= j
               IN Equal(t[i], u[i])
    BY <1>1 DEF TupleEqual
  <2>2. settled = {} <=> Alike(t[1], u[1]) /\ Alike(t[2], u[2])
    BY <1>1, <1>2
  <2>3. ASSUME settled # {}
        PROVE  TupleEqual(t, u) # Yes
    <3>1. settled \subseteq 1..2
      BY <1>1
    <3>2. \E i \in settled : \A j \in settled : i <= j
      <4>1. CASE 1 \in settled
        BY <3>1, <4>1
      <4>2. CASE 1 \notin settled
        BY <2>3, <3>1, <4>2
      <4> QED BY <4>1, <4>2
    <3>3. (CHOOSE i \in settled : \A j \in settled : i <= j) \in settled
      <4> HIDE DEF settled
      <4> QED BY <3>2, Zenon
    <3> QED BY <2>1, <2>3, <3>3
  <2> QED BY <2>1, <2>2, <2>3
<1> QED BY <1>3, <1>4

-----------------------------------------------------------------------------
(***************************************************************************)
(* Arithmetic gives the type of its left operand, NULL or an error, and a  *)
(* division C++ does not define only where the left operand is a BOOL.     *)
(***************************************************************************)
THEOREM TypeCorrect == Spec => []TypeOK
<1>1. Init => TypeOK
  <2>. SUFFICES ASSUME Init PROVE TypeOK
    OBVIOUS
  <2>1. acc \in Values /\ from[1] \in {acc, Null}
    BY OperandsAssumption DEF Init, NoOperands, Values
  <2>2. acc.type \in Types /\ acc.v \in Int /\ IsRecord(acc)
    BY <2>1, ValueFacts DEF IsRecord
  <2>3. from[1].type = acc.type \/ acc.type = "null"
    BY DEF Init, NoOperands, Null
  <2>4. acc.type \notin {"trap"}
    BY <2>2 DEF Types
  <2>5. acc \in [type : Types \cup {"error", "trap"}, v : Int]
    BY <2>2 DEF IsRecord
  <2> QED BY <2>3, <2>4, <2>5 DEF TypeOK, Init
<1>2. TypeOK /\ [Next]_vars => TypeOK'
  <2>. SUFFICES ASSUME TypeOK, [Next]_vars PROVE TypeOK'
    OBVIOUS
  <2>1. ASSUME NEW x \in Sorted, NEW y \in Sorted, AddKey(<<x, y>>) PROVE TypeOK'
    BY <2>1 DEF AddKey, TypeOK
  <2>2. ASSUME NEW x \in Operands, NEW r, ResultFor(acc, r) \/ IsError(acc),
               ~IsError(acc), acc' = r, acc'.v \in -4..4, from' = <<acc, x>>,
               UNCHANGED keys
        PROVE  TypeOK'
    <3>1. /\ r.v \in Int /\ IsRecord(r)
          /\ r.type \in {acc.type, "null", "error", "trap"}
          /\ r.type = "trap" => acc.type = "bool"
      BY <2>2 DEF ResultFor
    <3>2. r \in [type : Types \cup {"error", "trap"}, v : Int]
      BY <3>1 DEF TypeOK, IsRecord, Types
    <3> QED BY <2>2, <3>1, <3>2 DEF TypeOK
  <2>3. ASSUME NEW x \in Operands, Calculate(x) PROVE TypeOK'
    <3>1. ~IsError(acc)
      BY <2>3 DEF Calculate, Compute
    <3>2. IsRecord(acc) /\ acc.type \in Types /\ x \in Values
      BY <3>1, OperandsAssumption DEF TypeOK, IsRecord, IsError
    <3>3. /\ ResultFor(acc, Plus(acc, x)) /\ ResultFor(acc, Minus(acc, x))
          /\ ResultFor(acc, Product(acc, x)) /\ ResultFor(acc, Divide(acc, x))
      BY <3>2, Arithmetic
    <3>4. /\ acc'.v \in -4..4 /\ from' = <<acc, x>> /\ UNCHANGED keys
          /\ acc' \in {Plus(acc, x), Minus(acc, x), Product(acc, x), Divide(acc, x)}
      BY <2>3 DEF Calculate, Compute
    <3> QED BY <2>2, <3>1, <3>3, <3>4
  <2>4. CASE UNCHANGED vars
    BY <2>4 DEF vars, TypeOK
  <2> QED BY <2>1, <2>3, <2>4 DEF Next
<1> QED BY <1>1, <1>2, PTL DEF Spec

(***************************************************************************)
(* The comparisons of any two values that come together as keys agree.     *)
(***************************************************************************)
THEOREM ComparisonsAreConsistent == Spec => []ComparisonsAgree
<1>1. TypeOK => ComparisonsAgree
  <2>. SUFFICES ASSUME TypeOK, NEW t \in keys, t[1].type = t[2].type, ~IsNull(t[1])
                PROVE  LET x == t[1]  y == t[2] IN
                       /\ Cardinality({R \in {"<", "=", ">"} :
                                         Yes = CASE R = "<" -> Less(x, y)
                                                 [] R = "=" -> Equal(x, y)
                                                 [] R = ">" -> Greater(x, y)}) = 1
                       /\ LessOrEqual(x, y) = Not(Greater(x, y))
                       /\ GreaterOrEqual(x, y) = Not(Less(x, y))
    BY DEF ComparisonsAgree
  <2> DEFINE x == t[1]
             y == t[2]
             Holds(R) == Yes = CASE R = "<" -> Less(x, y)
                                 [] R = "=" -> Equal(x, y)
                                 [] R = ">" -> Greater(x, y)
  <2>1. x \in Values /\ y \in Values
    BY OperandsAssumption DEF TypeOK
  <2>2. x.v \in Int /\ y.v \in Int
    BY <2>1, ValueFacts
  <2>3. /\ Less(x, y) = Bool(x.v < y.v) /\ Equal(x, y) = Bool(x.v = y.v)
        /\ Greater(x, y) = Bool(y.v < x.v) /\ LessOrEqual(x, y) = Bool(x.v <= y.v)
        /\ GreaterOrEqual(x, y) = Bool(y.v <= x.v)
    BY <2>1, Comparisons
  <2> HIDE DEF x, y
  <2>4. /\ Bool(TRUE) = Yes /\ Bool(FALSE) # Yes
        /\ Not(Bool(TRUE)) = Bool(FALSE) /\ Not(Bool(FALSE)) = Bool(TRUE)
    BY DEF Bool, Yes, No, Not, IsError
  <2>5. /\ \E R \in {"<", "=", ">"} : {S \in {"<", "=", ">"} : Holds(S)} = {R}
        /\ LessOrEqual(x, y) = Not(Greater(x, y))
        /\ GreaterOrEqual(x, y) = Not(Less(x, y))
    <3>1. CASE x.v < y.v
      <4>1. /\ (x.v < y.v) = TRUE /\ (x.v = y.v) = FALSE /\ (y.v < x.v) = FALSE
            /\ (x.v <= y.v) = TRUE /\ (y.v <= x.v) = FALSE
        BY <2>2, <3>1
      <4>2. Holds("<") /\ ~Holds("=") /\ ~Holds(">")
        BY <2>3, <2>4, <4>1
      <4>3. {S \in {"<", "=", ">"} : Holds(S)} = {"<"}
        BY <4>2
      <4> QED BY <2>3, <2>4, <4>1, <4>3
    <3>2. CASE x.v = y.v
      <4>1. /\ (x.v < y.v) = FALSE /\ (x.v = y.v) = TRUE /\ (y.v < x.v) = FALSE
            /\ (x.v <= y.v) = TRUE /\ (y.v <= x.v) = TRUE
        BY <2>2, <3>2
      <4>2. ~Holds("<") /\ Holds("=") /\ ~Holds(">")
        BY <2>3, <2>4, <4>1
      <4>3. {S \in {"<", "=", ">"} : Holds(S)} = {"="}
        BY <4>2
      <4> QED BY <2>3, <2>4, <4>1, <4>3
    <3>3. CASE y.v < x.v
      <4>1. /\ (x.v < y.v) = FALSE /\ (x.v = y.v) = FALSE /\ (y.v < x.v) = TRUE
            /\ (x.v <= y.v) = FALSE /\ (y.v <= x.v) = TRUE
        BY <2>2, <3>3
      <4>2. ~Holds("<") /\ ~Holds("=") /\ Holds(">")
        BY <2>3, <2>4, <4>1
      <4>3. {S \in {"<", "=", ">"} : Holds(S)} = {">"}
        BY <4>2
      <4> QED BY <2>3, <2>4, <4>1, <4>3
    <3> QED BY <2>2, <3>1, <3>2, <3>3
  <2>6. Cardinality({R \in {"<", "=", ">"} : Holds(R)}) = 1
    <3> HIDE DEF Holds
    <3> QED BY <2>5, FS_Singleton
  <2> QED BY <2>5, <2>6 DEF x, y
<1> QED BY <1>1, TypeCorrect, PTL

(***************************************************************************)
(* Over columns of one type without a value that equals NULL, the order of *)
(* tuples is a strict weak order, and the tuples it does not tell apart    *)
(* are those that compare equal.                                           *)
(***************************************************************************)
THEOREM TuplesAreOrdered == Spec => []OrderIsStrictWeak
<1> DEFINE Lex(t, u) == Under(t[1], u[1]) \/ (Alike(t[1], u[1]) /\ Under(t[2], u[2]))
           Eq(t, u) == Alike(t[1], u[1]) /\ Alike(t[2], u[2])
<1>1. ASSUME NEW t \in Values \X Values, NEW u \in Values \X Values, NEW w \in Values \X Values
      PROVE  /\ ~(Lex(t, u) /\ Lex(u, t))
             /\ ~Lex(t, u) /\ ~Lex(u, t) <=> Eq(t, u)
             /\ Lex(t, u) /\ Lex(u, w) => Lex(t, w)
             /\ Eq(t, u) /\ Eq(u, w) => Eq(t, w)
  <2>1. /\ t[1] \in Values /\ t[2] \in Values /\ u[1] \in Values /\ u[2] \in Values
        /\ w[1] \in Values /\ w[2] \in Values
    OBVIOUS
  <2>2. \A x, y, z \in Values :
         /\ ~(Under(x, y) /\ Under(y, x)) /\ ~(Under(x, y) /\ Alike(x, y))
         /\ Under(x, y) \/ Under(y, x) \/ Alike(x, y)
         /\ Alike(x, y) <=> Alike(y, x)
         /\ Under(x, y) /\ Under(y, z) => Under(x, z)
         /\ Under(x, y) /\ Alike(y, z) => Under(x, z)
         /\ Alike(x, y) /\ Under(y, z) => Under(x, z)
         /\ Alike(x, y) /\ Alike(y, z) => Alike(x, z)
    BY ValuesOrder
  <2> QED BY <2>1, <2>2
<1>2. TypeOK => OrderIsStrictWeak
  <2>. SUFFICES ASSUME TypeOK, Orderable PROVE OrderIsStrictWeak
    BY DEF OrderIsStrictWeak
  <2>1. \A t \in keys : t \in Values \X Values
    BY OperandsAssumption DEF TypeOK
  <2>2. ASSUME NEW t \in keys, NEW u \in keys
        PROVE  /\ TupleLess(t, u) <=> Lex(t, u)
               /\ TupleEqual(t, u) = Yes <=> Eq(t, u)
    <3>1. \A i \in 1..2 : IsNull(t[i]) \/ IsNull(u[i]) \/ t[i].type = u[i].type
      BY DEF Orderable, OneType, Column
    <3>2. ASSUME NEW i \in 1..2, IsNull(u[i])
          PROVE  ~PassesForNull(t[i])
      <4>1. u[i] \in Values
        BY <2>1
      <4>2. u[i] = Null
        BY <3>2, <4>1, ValueFacts
      <4>3. Null \in Column(i) /\ t[i] \in Column(i)
        BY <4>2 DEF Column
      <4> QED BY <4>3 DEF Orderable
    <3> HIDE DEF Lex, Eq
    <3>3. t \in Values \X Values /\ u \in Values \X Values
      BY <2>1
    <3> QED BY <3>1, <3>2, <3>3, TupleOrder DEF Lex, Eq
  <2> HIDE DEF Lex, Eq
  <2>3. \A t, u \in keys : /\ ~(TupleLess(t, u) /\ TupleLess(u, t))
                           /\ Incomparable(t, u) <=> TupleEqual(t, u) = Yes
    BY <1>1, <2>1, <2>2 DEF Incomparable
  <2>4. \A t, u, w \in keys :
           /\ TupleLess(t, u) /\ TupleLess(u, w) => TupleLess(t, w)
           /\ Incomparable(t, u) /\ Incomparable(u, w) => Incomparable(t, w)
    BY <1>1, <2>1, <2>2 DEF Incomparable
  <2> QED BY <2>3, <2>4 DEF OrderIsStrictWeak
<1> QED BY <1>2, TypeCorrect, PTL
=============================================================================
