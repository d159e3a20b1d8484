-------------------------- MODULE SqlSelectProofs ---------------------------
(***************************************************************************)
(* Proofs about SqlJoins and SqlSelect, for relations of any size and any  *)
(* expressions: where the keys of a side are unique, one walk over the     *)
(* sorted index of a join finds every pair; a SELECT without groups        *)
(* returns each row that passes WHERE as often as the relation has it; and *)
(* ORDER BY sorts, keeping equal rows in the order they are in.            *)
(***************************************************************************)
EXTENDS SqlSelect, SqlValuesProofs, Induction, FiniteSetTheorems, SequenceTheorems

(***************************************************************************)
(* The rows that are put in the index, in the order they are, and their    *)
(* entries.                                                                *)
(***************************************************************************)
InputCount(e) == Len(e.lhs.rows) + Len(e.rhs.rows)
SideOf(e, i) == IF i <= Len(e.lhs.rows) THEN "lhs" ELSE "rhs"
RowOf(e, i) ==
  IF i <= Len(e.lhs.rows) THEN e.lhs.rows[i] ELSE e.rhs.rows[i - Len(e.lhs.rows)]
KeyColumn(e, i) ==
  IF i <= Len(e.lhs.rows) THEN KeyIndex(e.lhs, e.onLhs) ELSE KeyIndex(e.rhs, e.onRhs)
HasKey(e, i) == KeyColumn(e, i) <= Len(RowOf(e, i))
KeyOf(e, i) == RowOf(e, i)[KeyColumn(e, i)]
EntryOf(e, i) == [key |-> KeyOf(e, i), side |-> SideOf(e, i), row |-> RowOf(e, i)]
Entries(e) == {EntryOf(e, i) : i \in 1..InputCount(e)}

KeysDiffer(e) ==
  /\ \A i \in 1..InputCount(e) : ~IsNull(KeyOf(e, i))
  /\ \A i, j \in 1..InputCount(e) :
       i # j /\ SideOf(e, i) = SideOf(e, j) => KeyOf(e, i) # KeyOf(e, j)

(* Keys ascend, and of two equal ones the left side's comes first. *)
Precedes(d, e) ==
  d.key.v < e.key.v \/ (d.key.v = e.key.v /\ d.side = "lhs" /\ e.side = "rhs")
Sorted(map) == \A p, q \in DOMAIN map : p < q => Precedes(map[p], map[q])

(* The index of the first n rows *)
Indexed(e, map, n) ==
  /\ map \in Seq(Entries(e)) /\ Len(map) = n
  /\ n \in 0..InputCount(e)
  /\ \A i \in 1..n : HasKey(e, i) /\ \E p \in 1..n : map[p] = EntryOf(e, i)
  /\ \A p \in 1..n : \E i \in 1..n : map[p] = EntryOf(e, i)
  /\ KeysDiffer(e) => Sorted(map)

LEMMA PlaceOfKey ==
  ASSUME NEW table \in Relations, NEW on
  PROVE  KeyIndex(table, on) \in Nat \ {0}
<1> DEFINE named == {i \in DOMAIN table.columns : table.columns[i] = on}
<1>1. Len(table.columns) \in Nat /\ named \subseteq Nat \ {0}
  BY DEF Relations
<1>2. CASE named = {}
  BY <1>1, <1>2 DEF KeyIndex
<1>3. CASE named # {}
  <2>1. \E i \in named : \A j \in named : i <= j
    BY <1>1, <1>3, SmallestIn
  <2>2. KeyIndex(table, on) \in named
    BY <1>3, <2>1 DEF KeyIndex
  <2> QED BY <1>1, <2>2
<1> QED BY <1>2, <1>3

LEMMA InputPlaces ==
  ASSUME NEW e \in Joinable, NEW i \in 1..InputCount(e)
  PROVE  /\ Len(e.lhs.rows) \in Nat /\ Len(e.rhs.rows) \in Nat /\ i \in Nat
         /\ i <= Len(e.lhs.rows) => i \in DOMAIN e.lhs.rows
         /\ ~(i <= Len(e.lhs.rows)) => i - Len(e.lhs.rows) \in DOMAIN e.rhs.rows
<1> DEFINE L == Len(e.lhs.rows)
           R == Len(e.rhs.rows)
<1>1. e.lhs.rows \in Seq(Seq(Values)) /\ e.rhs.rows \in Seq(Seq(Values))
  BY DEF Joinable, TableExpressions, Relations
<1>2. L \in Nat /\ DOMAIN e.lhs.rows = 1..L
  BY <1>1
<1>3. R \in Nat /\ DOMAIN e.rhs.rows = 1..R
  BY <1>1
<1>4. i \in 1..(L + R)
  BY DEF InputCount
<1> HIDE DEF L, R
<1>5. i \in Nat /\ (i <= L => i \in 1..L) /\ (~(i <= L) => i - L \in 1..R)
  BY <1>2, <1>3, <1>4
<1> QED BY <1>2, <1>3, <1>5 DEF L, R

LEMMA InputCountType ==
  ASSUME NEW e \in Joinable
  PROVE  InputCount(e) \in Nat
<1>1. e.lhs.rows \in Seq(Seq(Values)) /\ e.rhs.rows \in Seq(Seq(Values))
  BY DEF Joinable, TableExpressions, Relations
<1> DEFINE L == Len(e.lhs.rows)
           R == Len(e.rhs.rows)
<1>2. L \in Nat /\ R \in Nat
  BY <1>1
<1>3. InputCount(e) = L + R
  BY DEF InputCount
<1> HIDE DEF L, R
<1> QED BY <1>2, <1>3

LEMMA InputFacts ==
  ASSUME NEW e \in Joinable, NEW i \in 1..InputCount(e)
  PROVE  /\ RowOf(e, i) \in Seq(Values) /\ SideOf(e, i) \in {"lhs", "rhs"}
         /\ KeyColumn(e, i) \in Nat \ {0}
         /\ HasKey(e, i) => KeyOf(e, i) \in Values
<1>1. /\ e.lhs \in Relations /\ e.rhs \in Relations
      /\ e.lhs.rows \in Seq(Seq(Values)) /\ e.rhs.rows \in Seq(Seq(Values))
  BY DEF Joinable, TableExpressions, Relations
<1>2. RowOf(e, i) \in Seq(Values)
  BY <1>1, InputPlaces DEF RowOf
<1>3. KeyColumn(e, i) \in Nat \ {0}
  BY <1>1, PlaceOfKey DEF KeyColumn
<1>4. HasKey(e, i) => KeyOf(e, i) \in Values
  BY <1>2, <1>3 DEF HasKey, KeyOf
<1> QED BY <1>2, <1>3, <1>4 DEF SideOf

\* Keys are compared as integers.
LEMMA KeysHaveOneType ==
  ASSUME NEW e \in Joinable, NEW i \in 1..InputCount(e), NEW j \in 1..InputCount(e),
         HasKey(e, i), HasKey(e, j), ~IsNull(KeyOf(e, i)), ~IsNull(KeyOf(e, j))
  PROVE  /\ KeyOf(e, i).type = KeyOf(e, j).type
         /\ KeyOf(e, i).v \in Int /\ KeyOf(e, j).v \in Int
         /\ Less(KeyOf(e, i), KeyOf(e, j)) = Yes <=> KeyOf(e, i).v < KeyOf(e, j).v
         /\ Equal(KeyOf(e, i), KeyOf(e, j)) = Yes <=> KeyOf(e, i).v = KeyOf(e, j).v
         /\ KeyOf(e, i).v = KeyOf(e, j).v => KeyOf(e, i) = KeyOf(e, j)
<1>1. KeyOf(e, i) \in Values /\ KeyOf(e, j) \in Values
  BY InputFacts
<1>2. /\ e.lhs.rows \in Seq(Seq(Values)) /\ e.rhs.rows \in Seq(Seq(Values))
      /\ SameTypes(e.lhs, e.onLhs, e.lhs, e.onLhs)
      /\ SameTypes(e.lhs, e.onLhs, e.rhs, e.onRhs)
      /\ SameTypes(e.rhs, e.onRhs, e.rhs, e.onRhs)
  BY DEF Joinable, TableExpressions, Relations
<1>3. KeyOf(e, i).type = KeyOf(e, j).type
  <2> DEFINE Left(k) == k <= Len(e.lhs.rows)
  <2>1. ASSUME NEW k \in {i, j}
        PROVE  IF Left(k) THEN /\ RowOf(e, k) \in ToSet(e.lhs.rows)
                               /\ KeyColumn(e, k) = KeyIndex(e.lhs, e.onLhs)
                          ELSE /\ RowOf(e, k) \in ToSet(e.rhs.rows)
                               /\ KeyColumn(e, k) = KeyIndex(e.rhs, e.onRhs)
    <3>1. IF Left(k) THEN k \in DOMAIN e.lhs.rows
                     ELSE k - Len(e.lhs.rows) \in DOMAIN e.rhs.rows
      BY InputPlaces
    <3> QED BY <3>1 DEF RowOf, KeyColumn, ToSet
  <2>2. /\ KeyColumn(e, i) <= Len(RowOf(e, i)) /\ ~IsNull(RowOf(e, i)[KeyColumn(e, i)])
        /\ KeyColumn(e, j) <= Len(RowOf(e, j)) /\ ~IsNull(RowOf(e, j)[KeyColumn(e, j)])
    BY DEF HasKey, KeyOf
  <2> HIDE DEF Left
  <2>3. CASE Left(i) /\ Left(j)
    BY <1>2, <2>1, <2>2, <2>3 DEF SameTypes, KeyOf
  <2>4. CASE Left(i) /\ ~Left(j)
    BY <1>2, <2>1, <2>2, <2>4 DEF SameTypes, KeyOf
  <2>5. CASE ~Left(i) /\ Left(j)
    BY <1>2, <2>1, <2>2, <2>5 DEF SameTypes, KeyOf
  <2>6. CASE ~Left(i) /\ ~Left(j)
    BY <1>2, <2>1, <2>2, <2>6 DEF SameTypes, KeyOf
  <2> QED BY <2>3, <2>4, <2>5, <2>6
<1>4. /\ Less(KeyOf(e, i), KeyOf(e, j)) = Bool(KeyOf(e, i).v < KeyOf(e, j).v)
      /\ Equal(KeyOf(e, i), KeyOf(e, j)) = Bool(KeyOf(e, i).v = KeyOf(e, j).v)
  BY <1>1, <1>3, OneTypeOrder
<1>5. /\ KeyOf(e, i).v \in Int /\ KeyOf(e, j).v \in Int
      /\ KeyOf(e, i) = [type |-> KeyOf(e, i).type, v |-> KeyOf(e, i).v]
      /\ KeyOf(e, j) = [type |-> KeyOf(e, j).type, v |-> KeyOf(e, j).v]
  BY <1>1, ValueFacts
<1>6. Less(KeyOf(e, i), KeyOf(e, j)) = Yes <=> KeyOf(e, i).v < KeyOf(e, j).v
  BY <1>4 DEF Bool, Yes
<1>7. Equal(KeyOf(e, i), KeyOf(e, j)) = Yes <=> KeyOf(e, i).v = KeyOf(e, j).v
  BY <1>4 DEF Bool, Yes
<1> QED BY <1>3, <1>5, <1>6, <1>7

\* A set of numbers that holds every smaller one is an interval.
LEMMA Prefix ==
  ASSUME NEW n \in Nat, NEW T \in SUBSET (1..n),
         \A i, j \in 1..n : i < j /\ j \in T => i \in T
  PROVE  Cardinality(T) \in 0..n /\ T = 1..Cardinality(T)
<1>1. CASE T = {}
  BY <1>1, FS_EmptySet
<1>2. CASE T # {}
  <2>1. PICK g \in T : \A y \in T : g >= y
    BY <1>2, GreatestIn
  <2>2. g \in 1..n
    OBVIOUS
  <2>3. ASSUME NEW y PROVE y \in T <=> y \in 1..g
    <3>1. CASE y \in T
      BY <2>1, <2>2, <3>1
    <3>2. CASE y \in 1..g
      <4>1. y \in 1..n /\ (y = g \/ y < g)
        BY <2>2, <3>2
      <4> QED BY <2>2, <4>1
    <3> QED BY <3>1, <3>2
  <2>4. T = 1..g
    BY <2>3
  <2>5. Cardinality(1..g) = g
    BY <2>2, FS_Interval
  <2> QED BY <2>2, <2>4, <2>5
<1> QED BY <1>1, <1>2

LEMMA InsertedAt ==
  ASSUME NEW S, NEW seq \in Seq(S), NEW elt \in S, NEW n \in Nat, Len(seq) = n, NEW k \in 0..n
  PROVE  InsertAt(seq, k + 1, elt) =
           [p \in 1..(n + 1) |->
              IF p <= k THEN seq[p] ELSE IF p = k + 1 THEN elt ELSE seq[p - 1]]
<1> DEFINE front == SubSeq(seq, 1, k)
           back == SubSeq(seq, k + 1, Len(seq))
<1>1. front \in Seq(S) /\ Len(front) = k /\ \A p \in 1..k : front[p] = seq[p]
  OBVIOUS
<1>2. /\ back \in Seq(S) /\ Len(back) = n - k
      /\ \A p \in 1..(n - k) : back[p] = seq[k + p]
  OBVIOUS
<1>3. InsertAt(seq, k + 1, elt) = front \o <<elt>> \o back
  <2>1. (k + 1) - 1 = k
    OBVIOUS
  <2> QED BY <2>1 DEF InsertAt
<1> HIDE DEF front, back
<1> DEFINE mid == front \o <<elt>>
           all == mid \o back
<1>4. /\ mid \in Seq(S) /\ Len(mid) = k + 1 /\ mid[k + 1] = elt
      /\ \A p \in 1..k : mid[p] = seq[p]
  BY <1>1
<1>5. InsertAt(seq, k + 1, elt) = all
  BY <1>3
<1> HIDE DEF mid
<1>6. /\ all \in Seq(S) /\ Len(all) = Len(mid) + Len(back)
      /\ \A p \in 1..(Len(mid) + Len(back)) :
           all[p] = IF p <= Len(mid) THEN mid[p] ELSE back[p - Len(mid)]
  BY <1>2, <1>4, ConcatProperties
<1> HIDE DEF all
<1>7. (k + 1) + (n - k) = n + 1
  OBVIOUS
<1>8. /\ Len(all) = n + 1
      /\ \A p \in 1..(n + 1) :
           all[p] = IF p <= k + 1 THEN mid[p] ELSE back[p - (k + 1)]
  BY <1>2, <1>4, <1>6, <1>7
<1>9. ASSUME NEW p \in 1..(n + 1)
      PROVE  all[p] = IF p <= k THEN seq[p] ELSE IF p = k + 1 THEN elt ELSE seq[p - 1]
  <2>1. CASE p <= k
    BY <1>4, <1>8, <2>1
  <2>2. CASE p = k + 1
    BY <1>4, <1>8, <2>2
  <2>3. CASE p > k + 1
    <3>1. p - (k + 1) \in 1..(n - k) /\ k + (p - (k + 1)) = p - 1
      BY <2>3
    <3> QED BY <1>2, <1>8, <2>3, <3>1
  <2> QED BY <2>1, <2>2, <2>3
<1>10. all = [p \in 1..(n + 1) |-> all[p]]
  BY <1>6, <1>8
<1> QED BY <1>5, <1>9, <1>10

-----------------------------------------------------------------------------
(***************************************************************************)
(* The index                                                               *)
(***************************************************************************)
LEMMA IndexedRows ==
  ASSUME NEW e \in Joinable, NEW n, NEW map, Indexed(e, map, n)
  PROVE  /\ n \in Nat /\ Len(map) = n /\ DOMAIN map = 1..n
         /\ \A i \in 1..n : i \in 1..InputCount(e) /\ HasKey(e, i)
<1>1. n \in 0..InputCount(e) /\ InputCount(e) \in Nat
  BY InputCountType DEF Indexed
<1>2. \A i \in 1..n : i \in 1..InputCount(e)
  BY <1>1
<1>3. Len(map) = n /\ map \in Seq(Entries(e)) /\ \A i \in 1..n : HasKey(e, i)
  BY DEF Indexed
<1> QED BY <1>1, <1>2, <1>3

\* An entry in the index has a key that can be compared.
LEMMA KeysInIndex ==
  ASSUME NEW e \in Joinable, NEW n, NEW map, Indexed(e, map, n), KeysDiffer(e),
         NEW p \in 1..n
  PROVE  /\ map[p].key \in Values /\ map[p].key.v \in Int /\ ~IsNull(map[p].key)
         /\ map[p].side \in {"lhs", "rhs"}
<1>1. PICK i \in 1..n : map[p] = EntryOf(e, i)
  BY DEF Indexed
<1>2. i \in 1..InputCount(e) /\ HasKey(e, i)
  BY IndexedRows
<1>3. KeyOf(e, i) \in Values /\ ~IsNull(KeyOf(e, i)) /\ SideOf(e, i) \in {"lhs", "rhs"}
  BY <1>2, InputFacts DEF KeysDiffer
<1> QED BY <1>1, <1>3, ValueFacts DEF EntryOf

\* multimap::insert keeps the order, also that of the sides.
LEMMA EntryInserted ==
  ASSUME NEW e \in Joinable, NEW n \in Nat, NEW map, Indexed(e, map, n),
         n + 1 \in 1..InputCount(e), HasKey(e, n + 1)
  PROVE  Indexed(e, InsertEntry(map, EntryOf(e, n + 1)), n + 1)
<1> DEFINE x == EntryOf(e, n + 1)
           before == {i \in DOMAIN map : Less(x.key, map[i].key) # Yes}
           c == Cardinality(before)
           new == InsertAt(map, c + 1, x)
<1>1. x \in Entries(e) /\ map \in Seq(Entries(e)) /\ Len(map) = n /\ DOMAIN map = 1..n
  BY DEF Indexed, Entries
<1>2. before \in SUBSET (1..n)
  BY <1>1
<1>3. c \in 0..n
  <2>1. IsFiniteSet(1..n) /\ Cardinality(1..n) = n
    BY FS_Interval
  <2>2. IsFiniteSet(before) /\ c <= n
    BY <1>2, <2>1, FS_Subset
  <2>3. c \in Nat
    BY <2>2, FS_CardinalityType
  <2> QED BY <2>2, <2>3
<1>4. InsertEntry(map, x) = new
  BY DEF InsertEntry
<1> HIDE DEF c, x
<1>5. /\ new \in Seq(Entries(e)) /\ Len(new) = n + 1
      /\ \A p \in 1..c : new[p] = map[p]
      /\ new[c + 1] = x
      /\ \A p \in (c + 1)..n : new[p + 1] = map[p]
  <2> HIDE DEF before, new
  <2>1. c \in 0..Len(map)
    BY <1>1, <1>3
  <2>2. new = [p \in 1..(n + 1) |->
                 IF p <= c THEN map[p] ELSE IF p = c + 1 THEN x ELSE map[p - 1]]
    BY <1>1, <2>1, InsertedAt DEF new
  <2>3. \A p \in 1..c : new[p] = map[p]
    BY <1>3, <2>2
  <2>4. new[c + 1] = x
    BY <1>3, <2>2
  <2>5. ASSUME NEW p \in (c + 1)..n PROVE new[p + 1] = map[p]
    <3>1. p + 1 \in 1..(n + 1) /\ ~(p + 1 <= c) /\ p + 1 # c + 1 /\ (p + 1) - 1 = p
      BY <1>3
    <3> QED BY <2>2, <3>1
  <2>6. new \in Seq(Entries(e)) /\ Len(new) = n + 1
    <3>1. ASSUME NEW p \in 1..(n + 1) PROVE new[p] \in Entries(e)
      <4>1. (p <= c /\ p \in 1..n) \/ p = c + 1 \/ p - 1 \in 1..n
        BY <1>3
      <4> QED BY <1>1, <1>3, <2>2, <4>1
    <3> QED BY <2>2, <3>1
  <2> QED BY <2>3, <2>4, <2>5, <2>6
<1> HIDE DEF new, before
<1>6. \A p \in 1..n : new[p] = map[p] \/ new[p + 1] = map[p]
  BY <1>3, <1>5
<1>7. ASSUME NEW q \in 1..(n + 1)
      PROVE  \/ q = c + 1
             \/ q \in 1..c /\ q \in 1..n
             \/ q - 1 \in (c + 1)..n /\ q - 1 \in 1..n /\ (q - 1) + 1 = q
  BY <1>3
<1>8. ASSUME NEW i \in 1..(n + 1)
      PROVE  HasKey(e, i) /\ \E p \in 1..(n + 1) : new[p] = EntryOf(e, i)
  <2>1. CASE i = n + 1
    BY <1>3, <1>5, <2>1 DEF x
  <2>2. CASE i \in 1..n
    <3>1. PICK p \in 1..n : map[p] = EntryOf(e, i)
      BY <2>2 DEF Indexed
    <3>2. p \in 1..(n + 1) /\ p + 1 \in 1..(n + 1)
      OBVIOUS
    <3> QED BY <1>6, <2>2, <3>1, <3>2 DEF Indexed
  <2> QED BY <2>1, <2>2
<1>9. ASSUME NEW q \in 1..(n + 1)
      PROVE  \E i \in 1..(n + 1) : new[q] = EntryOf(e, i)
  <2>1. \A p \in 1..n : \E i \in 1..(n + 1) : map[p] = EntryOf(e, i)
    BY DEF Indexed
  <2>2. n + 1 \in 1..(n + 1)
    OBVIOUS
  <2> QED BY <1>5, <1>7, <2>1, <2>2 DEF x
<1>10. ASSUME KeysDiffer(e) PROVE Sorted(new)
  <2> DEFINE k(p) == map[p].key.v
             xv == x.key.v
  <2>1. ASSUME NEW p \in 1..n
        PROVE  /\ k(p) \in Int /\ xv \in Int
               /\ p \in before <=> k(p) <= xv
               /\ k(p) = xv => map[p].side = "lhs" /\ x.side = "rhs"
    <3>1. PICK i \in 1..n : map[p] = EntryOf(e, i)
      BY DEF Indexed
    <3>2. i \in 1..InputCount(e) /\ HasKey(e, i) /\ i \in Nat /\ i < n + 1
      BY IndexedRows
    <3>3. map[p].key = KeyOf(e, i) /\ map[p].side = SideOf(e, i)
          /\ x.key = KeyOf(e, n + 1) /\ x.side = SideOf(e, n + 1)
      BY <3>1 DEF EntryOf, x
    <3>4. ~IsNull(KeyOf(e, i)) /\ ~IsNull(KeyOf(e, n + 1))
      BY <1>10, <3>2 DEF KeysDiffer
    <3>5. /\ k(p) \in Int /\ xv \in Int
          /\ Less(x.key, map[p].key) = Yes <=> xv < k(p)
          /\ k(p) = xv => map[p].key = x.key
      BY <3>2, <3>3, <3>4, KeysHaveOneType
    <3>6. p \in before <=> k(p) <= xv
      <4>1. p \in before <=> ~(xv < k(p))
        BY <1>1, <3>5 DEF before
      <4> QED BY <3>5, <4>1
    <3>7. ASSUME k(p) = xv PROVE map[p].side = "lhs" /\ x.side = "rhs"
      <4>1. KeyOf(e, i) = KeyOf(e, n + 1)
        BY <3>3, <3>5, <3>7
      <4>2. SideOf(e, i) # SideOf(e, n + 1)
        BY <1>10, <3>2, <4>1 DEF KeysDiffer
      <4>3. Len(e.lhs.rows) \in Nat
        BY <3>2, InputPlaces
      <4>4. i <= Len(e.lhs.rows) /\ ~(n + 1 <= Len(e.lhs.rows))
        BY <3>2, <4>2, <4>3 DEF SideOf
      <4> QED BY <3>3, <4>4 DEF SideOf
    <3> QED BY <3>5, <3>6, <3>7
  <2>2. \A p, q \in 1..n : p < q => Precedes(map[p], map[q])
    BY <1>1, <1>10 DEF Indexed, Sorted
  <2>3. \A p, q \in 1..n : p < q => k(p) <= k(q)
    BY <2>1, <2>2 DEF Precedes
  <2>4. \A p, q \in 1..n : p < q /\ q \in before => p \in before
    <3> HIDE DEF k, xv
    <3>1. \A p \in 1..n : k(p) \in Int /\ xv \in Int /\ (p \in before <=> k(p) <= xv)
      BY <2>1
    <3> QED BY <2>3, <3>1
  <2>5. before = 1..c
    BY <1>2, <2>4, Prefix DEF c
  <2>6. \A p \in 1..c : p \in 1..n /\ Precedes(map[p], x)
    BY <1>3, <2>1, <2>5 DEF Precedes
  <2>7. \A p \in (c + 1)..n : p \in 1..n /\ Precedes(x, map[p])
    <3>1. \A p \in (c + 1)..n : p \in 1..n /\ p \notin before
      BY <1>3, <2>5
    <3> QED BY <2>1, <3>1 DEF Precedes
  <2>8. ASSUME NEW p \in 1..(n + 1), NEW q \in 1..(n + 1), p < q
        PROVE  Precedes(new[p], new[q])
    <3>1. CASE q \in 1..c
      <4>1. p \in 1..c /\ p \in 1..n /\ q \in 1..n
        BY <1>3, <2>8, <3>1
      <4> QED BY <1>5, <2>2, <2>8, <3>1, <4>1
    <3>2. CASE q = c + 1
      <4>1. p \in 1..c
        BY <1>3, <2>8, <3>2
      <4> QED BY <1>5, <2>6, <3>2, <4>1
    <3>3. CASE q - 1 \in (c + 1)..n
      <4>1. q - 1 \in 1..n /\ new[q] = map[q - 1]
        BY <1>3, <1>5, <1>7, <3>3
      <4>2. CASE p \in 1..c
        <5>1. p < q - 1 /\ p \in 1..n
          BY <1>3, <3>3, <4>2
        <5> QED BY <1>5, <2>2, <4>1, <4>2, <5>1
      <4>3. CASE p = c + 1
        BY <1>5, <2>7, <3>3, <4>1, <4>3
      <4>4. CASE p - 1 \in (c + 1)..n
        <5>1. p - 1 \in 1..n /\ new[p] = map[p - 1] /\ p - 1 < q - 1
          BY <1>3, <1>5, <1>7, <2>8, <4>4
        <5> QED BY <2>2, <4>1, <5>1
      <4> QED BY <1>7, <4>2, <4>3, <4>4
    <3> QED BY <1>7, <3>1, <3>2, <3>3
  <2>9. DOMAIN new = 1..(n + 1)
    BY <1>5
  <2> QED BY <2>8, <2>9 DEF Sorted
<1>11. n + 1 \in 0..InputCount(e)
  OBVIOUS
<1> QED BY <1>4, <1>5, <1>8, <1>9, <1>10, <1>11 DEF Indexed, x

-----------------------------------------------------------------------------
(***************************************************************************)
(* The walk                                                                *)
(***************************************************************************)
PairAt(map, j) ==
  /\ map[j - 1].side = "lhs" /\ map[j].side = "rhs"
  /\ map[j - 1].key = map[j].key
LoneAt(map, j) == map[j - 1].side = "lhs" /\ ~PairAt(map, j)
PairRow(map, j) == map[j - 1].row \o map[j].row
NullRow(e, map, j) == map[j - 1].row \o [i \in DOMAIN e.rhs.columns |-> Null]

(* What has been found when the iterator is at n *)
Walked(e, map, n, found) ==
  /\ \A j \in 2..Len(map) : j < n /\ PairAt(map, j) =>
       \E k \in DOMAIN found : found[k] = PairRow(map, j)
  /\ e.type = "inner" =>
       /\ \A k \in DOMAIN found : \E j \in 2..Len(map) :
            j < n /\ PairAt(map, j) /\ found[k] = PairRow(map, j)
       /\ \A k, m \in DOMAIN found : k # m => found[k] # found[m]
  /\ e.type = "left" =>
       /\ \A j \in 2..Len(map) : j < n /\ LoneAt(map, j) =>
            \E k \in DOMAIN found : found[k] = NullRow(e, map, j)
       /\ \A k \in DOMAIN found : \E j \in 2..Len(map) :
            /\ j < n
            /\ \/ PairAt(map, j) /\ found[k] = PairRow(map, j)
               \/ LoneAt(map, j) /\ found[k] = NullRow(e, map, j)

\* What stands at a place of the index.
LEMMA EntryAt ==
  ASSUME NEW e \in Joinable, NEW n, NEW map, Indexed(e, map, n), NEW p \in 1..n
  PROVE  \E i \in 1..InputCount(e) :
           /\ HasKey(e, i) /\ i \in 1..n /\ map[p] = EntryOf(e, i)
           /\ map[p].key = KeyOf(e, i) /\ map[p].side = SideOf(e, i)
           /\ map[p].row = RowOf(e, i)
<1>1. PICK i \in 1..n : map[p] = EntryOf(e, i)
  BY DEF Indexed
<1>2. i \in 1..InputCount(e) /\ HasKey(e, i)
  BY IndexedRows
<1> QED BY <1>1, <1>2 DEF EntryOf

\* Equal keys stand side by side, the left one before the right one.
LEMMA Neighbours ==
  ASSUME NEW e \in Joinable, NEW n, NEW map, Indexed(e, map, n), KeysDiffer(e),
         NEW p \in 1..n, NEW q \in 1..n, p # q, map[p].key = map[q].key
  PROVE  \/ q = p + 1 /\ map[p].side = "lhs" /\ map[q].side = "rhs"
         \/ p = q + 1 /\ map[q].side = "lhs" /\ map[p].side = "rhs"
<1>1. n \in Nat /\ DOMAIN map = 1..n
  BY IndexedRows
<1>2. \A i, j \in 1..n : i < j => Precedes(map[i], map[j])
  BY <1>1 DEF Indexed, Sorted
<1>3. \A i \in 1..n : map[i].key.v \in Int
  BY KeysInIndex
<1>4. ASSUME NEW i \in 1..n, NEW j \in 1..n, i < j, map[i].key = map[j].key
      PROVE  j = i + 1 /\ map[i].side = "lhs" /\ map[j].side = "rhs"
  <2> DEFINE v(k) == map[k].key.v
  <2>1. map[i].side = "lhs" /\ map[j].side = "rhs"
    <3>1. v(i) \in Int /\ v(i) = v(j)
      BY <1>3, <1>4
    <3>2. v(i) < v(j) \/ (map[i].side = "lhs" /\ map[j].side = "rhs")
      BY <1>2, <1>4 DEF Precedes
    <3> HIDE DEF v
    <3> QED BY <3>1, <3>2
  <2>2. ASSUME j # i + 1 PROVE FALSE
    <3>1. i + 1 \in 1..n /\ i < i + 1 /\ i + 1 < j
      BY <1>1, <1>4, <2>2
    <3>2. PICK k \in 1..n : k = i + 1
      BY <3>1
    <3>3. Precedes(map[i], map[k]) /\ Precedes(map[k], map[j])
      BY <1>2, <3>1, <3>2
    <3>4. v(i) \in Int /\ v(k) \in Int /\ v(i) = v(j)
      BY <1>3, <1>4
    <3>5. /\ v(i) < v(k) \/ (v(i) = v(k) /\ map[k].side = "rhs")
          /\ v(k) < v(j) \/ (v(k) = v(j) /\ map[k].side = "lhs")
      BY <3>3 DEF Precedes
    <3> HIDE DEF v
    <3> QED BY <3>4, <3>5
  <2> QED BY <2>1, <2>2
<1>5. p \in Int /\ q \in Int
  OBVIOUS
<1>6. p < q \/ q < p
  BY <1>5
<1> QED BY <1>4, <1>6

\* After a pair, the next place has none and its left neighbour is of the right side.
LEMMA PairsDoNotOverlap ==
  ASSUME NEW map, NEW j \in Int, PairAt(map, j)
  PROVE  ~PairAt(map, j + 1) /\ ~LoneAt(map, j + 1)
<1>1. (j + 1) - 1 = j
  OBVIOUS
<1> QED BY <1>1 DEF PairAt, LoneAt

\* SameKey is the question whether this is a pair.
LEMMA SameKeyIsPair ==
  ASSUME NEW e \in Joinable, NEW n, NEW map, Indexed(e, map, n), KeysDiffer(e),
         NEW j \in 2..n
  PROVE  Equal(map[j].key, map[j - 1].key) = Yes <=> PairAt(map, j)
<1>1. n \in Nat /\ j \in 1..n /\ j - 1 \in 1..n /\ j # j - 1 /\ ~(j - 1 = j + 1)
  BY IndexedRows
<1>2. PICK i \in 1..InputCount(e) : HasKey(e, i) /\ map[j].key = KeyOf(e, i)
  BY <1>1, EntryAt
<1>3. PICK k \in 1..InputCount(e) : HasKey(e, k) /\ map[j - 1].key = KeyOf(e, k)
  BY <1>1, EntryAt
<1>4. ~IsNull(KeyOf(e, i)) /\ ~IsNull(KeyOf(e, k))
  BY DEF KeysDiffer
<1>5. Equal(map[j].key, map[j - 1].key) = Yes <=> map[j].key = map[j - 1].key
  BY <1>2, <1>3, <1>4, KeysHaveOneType
<1>6. ASSUME map[j].key = map[j - 1].key
      PROVE  map[j - 1].side = "lhs" /\ map[j].side = "rhs"
  BY <1>1, <1>6, Neighbours
<1> QED BY <1>5, <1>6 DEF PairAt

\* Two pairs have different rows: they differ at the place of the key.
LEMMA PairRowsDiffer ==
  ASSUME NEW e \in Joinable, NEW n, NEW map, Indexed(e, map, n), KeysDiffer(e),
         NEW i \in 2..n, NEW j \in 2..n, i # j, PairAt(map, i), PairAt(map, j)
  PROVE  PairRow(map, i) # PairRow(map, j)
<1> DEFINE k == KeyIndex(e.lhs, e.onLhs)
<1>1. ASSUME NEW m \in 2..n, PairAt(map, m)
      PROVE  /\ map[m - 1].row \in Seq(Values) /\ map[m].row \in Seq(Values)
             /\ k \in 1..Len(map[m - 1].row) /\ map[m - 1].row[k] = map[m - 1].key
  <2>1. n \in Nat /\ m \in 1..n /\ m - 1 \in 1..n
    BY IndexedRows
  <2>2. PICK a \in 1..InputCount(e) :
          /\ HasKey(e, a) /\ map[m - 1].key = KeyOf(e, a)
          /\ map[m - 1].side = SideOf(e, a) /\ map[m - 1].row = RowOf(e, a)
    BY <2>1, EntryAt
  <2>3. PICK b \in 1..InputCount(e) : map[m].row = RowOf(e, b)
    BY <2>1, EntryAt
  <2>4. RowOf(e, a) \in Seq(Values) /\ RowOf(e, b) \in Seq(Values)
        /\ KeyColumn(e, a) \in Nat \ {0}
    BY InputFacts
  <2>5. a <= Len(e.lhs.rows)
    BY <1>1, <2>2 DEF PairAt, SideOf
  <2>6. KeyColumn(e, a) = k
    BY <2>5 DEF KeyColumn
  <2>7. Len(RowOf(e, a)) \in Nat /\ k <= Len(RowOf(e, a))
    BY <2>2, <2>4, <2>6 DEF HasKey
  <2> HIDE DEF k
  <2>8. k \in 1..Len(RowOf(e, a))
    BY <2>4, <2>6, <2>7
  <2> QED BY <2>2, <2>3, <2>4, <2>6, <2>8 DEF KeyOf
<1>2. map[i - 1].key # map[j - 1].key
  <2>1. n \in Nat /\ i - 1 \in 1..n /\ j - 1 \in 1..n /\ i - 1 # j - 1
    BY IndexedRows
  <2>2. map[i - 1].side = "lhs" /\ map[j - 1].side = "lhs"
    BY DEF PairAt
  <2> QED BY <2>1, <2>2, Neighbours
<1> HIDE DEF k
<1>3. \A m \in {i, j} : PairRow(map, m)[k] = map[m - 1].key
  <2> SUFFICES ASSUME NEW m \in {i, j} PROVE PairRow(map, m)[k] = map[m - 1].key
    OBVIOUS
  <2> DEFINE l == map[m - 1].row
             r == map[m].row
  <2>1. l \in Seq(Values) /\ r \in Seq(Values) /\ k \in 1..Len(l) /\ l[k] = map[m - 1].key
    BY <1>1
  <2> HIDE DEF l, r
  <2>2. (l \o r)[k] = l[k]
    BY <2>1
  <2> QED BY <2>1, <2>2 DEF PairRow, l, r
<1> QED BY <1>2, <1>3

\* What Append does, told by places.
LEMMA Appended ==
  ASSUME NEW S, NEW seq \in Seq(S), NEW elt
  PROVE  LET longer == Append(seq, elt) IN
         /\ Len(seq) \in Nat
         /\ DOMAIN seq \subseteq DOMAIN longer
         /\ \A k \in DOMAIN longer : k \in DOMAIN seq \/ k = Len(seq) + 1
         /\ Len(seq) + 1 \in DOMAIN longer /\ Len(seq) + 1 \notin DOMAIN seq
         /\ longer[Len(seq) + 1] = elt
         /\ \A k \in DOMAIN seq : longer[k] = seq[k]
<1> DEFINE L == Len(seq)
           longer == Append(seq, elt)
<1>1. L \in Nat /\ DOMAIN seq = 1..L
  OBVIOUS
<1>2. /\ DOMAIN longer = 1..Len(longer) /\ Len(longer) = L + 1 /\ longer[L + 1] = elt
      /\ \A k \in 1..L : longer[k] = seq[k]
  OBVIOUS
<1> HIDE DEF L, longer
<1>3. /\ DOMAIN longer = 1..(L + 1) /\ longer[L + 1] = elt
      /\ \A k \in 1..L : longer[k] = seq[k]
  BY <1>1, <1>2
<1>4. /\ 1..L \subseteq 1..(L + 1) /\ L + 1 \in 1..(L + 1) /\ L + 1 \notin 1..L
      /\ \A k \in 1..(L + 1) : k \in 1..L \/ k = L + 1
  BY <1>1
<1> QED BY <1>1, <1>3, <1>4 DEF L, longer

LEMMA WalkBegins ==
  ASSUME NEW e, NEW map, Len(map) \in Nat
  PROVE  Walked(e, map, 2, <<>>)
<1>1. \A j \in 2..Len(map) : ~(j < 2)
  OBVIOUS
<1>2. DOMAIN <<>> = {}
  OBVIOUS
<1> QED BY <1>1, <1>2 DEF Walked

LEMMA WalkPassesBy ==
  ASSUME NEW e, NEW map, NEW n \in Nat, NEW found, Len(map) \in Nat,
         Walked(e, map, n, found), ~PairAt(map, n), e.type = "left" => ~LoneAt(map, n)
  PROVE  Walked(e, map, n + 1, found)
<1>1. \A j \in 2..Len(map) : (j < n + 1 => j < n \/ j = n) /\ (j < n => j < n + 1)
  OBVIOUS
<1> QED BY <1>1 DEF Walked

LEMMA WalkTakesPair ==
  ASSUME NEW e \in Joinable, NEW map, Indexed(e, map, InputCount(e)), KeysDiffer(e),
         NEW n \in 2..Len(map), NEW S, NEW found \in Seq(S),
         Walked(e, map, n, found), PairAt(map, n)
  PROVE  Walked(e, map, n + 2, Append(found, PairRow(map, n)))
<1> DEFINE longer == Append(found, PairRow(map, n))
           last == Len(found) + 1
<1>1. /\ DOMAIN found \subseteq DOMAIN longer
      /\ \A k \in DOMAIN longer : k \in DOMAIN found \/ k = last
      /\ last \in DOMAIN longer /\ last \notin DOMAIN found
      /\ longer[last] = PairRow(map, n)
      /\ \A k \in DOMAIN found : longer[k] = found[k]
  BY Appended
<1> HIDE DEF longer, last
<1>2. Len(map) \in Nat /\ n \in Int /\ InputCount(e) = Len(map)
  BY IndexedRows
<1>3. ~PairAt(map, n + 1) /\ ~LoneAt(map, n + 1) /\ ~LoneAt(map, n)
  BY <1>2, PairsDoNotOverlap DEF LoneAt
<1>4. ASSUME NEW j \in 2..Len(map)
      PROVE  /\ j < n + 2 => j < n \/ j = n \/ j = n + 1
             /\ j < n \/ j = n => j < n + 2
  BY <1>2
<1>5. \A j \in 2..Len(map) : j < n /\ PairAt(map, j) => PairRow(map, j) # PairRow(map, n)
  BY <1>2, PairRowsDiffer
<1>6. ASSUME NEW j \in 2..Len(map), j < n + 2, PairAt(map, j)
      PROVE  \E k \in DOMAIN longer : longer[k] = PairRow(map, j)
  <2>1. j < n \/ j = n
    BY <1>3, <1>4, <1>6
  <2> QED BY <1>1, <1>6, <2>1 DEF Walked
<1>7. ASSUME e.type = "inner"
      PROVE  /\ \A k \in DOMAIN longer : \E j \in 2..Len(map) :
                  j < n + 2 /\ PairAt(map, j) /\ longer[k] = PairRow(map, j)
             /\ \A k, m \in DOMAIN longer : k # m => longer[k] # longer[m]
  <2>1. \A k \in DOMAIN found : \E j \in 2..Len(map) :
          j < n /\ PairAt(map, j) /\ found[k] = PairRow(map, j)
    BY <1>7 DEF Walked
  <2>2. \A k \in DOMAIN found : found[k] # PairRow(map, n)
    BY <1>5, <2>1
  <2>3. \A k, m \in DOMAIN found : k # m => found[k] # found[m]
    BY <1>7 DEF Walked
  <2>4. \A k, m \in DOMAIN longer : k # m => longer[k] # longer[m]
    BY <1>1, <2>2, <2>3
  <2>5. n < n + 2
    BY <1>2
  <2> QED BY <1>1, <1>4, <2>1, <2>4, <2>5
<1>8. ASSUME e.type = "left"
      PROVE  /\ \A j \in 2..Len(map) : j < n + 2 /\ LoneAt(map, j) =>
                  \E k \in DOMAIN longer : longer[k] = NullRow(e, map, j)
             /\ \A k \in DOMAIN longer : \E j \in 2..Len(map) :
                  /\ j < n + 2
                  /\ \/ PairAt(map, j) /\ longer[k] = PairRow(map, j)
                     \/ LoneAt(map, j) /\ longer[k] = NullRow(e, map, j)
  <2>1. ASSUME NEW j \in 2..Len(map), j < n + 2, LoneAt(map, j)
        PROVE  \E k \in DOMAIN longer : longer[k] = NullRow(e, map, j)
    <3>1. j < n
      BY <1>3, <1>4, <2>1
    <3>2. \E k \in DOMAIN found : found[k] = NullRow(e, map, j)
      BY <1>8, <2>1, <3>1 DEF Walked
    <3> QED BY <1>1, <3>2
  <2>2. ASSUME NEW k \in DOMAIN longer
        PROVE  \E j \in 2..Len(map) :
                 /\ j < n + 2
                 /\ \/ PairAt(map, j) /\ longer[k] = PairRow(map, j)
                    \/ LoneAt(map, j) /\ longer[k] = NullRow(e, map, j)
    <3>1. CASE k = last
      <4>1. n < n + 2
        BY <1>2
      <4> QED BY <1>1, <3>1, <4>1
    <3>2. CASE k \in DOMAIN found
      <4>1. longer[k] = found[k]
        BY <1>1, <3>2
      <4>2. PICK j \in 2..Len(map) :
              /\ j < n
              /\ \/ PairAt(map, j) /\ found[k] = PairRow(map, j)
                 \/ LoneAt(map, j) /\ found[k] = NullRow(e, map, j)
        BY <1>8, <3>2 DEF Walked
      <4>3. j < n + 2
        BY <1>4, <4>2
      <4> QED BY <4>1, <4>2, <4>3
    <3> QED BY <1>1, <3>1, <3>2
  <2> QED BY <2>1, <2>2
<1> QED BY <1>6, <1>7, <1>8 DEF Walked, longer

LEMMA WalkTakesLoneRow ==
  ASSUME NEW e, NEW map, Len(map) \in Nat, NEW n \in 2..Len(map), NEW S, NEW found \in Seq(S),
         Walked(e, map, n, found), ~PairAt(map, n), NEW row, e.type # "inner",
         e.type = "left" => LoneAt(map, n) /\ row = NullRow(e, map, n)
  PROVE  Walked(e, map, n + 1, Append(found, row))
<1> DEFINE longer == Append(found, row)
           last == Len(found) + 1
<1>1. /\ DOMAIN found \subseteq DOMAIN longer
      /\ \A k \in DOMAIN longer : k \in DOMAIN found \/ k = last
      /\ last \in DOMAIN longer
      /\ longer[last] = row
      /\ \A k \in DOMAIN found : longer[k] = found[k]
  BY Appended
<1> HIDE DEF longer, last
<1>2. ASSUME NEW j \in 2..Len(map)
      PROVE  /\ j < n + 1 => j < n \/ j = n
             /\ j < n \/ j = n => j < n + 1
  OBVIOUS
<1>3. ASSUME NEW j \in 2..Len(map), j < n + 1, PairAt(map, j)
      PROVE  \E k \in DOMAIN longer : longer[k] = PairRow(map, j)
  <2>1. j < n
    BY <1>2, <1>3
  <2>2. \E k \in DOMAIN found : found[k] = PairRow(map, j)
    BY <1>3, <2>1 DEF Walked
  <2> QED BY <1>1, <2>2
<1>4. ASSUME e.type = "left"
      PROVE  /\ \A j \in 2..Len(map) : j < n + 1 /\ LoneAt(map, j) =>
                  \E k \in DOMAIN longer : longer[k] = NullRow(e, map, j)
             /\ \A k \in DOMAIN longer : \E j \in 2..Len(map) :
                  /\ j < n + 1
                  /\ \/ PairAt(map, j) /\ longer[k] = PairRow(map, j)
                     \/ LoneAt(map, j) /\ longer[k] = NullRow(e, map, j)
  <2>1. ASSUME NEW j \in 2..Len(map), j < n + 1, LoneAt(map, j)
        PROVE  \E k \in DOMAIN longer : longer[k] = NullRow(e, map, j)
    <3>1. CASE j < n
      <4>1. \E k \in DOMAIN found : found[k] = NullRow(e, map, j)
        BY <1>4, <2>1, <3>1 DEF Walked
      <4> QED BY <1>1, <4>1
    <3>2. CASE j = n
      BY <1>1, <1>4, <3>2
    <3> QED BY <1>2, <2>1, <3>1, <3>2
  <2>2. ASSUME NEW k \in DOMAIN longer
        PROVE  \E j \in 2..Len(map) :
                 /\ j < n + 1
                 /\ \/ PairAt(map, j) /\ longer[k] = PairRow(map, j)
                    \/ LoneAt(map, j) /\ longer[k] = NullRow(e, map, j)
    <3>1. CASE k = last
      BY <1>1, <1>2, <1>4, <3>1
    <3>2. CASE k \in DOMAIN found
      <4>1. longer[k] = found[k]
        BY <1>1, <3>2
      <4>2. PICK j \in 2..Len(map) :
              /\ j < n
              /\ \/ PairAt(map, j) /\ found[k] = PairRow(map, j)
                 \/ LoneAt(map, j) /\ found[k] = NullRow(e, map, j)
        BY <1>4, <3>2 DEF Walked
      <4> QED BY <1>2, <4>1, <4>2
    <3> QED BY <1>1, <3>1, <3>2
  <2> QED BY <2>1, <2>2
<1> QED BY <1>3, <1>4 DEF Walked, longer

-----------------------------------------------------------------------------
(***************************************************************************)
(* What the index holds of each side                                       *)
(***************************************************************************)
LKey(e, row) == row[KeyIndex(e.lhs, e.onLhs)]
RKey(e, row) == row[KeyIndex(e.rhs, e.onRhs)]

LEMMA RowsAreInputs ==
  ASSUME NEW e \in Joinable
  PROVE  /\ e.lhs.rows \in Seq(Seq(Values)) /\ e.rhs.rows \in Seq(Seq(Values))
         /\ \A i \in DOMAIN e.lhs.rows :
              /\ i \in 1..InputCount(e) /\ SideOf(e, i) = "lhs" /\ RowOf(e, i) = e.lhs.rows[i]
              /\ KeyOf(e, i) = LKey(e, e.lhs.rows[i])
         /\ \A j \in DOMAIN e.rhs.rows : \E i \in 1..InputCount(e) :
              /\ i = Len(e.lhs.rows) + j /\ SideOf(e, i) = "rhs" /\ RowOf(e, i) = e.rhs.rows[j]
              /\ KeyOf(e, i) = RKey(e, e.rhs.rows[j])
         /\ \A i \in 1..InputCount(e) :
              /\ SideOf(e, i) = "lhs" => i \in DOMAIN e.lhs.rows
              /\ SideOf(e, i) = "rhs" =>
                   \E j \in DOMAIN e.rhs.rows : i = Len(e.lhs.rows) + j
<1> DEFINE L == Len(e.lhs.rows)
           R == Len(e.rhs.rows)
<1>1. e.lhs.rows \in Seq(Seq(Values)) /\ e.rhs.rows \in Seq(Seq(Values))
  BY DEF Joinable, TableExpressions, Relations
<1>2. L \in Nat /\ R \in Nat /\ DOMAIN e.lhs.rows = 1..L /\ DOMAIN e.rhs.rows = 1..R
      /\ InputCount(e) = L + R
  BY <1>1 DEF InputCount
<1>3. \A i : /\ SideOf(e, i) = IF i <= L THEN "lhs" ELSE "rhs"
             /\ RowOf(e, i) = IF i <= L THEN e.lhs.rows[i] ELSE e.rhs.rows[i - L]
             /\ KeyOf(e, i) = IF i <= L THEN LKey(e, RowOf(e, i)) ELSE RKey(e, RowOf(e, i))
  BY DEF SideOf, RowOf, KeyOf, KeyColumn, LKey, RKey
<1> HIDE DEF L, R
<1>4. ASSUME NEW i \in 1..L PROVE i \in 1..(L + R) /\ i <= L
  BY <1>2
<1>5. ASSUME NEW j \in 1..R
      PROVE  L + j \in 1..(L + R) /\ ~(L + j <= L) /\ (L + j) - L = j
  BY <1>2
<1>6. ASSUME NEW i \in 1..(L + R)
      PROVE  IF i <= L THEN i \in 1..L ELSE i - L \in 1..R /\ i = L + (i - L)
  BY <1>2
<1>7. \A i \in 1..L : /\ SideOf(e, i) = "lhs" /\ RowOf(e, i) = e.lhs.rows[i]
                      /\ KeyOf(e, i) = LKey(e, e.lhs.rows[i])
  BY <1>3, <1>4
<1>8. \A j \in 1..R : /\ SideOf(e, L + j) = "rhs" /\ RowOf(e, L + j) = e.rhs.rows[j]
                      /\ KeyOf(e, L + j) = RKey(e, e.rhs.rows[j])
  BY <1>3, <1>5
<1>9. \A i \in 1..(L + R) : /\ SideOf(e, i) = "lhs" => i \in 1..L
                            /\ SideOf(e, i) = "rhs" => \E j \in 1..R : i = L + j
  BY <1>3, <1>6
<1>10. \A j \in 1..R : \E i \in 1..(L + R) :
              /\ i = L + j /\ SideOf(e, i) = "rhs" /\ RowOf(e, i) = e.rhs.rows[j]
              /\ KeyOf(e, i) = RKey(e, e.rhs.rows[j])
  BY <1>5, <1>8
<1> QED BY <1>1, <1>2, <1>4, <1>7, <1>9, <1>10 DEF L, R

LEMMA SidesOfIndex ==
  ASSUME NEW e \in Joinable, NEW map, Indexed(e, map, InputCount(e)), NEW p \in 1..Len(map)
  PROVE  /\ map[p].side = "lhs" => \E i \in DOMAIN e.lhs.rows :
              map[p].row = e.lhs.rows[i] /\ map[p].key = LKey(e, e.lhs.rows[i])
         /\ map[p].side = "rhs" => \E j \in DOMAIN e.rhs.rows :
              map[p].row = e.rhs.rows[j] /\ map[p].key = RKey(e, e.rhs.rows[j])
<1>1. Len(map) = InputCount(e)
  BY IndexedRows
<1>2. PICK i \in 1..InputCount(e) :
        /\ map[p].key = KeyOf(e, i) /\ map[p].side = SideOf(e, i) /\ map[p].row = RowOf(e, i)
  BY <1>1, EntryAt
<1>3. CASE SideOf(e, i) = "lhs"
  BY <1>2, <1>3, RowsAreInputs
<1>4. CASE SideOf(e, i) = "rhs"
  <2>1. PICK j \in DOMAIN e.rhs.rows : i = Len(e.lhs.rows) + j
    BY <1>4, RowsAreInputs
  <2>2. RowOf(e, i) = e.rhs.rows[j] /\ KeyOf(e, i) = RKey(e, e.rhs.rows[j])
    BY <2>1, RowsAreInputs
  <2> QED BY <1>2, <1>4, <2>2
<1> QED BY <1>2, <1>3, <1>4

LEMMA RowsOfIndex ==
  ASSUME NEW e \in Joinable, NEW map, Indexed(e, map, InputCount(e))
  PROVE  /\ \A i \in DOMAIN e.lhs.rows : \E p \in 1..Len(map) :
              /\ map[p].side = "lhs" /\ map[p].row = e.lhs.rows[i]
              /\ map[p].key = LKey(e, e.lhs.rows[i])
         /\ \A j \in DOMAIN e.rhs.rows : \E p \in 1..Len(map) :
              /\ map[p].side = "rhs" /\ map[p].row = e.rhs.rows[j]
              /\ map[p].key = RKey(e, e.rhs.rows[j])
<1>1. Len(map) = InputCount(e)
  BY IndexedRows
<1>2. \A i \in 1..InputCount(e) : \E p \in 1..Len(map) : map[p] = EntryOf(e, i)
  BY <1>1 DEF Indexed
<1>3. ASSUME NEW i \in 1..InputCount(e)
      PROVE  \E p \in 1..Len(map) :
               map[p].key = KeyOf(e, i) /\ map[p].side = SideOf(e, i) /\ map[p].row = RowOf(e, i)
  <2>1. PICK p \in 1..Len(map) : map[p] = EntryOf(e, i)
    BY <1>2
  <2>2. map[p].key = KeyOf(e, i) /\ map[p].side = SideOf(e, i) /\ map[p].row = RowOf(e, i)
    BY <2>1 DEF EntryOf
  <2> QED BY <2>2
<1>4. ASSUME NEW i \in DOMAIN e.lhs.rows
      PROVE  \E p \in 1..Len(map) :
              /\ map[p].side = "lhs" /\ map[p].row = e.lhs.rows[i]
              /\ map[p].key = LKey(e, e.lhs.rows[i])
  <2>1. /\ i \in 1..InputCount(e) /\ SideOf(e, i) = "lhs" /\ RowOf(e, i) = e.lhs.rows[i]
        /\ KeyOf(e, i) = LKey(e, e.lhs.rows[i])
    BY RowsAreInputs
  <2>2. PICK p \in 1..Len(map) :
          map[p].key = KeyOf(e, i) /\ map[p].side = SideOf(e, i) /\ map[p].row = RowOf(e, i)
    BY <1>3, <2>1
  <2> QED BY <2>1, <2>2
<1>5. ASSUME NEW j \in DOMAIN e.rhs.rows
      PROVE  \E p \in 1..Len(map) :
              /\ map[p].side = "rhs" /\ map[p].row = e.rhs.rows[j]
              /\ map[p].key = RKey(e, e.rhs.rows[j])
  <2>1. PICK i \in 1..InputCount(e) :
          /\ i = Len(e.lhs.rows) + j /\ SideOf(e, i) = "rhs" /\ RowOf(e, i) = e.rhs.rows[j]
          /\ KeyOf(e, i) = RKey(e, e.rhs.rows[j])
    BY RowsAreInputs
  <2>2. PICK p \in 1..Len(map) :
          map[p].key = KeyOf(e, i) /\ map[p].side = SideOf(e, i) /\ map[p].row = RowOf(e, i)
    BY <1>3, <2>1
  <2> QED BY <2>1, <2>2
<1> QED BY <1>4, <1>5

\* A row of the left side and one of the right side with its key are a pair.
LEMMA PairHasPlace ==
  ASSUME NEW e \in Joinable, NEW map, Indexed(e, map, InputCount(e)), KeysDiffer(e),
         NEW p \in 1..Len(map), map[p].side = "lhs",
         NEW j \in DOMAIN e.rhs.rows, map[p].key = RKey(e, e.rhs.rows[j])
  PROVE  p + 1 \in 2..Len(map) /\ PairAt(map, p + 1) /\ map[p + 1].row = e.rhs.rows[j]
<1>1. PICK q \in 1..Len(map) : /\ map[q].side = "rhs" /\ map[q].row = e.rhs.rows[j]
                               /\ map[q].key = RKey(e, e.rhs.rows[j])
  BY RowsOfIndex
<1>2. Len(map) = InputCount(e) /\ Len(map) \in Nat
  BY IndexedRows
<1>3. q = p + 1
  BY <1>1, <1>2, Neighbours
<1>4. p + 1 \in 2..Len(map) /\ (p + 1) - 1 = p
  BY <1>2, <1>3
<1> QED BY <1>1, <1>3, <1>4 DEF PairAt

\* A row of one side has one place in the index.
LEMMA RowHasOnePlace ==
  ASSUME NEW e \in Joinable, NEW map, Indexed(e, map, InputCount(e)), KeysDiffer(e),
         NEW p \in 1..Len(map), NEW q \in 1..Len(map),
         map[p].side = "lhs", map[q].side = "lhs", map[p].row = map[q].row
  PROVE  p = q
<1>1. map[p].key = map[q].key
  BY SidesOfIndex
<1>2. Len(map) = InputCount(e)
  BY IndexedRows
<1> QED BY <1>1, <1>2, Neighbours

-----------------------------------------------------------------------------
(***************************************************************************)
(* The invariant of JoinNext                                               *)
(***************************************************************************)
JoinInv ==
  /\ from \in Joinable
  /\ joining \in {"index", "merge", "done", "error", "undefined"}
  /\ relation \in Relations
  /\ ~IsJoin => contents = <<>>
  /\ joining = "index" /\ IsJoin => Indexed(from, contents, it)
  /\ joining \in {"merge", "done"} /\ IsJoin =>
       /\ Indexed(from, contents, InputCount(from))
       /\ it \in Nat \ {0, 1}
       /\ KeysDiffer(from) => Walked(from, contents, it, relation.rows)
       /\ joining = "done" => it > Len(contents)

\* What FlattenSeq makes of lists is a list.
LEMMA Flattened ==
  ASSUME NEW S, NEW n \in Nat, NEW seqs \in [1..n -> Seq(S)]
  PROVE  FlattenSeq(seqs) \in Seq(S)
<1>1. seqs \in Seq(Seq(S)) /\ Len(seqs) = n
  OBVIOUS
<1>2. CASE n = 0
  <2>1. seqs = <<>>
    BY <1>1, <1>2
  <2>2. FlattenSeq(seqs) = seqs
    BY <1>1, <1>2 DEF FlattenSeq
  <2>3. <<>> \in Seq(S)
    OBVIOUS
  <2> QED BY <2>1, <2>2, <2>3
<1>3. CASE n > 0
  <2> DEFINE Is(f) == f = [i \in 1..n |-> IF i = 1 THEN seqs[i] ELSE f[i - 1] \o seqs[i]]
             step == [p \in Nat \X Seq(S) |->
                        <<p[1] + 1, IF p[1] \in 1..n THEN p[2] \o seqs[p[1]] ELSE p[2]>>]
             flatten == CHOOSE f : Is(f)
  <2>1. FlattenSeq(seqs) = flatten[n]
    BY <1>1, <1>3 DEF FlattenSeq
  <2>2. \E f : Is(f)
    <3>1. step \in [Nat \X Seq(S) -> Nat \X Seq(S)] /\ <<1, <<>>>> \in Nat \X Seq(S)
      <4>1. ASSUME NEW p \in Nat \X Seq(S)
            PROVE  <<p[1] + 1, IF p[1] \in 1..n THEN p[2] \o seqs[p[1]] ELSE p[2]>> \in Nat \X Seq(S)
        <5>1. p[1] \in Nat /\ p[2] \in Seq(S)
          OBVIOUS
        <5>2. p[1] \in 1..n => seqs[p[1]] \in Seq(S)
          OBVIOUS
        <5>3. p[1] \in 1..n => p[2] \o seqs[p[1]] \in Seq(S)
          BY <5>1, <5>2
        <5> DEFINE next == IF p[1] \in 1..n THEN p[2] \o seqs[p[1]] ELSE p[2]
        <5>4. next \in Seq(S)
          BY <5>1, <5>3
        <5>5. p[1] + 1 \in Nat
          BY <5>1
        <5> HIDE DEF next
        <5>6. <<p[1] + 1, next>> \in Nat \X Seq(S)
          BY <5>4, <5>5
        <5> QED BY <5>6 DEF next
      <4>2. <<>> \in Seq(S)
        OBVIOUS
      <4> QED BY <4>1, <4>2
    <3>2. PICK g \in [0..n -> Nat \X Seq(S)] : Iterates(g, step, <<1, <<>>>>, n)
      BY <3>1, Iteration
    <3>3. g[0] = <<1, <<>>>> /\ \A m \in 1..n : g[m] = step[g[m - 1]]
      BY <3>2 DEF Iterates
    <3> DEFINE K == {m \in 0..n : g[m][1] = m + 1}
    <3>4. 0..n \subseteq K
      <4>1. 0 \in K
        BY <3>3
      <4>2. ASSUME NEW m \in 0..n, m \in K, m + 1 <= n PROVE m + 1 \in K
        <5>1. m + 1 \in 1..n /\ (m + 1) - 1 = m /\ m + 1 \in 0..n
          BY <4>2
        <5>2. g[m + 1] = step[g[m]] /\ g[m] \in Nat \X Seq(S)
          BY <3>3, <5>1
        <5>3. g[m + 1][1] = g[m][1] + 1
          BY <5>2
        <5> QED BY <4>2, <5>1, <5>3
      <4> HIDE DEF K
      <4> QED BY <4>1, <4>2, BoundedInduction
    <3> DEFINE f == [i \in 1..n |-> g[i][2]]
    <3>5. ASSUME NEW i \in 1..n
          PROVE  g[i][2] = IF i = 1 THEN seqs[i] ELSE g[i - 1][2] \o seqs[i]
      <4>1. i - 1 \in 0..n /\ (i - 1) + 1 = i
        OBVIOUS
      <4>2. g[i - 1][1] = i /\ g[i - 1] \in Nat \X Seq(S)
        BY <3>4, <4>1
      <4>3. g[i] = step[g[i - 1]]
        BY <3>3
      <4>4. g[i][2] = g[i - 1][2] \o seqs[i]
        <5> DEFINE q == g[i - 1]
        <5>1. q \in Nat \X Seq(S) /\ q[1] = i
          BY <4>2
        <5> HIDE DEF q
        <5>2. step[q] = <<q[1] + 1, IF q[1] \in 1..n THEN q[2] \o seqs[q[1]] ELSE q[2]>>
          BY <5>1
        <5>3. step[q][2] = q[2] \o seqs[i]
          BY <5>1, <5>2
        <5> QED BY <4>3, <5>3 DEF q
      <4>5. CASE i = 1
        <5>1. i - 1 = 0 /\ g[0][2] = <<>>
          BY <3>3, <4>5
        <5>2. seqs[i] \in Seq(S)
          OBVIOUS
        <5>3. <<>> \o seqs[i] = seqs[i]
          BY <5>2
        <5> QED BY <4>4, <4>5, <5>1, <5>3
      <4> QED BY <4>4, <4>5
    <3>6. Is(f)
      BY <3>5
    <3> QED BY <3>6
  <2>3. Is(flatten)
    BY <2>2
  <2> HIDE DEF flatten
  <2>4. \A i \in 1..n : flatten[i] = IF i = 1 THEN seqs[i] ELSE flatten[i - 1] \o seqs[i]
    BY <2>3
  <2> DEFINE K == {m \in 0..n : m = 0 \/ flatten[m] \in Seq(S)}
  <2>5. 0..n \subseteq K
    <3>1. 0 \in K
      BY <1>3
    <3>2. ASSUME NEW m \in 0..n, m \in K, m + 1 <= n PROVE m + 1 \in K
      <4>1. m + 1 \in 1..n /\ (m + 1) - 1 = m /\ m + 1 \in 0..n
        BY <3>2
      <4>2. flatten[m + 1] = IF m = 0 THEN seqs[m + 1] ELSE flatten[m] \o seqs[m + 1]
        BY <2>4, <4>1
      <4>3. seqs[m + 1] \in Seq(S)
        BY <4>1
      <4>4. m # 0 => flatten[m] \in Seq(S)
        BY <3>2
      <4>5. m # 0 => flatten[m] \o seqs[m + 1] \in Seq(S)
        BY <4>3, <4>4
      <4> QED BY <4>1, <4>2, <4>3, <4>5
    <3> HIDE DEF K
    <3> QED BY <3>1, <3>2, BoundedInduction
  <2> QED BY <1>3, <2>1, <2>5
<1> QED BY <1>2, <1>3

LEMMA ColumnsOfBoth ==
  ASSUME from \in Joinable
  PROVE  BothColumns \in Seq(STRING)
BY DEF BothColumns, Joinable, TableExpressions, Relations

LEMMA CrossedRows ==
  ASSUME from \in Joinable, CrossJoin
  PROVE  relation' \in Relations
<1>1. /\ from.lhs.rows \in Seq(Seq(Values)) /\ from.rhs.rows \in Seq(Seq(Values))
  BY DEF Joinable, TableExpressions, Relations
<1> DEFINE row(l) == [r \in DOMAIN from.rhs.rows |-> from.lhs.rows[l] \o from.rhs.rows[r]]
           crossed == [l \in DOMAIN from.lhs.rows |-> row(l)]
<1>2. ASSUME NEW l \in DOMAIN from.lhs.rows PROVE row(l) \in Seq(Seq(Values))
  <2>1. from.lhs.rows[l] \in Seq(Values)
    BY <1>1
  <2>2. \A r \in DOMAIN from.rhs.rows : from.lhs.rows[l] \o from.rhs.rows[r] \in Seq(Values)
    BY <1>1, <2>1
  <2>3. PICK n \in Nat : DOMAIN from.rhs.rows = 1..n
    BY <1>1
  <2> QED BY <2>2, <2>3
<1>3. PICK n \in Nat : DOMAIN from.lhs.rows = 1..n
  BY <1>1
<1> HIDE DEF row
<1>4. crossed \in [1..n -> Seq(Seq(Values))]
  BY <1>2, <1>3
<1>5. FlattenSeq(crossed) \in Seq(Seq(Values))
  <2> HIDE DEF crossed
  <2> QED BY <1>4, Flattened
<1>6. relation' = [columns |-> BothColumns, rows |-> FlattenSeq(crossed)]
  BY DEF CrossJoin, row
<1> QED BY <1>5, <1>6, ColumnsOfBoth DEF Relations

LEMMA JoinInitial ==
  ASSUME NEW e \in Joinable, JoinInit(e)
  PROVE  JoinInv
<1>1. /\ from = e /\ contents = <<>> /\ it = 0 /\ joining = "index"
      /\ relation = [columns |-> <<>>, rows |-> <<>>]
  BY DEF JoinInit
<1>0. relation \in Relations
  BY <1>1 DEF Relations
<1>2. Indexed(from, contents, it)
  <2>1. InputCount(e) \in Nat
    BY InputCountType
  <2>2. 0 \in 0..InputCount(e) /\ 1..0 = {}
    BY <2>1
  <2>3. <<>> \in Seq(Entries(e)) /\ Len(<<>>) = 0 /\ DOMAIN <<>> = {}
    OBVIOUS
  <2> QED BY <1>1, <2>2, <2>3 DEF Indexed, Sorted
<1> QED BY <1>0, <1>1, <1>2 DEF JoinInv

LEMMA OfTheRight ==
  ASSUME NEW e, NEW i, ~(i <= Len(e.lhs.rows))
  PROVE  /\ SideOf(e, i) = "rhs" /\ RowOf(e, i) = e.rhs.rows[i - Len(e.lhs.rows)]
         /\ KeyColumn(e, i) = KeyIndex(e.rhs, e.onRhs)
BY DEF SideOf, RowOf, KeyColumn

LEMMA IndexStep ==
  ASSUME JoinInv, AddColumns
  PROVE  JoinInv'
<1> DEFINE L == Len(from.lhs.rows)
<1>1. /\ from \in Joinable /\ IsJoin /\ joining = "index" /\ Indexed(from, contents, it)
      /\ from' = from /\ relation' = relation
  BY DEF JoinInv, AddColumns, AddRow
<1> DEFINE R == Len(from.rhs.rows)
<1>2. it \in Nat /\ InputCount(from) = L + R /\ L \in Nat /\ R \in Nat
  <2>1. from.lhs.rows \in Seq(Seq(Values)) /\ from.rhs.rows \in Seq(Seq(Values))
    BY <1>1, RowsAreInputs
  <2>2. L \in Nat /\ R \in Nat
    BY <2>1
  <2>3. it \in Nat
    BY <1>1, IndexedRows
  <2> QED BY <2>2, <2>3 DEF InputCount
<1>a. it < L => it + 1 <= L /\ it + 1 \in 1..InputCount(from)
  <2> HIDE DEF L, R
  <2> QED BY <1>2
<1>b. it >= L /\ it < L + R => ~(it + 1 <= L) /\ it + 1 \in 1..InputCount(from)
  <2> HIDE DEF L, R
  <2> QED BY <1>2
<1>c. it + 1 - L = (it + 1) - L
  <2> HIDE DEF L
  <2> QED BY <1>2
<1>3. IsJoin'
  BY <1>1 DEF IsJoin
<1>4. CASE joining' = "error"
  BY <1>1, <1>3, <1>4 DEF JoinInv
<1>5. CASE joining' # "error"
  <2> DEFINE new == InsertEntry(contents, EntryOf(from, it + 1))
  <2>1. /\ it + 1 \in 1..InputCount(from) /\ HasKey(from, it + 1)
        /\ contents' = new /\ it' = it + 1 /\ joining' = joining
    <3>1. CASE /\ it < L
               /\ AddRow("lhs", from.lhs, from.onLhs, from.lhs.rows[it + 1])
      <4>1. it + 1 <= L /\ it + 1 \in 1..InputCount(from)
        BY <1>a, <3>1
      <4>2. /\ SideOf(from, it + 1) = "lhs" /\ RowOf(from, it + 1) = from.lhs.rows[it + 1]
            /\ KeyColumn(from, it + 1) = KeyIndex(from.lhs, from.onLhs)
        BY <4>1 DEF SideOf, RowOf, KeyColumn
      <4>3. ~(KeyIndex(from.lhs, from.onLhs) > Len(from.lhs.rows[it + 1]))
        BY <1>5, <3>1 DEF AddRow
      <4>4. KeyColumn(from, it + 1) \in Nat /\ Len(RowOf(from, it + 1)) \in Nat
        BY <1>1, <4>1, InputFacts
      <4>5. HasKey(from, it + 1)
        BY <4>2, <4>3, <4>4 DEF HasKey
      <4> QED BY <3>1, <4>1, <4>2, <4>3, <4>5 DEF AddRow, EntryOf, KeyOf
    <3>2. CASE /\ it >= L /\ it < L + Len(from.rhs.rows)
               /\ AddRow("rhs", from.rhs, from.onRhs, from.rhs.rows[it + 1 - L])
      <4>1. ~(it + 1 <= L) /\ it + 1 \in 1..InputCount(from)
        BY <1>b, <3>2
      <4>2. /\ SideOf(from, it + 1) = "rhs"
            /\ RowOf(from, it + 1) = from.rhs.rows[it + 1 - L]
            /\ KeyColumn(from, it + 1) = KeyIndex(from.rhs, from.onRhs)
        BY <1>c, <4>1, OfTheRight
      <4>3. ~(KeyIndex(from.rhs, from.onRhs) > Len(from.rhs.rows[it + 1 - L]))
        BY <1>5, <3>2 DEF AddRow
      <4>4. KeyColumn(from, it + 1) \in Nat /\ Len(RowOf(from, it + 1)) \in Nat
        BY <1>1, <4>1, InputFacts
      <4>5. HasKey(from, it + 1)
        BY <4>2, <4>3, <4>4 DEF HasKey
      <4> QED BY <3>2, <4>1, <4>2, <4>3, <4>5 DEF AddRow, EntryOf, KeyOf
    <3> QED BY <3>1, <3>2 DEF AddColumns
  <2>2. Indexed(from, new, it + 1)
    BY <1>1, <1>2, <2>1, EntryInserted
  <2> QED BY <1>1, <1>3, <2>1, <2>2 DEF JoinInv
<1> QED BY <1>4, <1>5

LEMMA WalkStarts ==
  ASSUME JoinInv, BeginWalk
  PROVE  JoinInv'
<1>1. /\ from \in Joinable /\ IsJoin /\ Indexed(from, contents, it) /\ it = InputCount(from)
      /\ from' = from /\ contents' = contents /\ it' = 2
      /\ relation' = [columns |-> BothColumns, rows |-> <<>>]
      /\ joining' \in {"merge", "undefined"}
  BY DEF JoinInv, BeginWalk, InputCount
<1>2. Len(contents) \in Nat
  BY <1>1, IndexedRows
<1>3. Walked(from, contents, 2, <<>>)
  BY <1>2, WalkBegins
<1>4. IsJoin'
  BY <1>1 DEF IsJoin
<1>5. 2 \in Nat \ {0, 1} /\ relation' \in Relations
  BY <1>1, ColumnsOfBoth DEF Relations
<1> QED BY <1>1, <1>3, <1>4, <1>5 DEF JoinInv

\* The rows of the entries, and the row of NULLs, are rows.
LEMMA WalkedRows ==
  ASSUME JoinInv, joining = "merge", IsJoin, it <= Len(contents)
  PROVE  /\ it \in 2..Len(contents) /\ Len(contents) \in Nat /\ Len(contents) = InputCount(from)
         /\ Previous.row \in Seq(Values) /\ Here.row \in Seq(Values)
         /\ NullsFor(from.lhs) \in Seq(Values) /\ NullsFor(from.rhs) \in Seq(Values)
<1>1. from \in Joinable /\ Indexed(from, contents, InputCount(from)) /\ it \in Nat \ {0, 1}
  BY DEF JoinInv
<1>2. Len(contents) \in Nat /\ Len(contents) = InputCount(from)
  BY <1>1, IndexedRows
<1>3. it \in 2..Len(contents) /\ it \in 1..Len(contents) /\ it - 1 \in 1..Len(contents)
  BY <1>1, <1>2
<1>4. \A p \in 1..Len(contents) : contents[p].row \in Seq(Values)
  <2> SUFFICES ASSUME NEW p \in 1..InputCount(from) PROVE contents[p].row \in Seq(Values)
    BY <1>2
  <2>1. PICK i \in 1..InputCount(from) : contents[p].row = RowOf(from, i)
    BY <1>1, EntryAt
  <2> QED BY <1>1, <2>1, InputFacts
<1>5. Null \in Values
  BY DEF Null, Values
<1>6. from.lhs.columns \in Seq(STRING) /\ from.rhs.columns \in Seq(STRING)
  BY <1>1 DEF Joinable, TableExpressions, Relations
<1>7. NullsFor(from.lhs) \in Seq(Values) /\ NullsFor(from.rhs) \in Seq(Values)
  <2>1. PICK m \in Nat, n \in Nat :
          DOMAIN from.lhs.columns = 1..m /\ DOMAIN from.rhs.columns = 1..n
    BY <1>6
  <2> QED BY <1>5, <2>1 DEF NullsFor
<1> QED BY <1>2, <1>3, <1>4, <1>7 DEF Previous, Here

\* PassBy and Emit keep the invariant, if the walk does.
LEMMA WalkKept ==
  ASSUME JoinInv, joining = "merge", IsJoin, it <= Len(contents), UNCHANGED <<from, contents>>,
         joining' = joining, it' \in {it + 1, it + 2}, relation' \in Relations,
         KeysDiffer(from) => Walked(from, contents, it', relation'.rows)
  PROVE  JoinInv'
<1>1. it \in Nat \ {0, 1}
  BY DEF JoinInv
<1>2. it' \in Nat \ {0, 1}
  BY <1>1
<1>3. IsJoin'
  BY DEF IsJoin
<1> QED BY <1>2, <1>3 DEF JoinInv

LEMMA WalkStep ==
  ASSUME JoinInv, InnerJoin \/ LeftJoin \/ RightJoin \/ OuterJoin
  PROVE  JoinInv'
<1>1. joining = "merge" /\ IsJoin /\ it <= Len(contents)
  BY DEF InnerJoin, LeftJoin, RightJoin, OuterJoin, Merging, IsJoin
<1>2. /\ from \in Joinable /\ Indexed(from, contents, InputCount(from))
      /\ relation \in Relations /\ relation.rows \in Seq(Seq(Values))
      /\ KeysDiffer(from) => Walked(from, contents, it, relation.rows)
  BY <1>1 DEF JoinInv, Relations
<1>3. /\ it \in 2..Len(contents) /\ Len(contents) \in Nat /\ Len(contents) = InputCount(from)
      /\ Previous.row \in Seq(Values) /\ Here.row \in Seq(Values)
      /\ NullsFor(from.lhs) \in Seq(Values) /\ NullsFor(from.rhs) \in Seq(Values)
  BY <1>1, WalkedRows
<1>4. KeysDiffer(from) => (SameKey <=> PairAt(contents, it))
  BY <1>2, <1>3, SameKeyIsPair DEF SameKey, Here, Previous
<1>5. /\ Previous = contents[it - 1] /\ Here = contents[it] /\ it \in Nat
  BY <1>3 DEF Previous, Here
<1>6. KeysDiffer(from) => (IsPair <=> PairAt(contents, it))
  BY <1>4, <1>5 DEF IsPair, PairAt
<1>7. ASSUME NEW row \in Seq(Values), NEW steps, Emit(row, steps)
      PROVE  relation' \in Relations /\ relation'.rows = Append(relation.rows, row)
  <2>1. Append(relation.rows, row) \in Seq(Seq(Values))
    BY <1>2
  <2>2. relation' = [relation EXCEPT !.rows = Append(relation.rows, row)]
    BY <1>7 DEF Emit
  <2> HIDE DEF Emit
  <2> QED BY <1>2, <2>1, <2>2 DEF Relations
<1>8. ASSUME PassBy, KeysDiffer(from) => ~PairAt(contents, it),
             from.type = "left" => ~LoneAt(contents, it)
      PROVE  JoinInv'
  <2>1. UNCHANGED <<from, contents, joining, relation>> /\ it' = it + 1
    BY <1>8 DEF PassBy
  <2>2. KeysDiffer(from) => Walked(from, contents, it + 1, relation.rows)
    BY <1>2, <1>3, <1>5, <1>8, WalkPassesBy
  <2> QED BY <1>1, <1>2, <2>1, <2>2, WalkKept
<1>9. ASSUME Emit(Previous.row \o Here.row, 2), KeysDiffer(from) => PairAt(contents, it)
      PROVE  JoinInv'
  <2>1. UNCHANGED <<from, contents, joining>> /\ it' = it + 2
    BY <1>9 DEF Emit
  <2>2. Previous.row \o Here.row \in Seq(Values) /\ Previous.row \o Here.row = PairRow(contents, it)
    BY <1>3, <1>5 DEF PairRow
  <2>3. relation' \in Relations /\ relation'.rows = Append(relation.rows, PairRow(contents, it))
    BY <1>7, <1>9, <2>2
  <2>4. KeysDiffer(from) => Walked(from, contents, it + 2, relation'.rows)
    BY <1>2, <1>3, <1>9, <2>3, WalkTakesPair
  <2> QED BY <1>1, <2>1, <2>3, <2>4, WalkKept
<1>10. ASSUME NEW row \in Seq(Values), Emit(row, 1), from.type # "inner",
              KeysDiffer(from) => ~PairAt(contents, it),
              KeysDiffer(from) /\ from.type = "left" =>
                LoneAt(contents, it) /\ row = NullRow(from, contents, it)
       PROVE  JoinInv'
  <2>1. UNCHANGED <<from, contents, joining>> /\ it' = it + 1
    BY <1>10 DEF Emit
  <2>3. relation' \in Relations /\ relation'.rows = Append(relation.rows, row)
    BY <1>7, <1>10
  <2>4. KeysDiffer(from) => Walked(from, contents, it + 1, relation'.rows)
    BY <1>2, <1>3, <1>10, <2>3, WalkTakesLoneRow
  <2> QED BY <1>1, <2>1, <2>3, <2>4, WalkKept
<1>11. Previous.row \o NullsFor(from.rhs) = NullRow(from, contents, it)
  BY <1>5 DEF NullRow, NullsFor
<1>12. /\ Previous.row \o NullsFor(from.rhs) \in Seq(Values)
       /\ NullsFor(from.lhs) \o Here.row \in Seq(Values)
  BY <1>3
<1>13. CASE InnerJoin
  BY <1>6, <1>8, <1>9, <1>13 DEF InnerJoin, Merging
<1>14. CASE LeftJoin
  <2>1. from.type = "left"
    BY <1>14 DEF LeftJoin, Merging
  <2>2. CASE Previous.side # "lhs"
    BY <1>5, <1>8, <1>14, <2>2 DEF LeftJoin, LoneAt, PairAt
  <2>3. CASE Previous.side = "lhs"
    <3>1. KeysDiffer(from) /\ ~SameKey => LoneAt(contents, it)
      BY <1>4, <1>5, <2>3 DEF LoneAt
    <3> QED BY <1>4, <1>9, <1>10, <1>11, <1>12, <1>14, <2>1, <2>3, <3>1 DEF LeftJoin
  <2> QED BY <2>2, <2>3
<1>15. CASE RightJoin
  <2>1. from.type = "right"
    BY <1>15 DEF RightJoin, Merging
  <2>2. CASE "rhs" \notin {Previous.side, Here.side}
    BY <1>5, <1>8, <1>15, <2>1, <2>2 DEF RightJoin, PairAt
  <2>3. CASE "rhs" \in {Previous.side, Here.side}
    BY <1>4, <1>9, <1>10, <1>12, <1>15, <2>1, <2>3 DEF RightJoin
  <2> QED BY <2>2, <2>3
<1>16. CASE OuterJoin
  <2>1. from.type = "outer"
    BY <1>16 DEF OuterJoin, Merging
  <2> QED BY <1>6, <1>9, <1>10, <1>12, <1>16, <2>1 DEF OuterJoin
<1> QED BY <1>13, <1>14, <1>15, <1>16

LEMMA JoinStep ==
  ASSUME JoinInv, JoinNext
  PROVE  JoinInv'
<1>1. CASE AddColumns
  BY <1>1, IndexStep
<1>2. CASE BeginWalk
  BY <1>2, WalkStarts
<1>3. CASE InnerJoin \/ LeftJoin \/ RightJoin \/ OuterJoin
  BY <1>3, WalkStep
<1>4. CASE EndOfWalk
  <2>1. /\ UNCHANGED <<from, contents, it, relation>> /\ joining = "merge" /\ joining' = "done"
        /\ it > Len(contents)
    BY <1>4 DEF EndOfWalk
  <2>2. IsJoin' <=> IsJoin
    BY <2>1 DEF IsJoin
  <2> QED BY <2>1, <2>2 DEF JoinInv
<1>5. CASE CrossJoin \/ OneTable
  <2>1. UNCHANGED <<from, contents>> /\ ~IsJoin /\ joining' = "done"
    BY <1>5 DEF CrossJoin, OneTable, Joining, IsJoin
  <2>2. ~IsJoin'
    BY <2>1 DEF IsJoin
  <2>3. relation' \in Relations
    BY <1>5, CrossedRows DEF CrossJoin, OneTable, JoinInv, Joinable, TableExpressions
  <2> QED BY <2>1, <2>2, <2>3 DEF JoinInv
<1> QED BY <1>1, <1>2, <1>3, <1>4, <1>5 DEF JoinNext

\* A list without repetitions is as long as the set of its elements.
LEMMA DifferentElements ==
  ASSUME NEW S, NEW seq \in Seq(S), \A i, j \in DOMAIN seq : i # j => seq[i] # seq[j]
  PROVE  Cardinality({seq[i] : i \in DOMAIN seq}) = Len(seq)
<1> DEFINE n == Len(seq)
           T == {seq[i] : i \in DOMAIN seq}
<1>1. n \in Nat /\ DOMAIN seq = 1..n
  OBVIOUS
<1>2. IsFiniteSet(1..n) /\ Cardinality(1..n) = n
  BY <1>1, FS_Interval
<1>3. seq \in Bijection(1..n, T)
  <2>1. seq \in Injection(1..n, T)
    BY <1>1 DEF Injection, IsInjective
  <2>2. seq \in Surjection(1..n, T)
    BY <1>1 DEF Surjection
  <2> QED BY <2>1, <2>2 DEF Bijection
<1>4. ExistsBijection(1..n, T)
  BY <1>3 DEF ExistsBijection
<1>5. Cardinality(T) = Cardinality(1..n)
  BY <1>2, <1>4, FS_Bijection
<1> QED BY <1>2, <1>5

LEMMA UniqueKeysDiffer ==
  ASSUME from \in Joinable, KeysAreUnique
  PROVE  KeysDiffer(from)
<1>1. /\ \A l : LeftKey(l) = LKey(from, l)
      /\ \A r : RightKey(r) = RKey(from, r)
  BY DEF LeftKey, RightKey, LKey, RKey
<1>2. /\ \A i, j \in DOMAIN from.lhs.rows :
           i # j => LKey(from, from.lhs.rows[i]) # LKey(from, from.lhs.rows[j])
      /\ \A i, j \in DOMAIN from.rhs.rows :
           i # j => RKey(from, from.rhs.rows[i]) # RKey(from, from.rhs.rows[j])
      /\ \A i \in DOMAIN from.lhs.rows : ~IsNull(LKey(from, from.lhs.rows[i]))
      /\ \A j \in DOMAIN from.rhs.rows : ~IsNull(RKey(from, from.rhs.rows[j]))
  BY <1>1 DEF KeysAreUnique, OneRowPerKey, LeftRows, RightRows, ToSet
<1>3. ASSUME NEW i \in 1..InputCount(from)
      PROVE  \/ /\ SideOf(from, i) = "lhs" /\ i \in DOMAIN from.lhs.rows
                /\ KeyOf(from, i) = LKey(from, from.lhs.rows[i])
             \/ /\ SideOf(from, i) = "rhs"
                /\ \E j \in DOMAIN from.rhs.rows :
                     i = Len(from.lhs.rows) + j /\ KeyOf(from, i) = RKey(from, from.rhs.rows[j])
  <2>1. SideOf(from, i) \in {"lhs", "rhs"}
    BY DEF SideOf
  <2>2. CASE SideOf(from, i) = "lhs"
    BY <2>2, RowsAreInputs
  <2>3. CASE SideOf(from, i) = "rhs"
    <3>1. PICK j \in DOMAIN from.rhs.rows : i = Len(from.lhs.rows) + j
      BY <2>3, RowsAreInputs
    <3>2. KeyOf(from, i) = RKey(from, from.rhs.rows[j])
      BY <3>1, RowsAreInputs
    <3> QED BY <2>3, <3>1, <3>2
  <2> QED BY <2>1, <2>2, <2>3
<1>4. \A i \in 1..InputCount(from) : ~IsNull(KeyOf(from, i))
  BY <1>2, <1>3
<1>5. ASSUME NEW i \in 1..InputCount(from), NEW j \in 1..InputCount(from),
             i # j, SideOf(from, i) = SideOf(from, j)
      PROVE  KeyOf(from, i) # KeyOf(from, j)
  <2>1. CASE SideOf(from, i) = "lhs"
    BY <1>2, <1>3, <1>5, <2>1
  <2>2. CASE SideOf(from, i) = "rhs"
    <3>1. PICK k \in DOMAIN from.rhs.rows :
            i = Len(from.lhs.rows) + k /\ KeyOf(from, i) = RKey(from, from.rhs.rows[k])
      BY <1>3, <2>2
    <3>2. PICK m \in DOMAIN from.rhs.rows :
            j = Len(from.lhs.rows) + m /\ KeyOf(from, j) = RKey(from, from.rhs.rows[m])
      BY <1>3, <1>5, <2>2
    <3> QED BY <1>2, <1>5, <3>1, <3>2
  <2> QED BY <1>3, <2>1, <2>2
<1> QED BY <1>4, <1>5 DEF KeysDiffer

LEMMA RowsOfTheWalk ==
  ASSUME JoinInv, IsJoin, joining = "done", KeysAreUnique
  PROVE  /\ Len(contents) \in Nat /\ Indexed(from, contents, InputCount(from))
         /\ \A l \in LeftRows : \E p \in 1..Len(contents) :
              contents[p].side = "lhs" /\ contents[p].row = l /\ contents[p].key = LeftKey(l)
         /\ \A p \in 1..Len(contents) : \A r \in RightRows :
              contents[p].side = "lhs" /\ contents[p].key = RightKey(r) =>
                /\ p + 1 \in 2..Len(contents) /\ PairAt(contents, p + 1)
                /\ contents[p + 1].row = r
         /\ \A j \in 2..Len(contents) :
              /\ contents[j - 1].side = "lhs" =>
                   contents[j - 1].row \in LeftRows
                   /\ contents[j - 1].key = LeftKey(contents[j - 1].row)
              /\ PairAt(contents, j) =>
                   /\ contents[j].row \in Matches(contents[j - 1].row)
                   /\ \E k \in DOMAIN relation.rows : relation.rows[k] = PairRow(contents, j)
<1> DEFINE found == relation.rows
<1>1. /\ from \in Joinable /\ Indexed(from, contents, InputCount(from)) /\ it \in Nat
      /\ it > Len(contents) /\ KeysDiffer(from)
      /\ Walked(from, contents, it, found)
  BY UniqueKeysDiffer DEF JoinInv
<1>2. Len(contents) \in Nat
  BY <1>1, IndexedRows
<1>3. /\ \A l : LeftKey(l) = LKey(from, l)
      /\ \A r : RightKey(r) = RKey(from, r)
      /\ LeftRows = {from.lhs.rows[i] : i \in DOMAIN from.lhs.rows}
      /\ RightRows = {from.rhs.rows[i] : i \in DOMAIN from.rhs.rows}
  BY DEF LeftKey, RightKey, LKey, RKey, LeftRows, RightRows, ToSet
<1>4. ASSUME NEW l \in LeftRows
      PROVE  \E p \in 1..Len(contents) :
              contents[p].side = "lhs" /\ contents[p].row = l /\ contents[p].key = LeftKey(l)
  <2>1. PICK i \in DOMAIN from.lhs.rows : l = from.lhs.rows[i]
    BY <1>3
  <2> QED BY <1>1, <1>3, <2>1, RowsOfIndex
<1>5. ASSUME NEW p \in 1..Len(contents), NEW r \in RightRows,
             contents[p].side = "lhs", contents[p].key = RightKey(r)
      PROVE  /\ p + 1 \in 2..Len(contents) /\ PairAt(contents, p + 1)
             /\ contents[p + 1].row = r
  <2>1. PICK j \in DOMAIN from.rhs.rows : r = from.rhs.rows[j]
    BY <1>3
  <2> QED BY <1>1, <1>3, <1>5, <2>1, PairHasPlace
<1>6. ASSUME NEW j \in 2..Len(contents)
      PROVE  /\ contents[j - 1].side = "lhs" =>
                   contents[j - 1].row \in LeftRows
                   /\ contents[j - 1].key = LeftKey(contents[j - 1].row)
             /\ PairAt(contents, j) =>
                   /\ contents[j].row \in Matches(contents[j - 1].row)
                   /\ \E k \in DOMAIN found : found[k] = PairRow(contents, j)
  <2>1. j \in 1..Len(contents) /\ j - 1 \in 1..Len(contents) /\ j < it
    BY <1>1, <1>2
  <2>2. contents[j - 1].side = "lhs" =>
          /\ contents[j - 1].row \in LeftRows
          /\ contents[j - 1].key = LeftKey(contents[j - 1].row)
    BY <1>1, <1>3, <2>1, SidesOfIndex
  <2>3. contents[j].side = "rhs" =>
          /\ contents[j].row \in RightRows
          /\ contents[j].key = RightKey(contents[j].row)
    BY <1>1, <1>3, <2>1, SidesOfIndex
  <2>4. PairAt(contents, j) => contents[j].row \in Matches(contents[j - 1].row)
    BY <2>2, <2>3 DEF PairAt, Matches
  <2>5. PairAt(contents, j) => \E k \in DOMAIN found : found[k] = PairRow(contents, j)
    BY <1>1, <2>1 DEF Walked
  <2> QED BY <2>2, <2>4, <2>5
<1> QED BY <1>1, <1>2, <1>4, <1>5, <1>6

LEMMA EveryPairIsFound ==
  ASSUME JoinInv
  PROVE  JoinFindsEveryPair
<1> SUFFICES ASSUME joining = "done", contents # <<>>, KeysAreUnique
             PROVE  /\ MatchedRows \subseteq Found
                    /\ from.type = "inner" =>
                         Found = MatchedRows /\ Len(relation.rows) = Cardinality(Found)
                    /\ from.type = "left" =>
                         Found = MatchedRows \cup
                                 {l \o NullsFor(from.rhs) : l \in Unmatched \ PassedBy}
  BY Zenon DEF JoinFindsEveryPair
<1> DEFINE found == relation.rows
<1>1. IsJoin
  BY DEF JoinInv
<1>2. /\ Len(contents) \in Nat /\ Indexed(from, contents, InputCount(from))
      /\ \A l \in LeftRows : \E p \in 1..Len(contents) :
           contents[p].side = "lhs" /\ contents[p].row = l /\ contents[p].key = LeftKey(l)
      /\ \A p \in 1..Len(contents) : \A r \in RightRows :
           contents[p].side = "lhs" /\ contents[p].key = RightKey(r) =>
             /\ p + 1 \in 2..Len(contents) /\ PairAt(contents, p + 1)
             /\ contents[p + 1].row = r
      /\ \A j \in 2..Len(contents) :
           /\ contents[j - 1].side = "lhs" =>
                contents[j - 1].row \in LeftRows
                /\ contents[j - 1].key = LeftKey(contents[j - 1].row)
           /\ PairAt(contents, j) =>
                /\ contents[j].row \in Matches(contents[j - 1].row)
                /\ \E k \in DOMAIN found : found[k] = PairRow(contents, j)
  BY <1>1, RowsOfTheWalk
<1>3. /\ from \in Joinable /\ it \in Nat /\ it > Len(contents) /\ KeysDiffer(from)
      /\ Walked(from, contents, it, found) /\ found \in Seq(Seq(Values))
      /\ Len(contents) = InputCount(from)
  BY <1>1, <1>2, UniqueKeysDiffer, IndexedRows DEF JoinInv, Relations
<1>4. Found = {found[k] : k \in DOMAIN found}
  BY DEF Found, ToSet
<1>5. \A x : x \in MatchedRows <=> \E l \in LeftRows : \E r \in Matches(l) : x = l \o r
  <2>1. \A x : x \in MatchedRows <=>
          \E T \in {{l \o r : r \in Matches(l)} : l \in LeftRows} : x \in T
    BY Zenon DEF MatchedRows
  <2>2. \A x, l : x \in {l \o r : r \in Matches(l)} <=> \E r \in Matches(l) : x = l \o r
    BY Zenon
  <2>3. ASSUME NEW x PROVE x \in MatchedRows <=> \E l \in LeftRows : \E r \in Matches(l) : x = l \o r
    <3> DEFINE RowsWith(l) == {l \o r : r \in Matches(l)}
    <3>1. \A l : x \in RowsWith(l) <=> \E r \in Matches(l) : x = l \o r
      BY <2>2
    <3>2. x \in MatchedRows <=> \E T \in {RowsWith(l) : l \in LeftRows} : x \in T
      BY <2>1
    <3> HIDE DEF RowsWith
    <3>3. x \in MatchedRows <=> \E l \in LeftRows : x \in RowsWith(l)
      BY <3>2
    <3> QED BY <3>1, <3>3
  <2> QED BY <2>3
<1>6. MatchedRows \subseteq Found
  <2> SUFFICES ASSUME NEW x \in MatchedRows PROVE x \in Found
    OBVIOUS
  <2>0. PICK l \in LeftRows : \E r \in Matches(l) : x = l \o r
    BY <1>5
  <2>1. PICK r \in Matches(l) : x = l \o r
    BY <2>0
  <2>2. r \in RightRows /\ LeftKey(l) = RightKey(r)
    BY DEF Matches
  <2>3. PICK p \in 1..Len(contents) :
          contents[p].side = "lhs" /\ contents[p].row = l /\ contents[p].key = LeftKey(l)
    BY <1>2
  <2>4. p + 1 \in 2..Len(contents) /\ PairAt(contents, p + 1) /\ contents[p + 1].row = r
    BY <1>2, <2>2, <2>3
  <2>5. PICK k \in DOMAIN found : found[k] = PairRow(contents, p + 1)
    BY <1>2, <2>4
  <2>6. (p + 1) - 1 = p
    BY <2>3
  <2> QED BY <1>4, <2>1, <2>3, <2>4, <2>5, <2>6 DEF PairRow
<1>7. ASSUME NEW j \in 2..Len(contents), PairAt(contents, j)
      PROVE  PairRow(contents, j) \in MatchedRows
  <2>1. contents[j - 1].row \in LeftRows /\ contents[j].row \in Matches(contents[j - 1].row)
    BY <1>2, <1>7 DEF PairAt
  <2> QED BY <1>5, <2>1 DEF PairRow
<1>8. ASSUME from.type = "inner"
      PROVE  Found = MatchedRows /\ Len(found) = Cardinality(Found)
  <2>1. /\ \A k \in DOMAIN found : \E j \in 2..Len(contents) :
             PairAt(contents, j) /\ found[k] = PairRow(contents, j)
        /\ \A k, m \in DOMAIN found : k # m => found[k] # found[m]
    BY <1>3, <1>8 DEF Walked
  <2>2. Found \subseteq MatchedRows
    BY <1>4, <1>7, <2>1
  <2>3. Cardinality(Found) = Len(found)
    BY <1>3, <1>4, <2>1, DifferentElements
  <2> QED BY <1>6, <2>2, <2>3
<1>9. ASSUME from.type = "left"
      PROVE  Found = MatchedRows \cup {l \o NullsFor(from.rhs) : l \in Unmatched \ PassedBy}
  <2> DEFINE alone == {l \o NullsFor(from.rhs) : l \in Unmatched \ PassedBy}
  <2>1. \A p : NullRow(from, contents, p) = contents[p - 1].row \o NullsFor(from.rhs)
    BY DEF NullRow, NullsFor
  <2>2. ASSUME NEW l \in Unmatched \ PassedBy PROVE l \o NullsFor(from.rhs) \in Found
    <3>1. l \in LeftRows /\ Matches(l) = {}
      BY DEF Unmatched
    <3>2. PICK p \in 1..Len(contents) :
            contents[p].side = "lhs" /\ contents[p].row = l /\ contents[p].key = LeftKey(l)
      BY <1>2, <3>1
    <3>3. p # Len(contents)
      BY <3>2 DEF PassedBy
    <3>4. PICK j \in 2..Len(contents) : j = p + 1 /\ j - 1 = p /\ j < it
      BY <1>2, <1>3, <3>3
    <3>5. ~PairAt(contents, j)
      BY <1>2, <3>1, <3>2, <3>4
    <3>6. LoneAt(contents, j)
      BY <3>2, <3>4, <3>5 DEF LoneAt
    <3>7. PICK k \in DOMAIN found : found[k] = NullRow(from, contents, j)
      BY <1>3, <1>9, <3>4, <3>6 DEF Walked
    <3> QED BY <1>4, <2>1, <3>2, <3>4, <3>7
  <2>3. ASSUME NEW j \in 2..Len(contents), LoneAt(contents, j)
        PROVE  NullRow(from, contents, j) \in alone
    <3> DEFINE l == contents[j - 1].row
    <3>1. contents[j - 1].side = "lhs" /\ l \in LeftRows /\ contents[j - 1].key = LeftKey(l)
      BY <1>2, <2>3 DEF LoneAt
    <3>2. j - 1 \in 1..Len(contents) /\ j - 1 # Len(contents) /\ (j - 1) + 1 = j
          /\ Len(contents) \in 1..Len(contents)
      BY <1>2
    <3>3. Matches(l) = {}
      <4> SUFFICES ASSUME NEW r \in Matches(l) PROVE FALSE
        OBVIOUS
      <4>1. r \in RightRows /\ RightKey(r) = contents[j - 1].key
        BY <3>1 DEF Matches
      <4>2. PairAt(contents, j)
        BY <1>2, <3>1, <3>2, <4>1
      <4> QED BY <2>3, <4>2 DEF LoneAt
    <3>4. l \notin PassedBy
      BY <1>2, <1>3, <3>1, <3>2, RowHasOnePlace DEF PassedBy
    <3>5. l \in Unmatched
      BY <3>1, <3>3 DEF Unmatched
    <3> QED BY <2>1, <3>4, <3>5
  <2>4. ASSUME NEW k \in DOMAIN found PROVE found[k] \in MatchedRows \cup alone
    <3>1. PICK j \in 2..Len(contents) :
            \/ PairAt(contents, j) /\ found[k] = PairRow(contents, j)
            \/ LoneAt(contents, j) /\ found[k] = NullRow(from, contents, j)
      BY <1>3, <1>9 DEF Walked
    <3> QED BY <1>7, <2>3, <3>1
    <2>5. Found \subseteq MatchedRows \cup alone
    BY <1>4, <2>4
  <2>6. alone \subseteq Found
    BY <2>2
  <2> QED BY <1>6, <2>5, <2>6
<1> QED BY <1>6, <1>8, <1>9

-----------------------------------------------------------------------------
(***************************************************************************)
(* A SELECT reads the relation of its FROM and changes it no more.         *)
(***************************************************************************)
LEMMA JoinStutter ==
  ASSUME JoinInv, UNCHANGED joinVars
  PROVE  JoinInv'
<1>1. UNCHANGED <<from, contents, it, relation, joining>>
  BY DEF joinVars
<1>2. IsJoin' <=> IsJoin
  BY <1>1 DEF IsJoin
<1> QED BY <1>1, <1>2 DEF JoinInv

LEMMA FromIsReadOnce ==
  ASSUME Next, ~EvaluateFrom
  PROVE  UNCHANGED joinVars
<1>1. FromEvaluated \/ RowsSelected \/ RowsDistinct => UNCHANGED joinVars
  BY Zenon DEF FromEvaluated, RowsSelected, RowsDistinct
<1>2. TakeTop \/ MakeUnion \/ AsValue \/ AsTable => UNCHANGED joinVars
  BY Zenon DEF TakeTop, MakeUnion, AsValue, AsTable
<1>3. CollectRow \/ RowsCollected \/ EvaluateGroup \/ EvaluateRows => UNCHANGED joinVars
  BY Zenon DEF CollectRow, RowsCollected, EvaluateGroup, EvaluateRows
<1>4. SelectWithoutFrom \/ DistinctRow \/ OrderRow => UNCHANGED joinVars
  BY Zenon DEF SelectWithoutFrom, DistinctRow, OrderRow
<1>5. Ended => UNCHANGED joinVars
  BY DEF Ended, vars
<1> QED BY <1>1, <1>2, <1>3, <1>4, <1>5 DEF Next

LEMMA JoinStays ==
  ASSUME JoinInv, [Next]_vars
  PROVE  JoinInv'
<1>1. CASE EvaluateFrom
  BY <1>1, JoinStep DEF EvaluateFrom
<1>2. CASE Next /\ ~EvaluateFrom
  BY <1>2, FromIsReadOnce, JoinStutter
<1>3. CASE UNCHANGED vars
  <2>1. UNCHANGED joinVars
    BY <1>3 DEF vars
  <2> QED BY <2>1, JoinStutter
<1> QED BY <1>1, <1>2, <1>3

LEMMA JoinStarts ==
  ASSUME Init
  PROVE  JoinInv
<1>1. PICK statement \in Statements : JoinInit(statement.from)
  BY DEF Init
<1>2. statement.from \in Joinable
  BY StatementsAssumption
<1> QED BY <1>1, <1>2, JoinInitial

(* Where the keys of both sides are unique and none is NULL, every join    *)
(* finds the pairs that two nested loops find; an inner join nothing else, *)
(* a left join also the rows without a match, but for the last entry of    *)
(* the index (JoinExpression::evaluate, TableExpression.cpp).              *)
THEOREM WalkFindsEveryPair == Spec => []JoinFindsEveryPair
<1>1. Init => JoinInv
  BY JoinStarts
<1>2. JoinInv /\ [Next]_vars => JoinInv'
  BY JoinStays
<1>3. JoinInv => JoinFindsEveryPair
  BY EveryPairIsFound
<1> QED BY <1>1, <1>2, <1>3, PTL DEF Spec

-----------------------------------------------------------------------------
(***************************************************************************)
(* Lists, and how many elements a set has                                  *)
(***************************************************************************)
IsList(s) == \E n \in Nat : s = [i \in 1..n |-> s[i]]
Counts(A, n) == IsFiniteSet(A) /\ Cardinality(A) = n

LEMMA ListFacts ==
  ASSUME NEW s, IsList(s)
  PROVE  /\ Len(s) \in Nat /\ DOMAIN s = 1..Len(s) /\ s = [i \in 1..Len(s) |-> s[i]]
         /\ \A S : (\A i \in DOMAIN s : s[i] \in S) => s \in Seq(S)
<1>1. PICK n \in Nat : s = [i \in 1..n |-> s[i]]
  BY DEF IsList
<1>2. DOMAIN s = 1..n
  BY <1>1
<1>3. ASSUME NEW S, \A i \in DOMAIN s : s[i] \in S PROVE s \in Seq(S) /\ Len(s) = n
  <2>1. s \in [1..n -> S]
    BY <1>1, <1>2, <1>3
  <2> QED BY <2>1
<1>4. \A i \in DOMAIN s : s[i] \in {s[j] : j \in DOMAIN s}
  OBVIOUS
<1>5. Len(s) = n
  BY <1>3, <1>4
<1> QED BY <1>1, <1>2, <1>3, <1>5

LEMMA SequenceIsList ==
  ASSUME NEW S, NEW s \in Seq(S)
  PROVE  IsList(s)
<1>1. PICK n \in Nat : s \in [1..n -> S]
  OBVIOUS
<1>2. s = [i \in 1..n |-> s[i]]
  BY <1>1
<1> QED BY <1>2 DEF IsList

LEMMA OnceIsSame ==
  ASSUME NEW s, IsList(s)
  PROVE  Once(s) = s
<1>1. s \in Seq({s[i] : i \in DOMAIN s})
  BY ListFacts
<1> QED BY <1>1 DEF Once

LEMMA RemovedAt ==
  ASSUME NEW s, IsList(s), NEW n \in Nat, Len(s) = n, NEW k \in 1..n
  PROVE  RemoveAt(s, k) = [p \in 1..(n - 1) |-> IF p < k THEN s[p] ELSE s[p + 1]]
<1> DEFINE S == {s[i] : i \in DOMAIN s}
           front == SubSeq(s, 1, k - 1)
           back == SubSeq(s, k + 1, Len(s))
<1>1. s \in Seq(S)
  BY ListFacts
<1> HIDE DEF S
<1>2. front \in Seq(S) /\ Len(front) = k - 1 /\ \A p \in 1..(k - 1) : front[p] = s[p]
  BY <1>1
<1>3. /\ back \in Seq(S) /\ Len(back) = n - k
      /\ \A p \in 1..(n - k) : back[p] = s[k + p]
  BY <1>1
<1> DEFINE all == front \o back
<1>4. RemoveAt(s, k) = all
  BY DEF RemoveAt
<1> HIDE DEF front, back
<1>5. /\ all \in Seq(S) /\ Len(all) = Len(front) + Len(back)
      /\ \A p \in 1..(Len(front) + Len(back)) :
           all[p] = IF p <= Len(front) THEN front[p] ELSE back[p - Len(front)]
  BY <1>2, <1>3, ConcatProperties
<1> HIDE DEF all
<1>6. (k - 1) + (n - k) = n - 1
  OBVIOUS
<1>7. /\ Len(all) = n - 1
      /\ \A p \in 1..(n - 1) :
           all[p] = IF p <= k - 1 THEN front[p] ELSE back[p - (k - 1)]
  BY <1>2, <1>3, <1>5, <1>6
<1>8. ASSUME NEW p \in 1..(n - 1)
      PROVE  all[p] = IF p < k THEN s[p] ELSE s[p + 1]
  <2>1. CASE p < k
    BY <1>2, <1>7, <2>1
  <2>2. CASE ~(p < k)
    <3>1. p - (k - 1) \in 1..(n - k) /\ k + (p - (k - 1)) = p + 1 /\ ~(p <= k - 1)
      BY <2>2
    <3> QED BY <1>3, <1>7, <2>2, <3>1
  <2> QED BY <2>1, <2>2
<1>9. all = [p \in 1..(n - 1) |-> all[p]]
  BY <1>5, <1>7
<1> QED BY <1>4, <1>8, <1>9

LEMMA CountsNothing == Counts({}, 0)
BY FS_EmptySet DEF Counts

LEMMA CountsOneMore ==
  ASSUME NEW A, NEW n, Counts(A, n), NEW a, a \notin A
  PROVE  Counts(A \cup {a}, n + 1)
BY FS_AddElement DEF Counts

LEMMA CountsImage ==
  ASSUME NEW A, NEW n, Counts(A, n), NEW B, NEW f \in [A -> B],
         \A a, b \in A : f[a] = f[b] => a = b, \A b \in B : \E a \in A : f[a] = b
  PROVE  Counts(B, n)
<1>1. f \in Bijection(A, B)
  BY DEF Bijection, Injection, Surjection, IsInjective
<1>2. ExistsBijection(A, B)
  BY <1>1 DEF ExistsBijection
<1> QED BY <1>2, FS_Bijection DEF Counts

LEMMA CountsTogether ==
  ASSUME NEW A, NEW m, Counts(A, m), NEW B, NEW n, Counts(B, n), A \cap B = {}
  PROVE  Counts(A \cup B, m + n)
<1>1. IsFiniteSet(A \cup B) /\ Cardinality(A \cup B) =
        Cardinality(A) + Cardinality(B) - Cardinality(A \cap B)
  BY FS_Union DEF Counts
<1>2. Cardinality(A \cap B) = 0
  BY FS_EmptySet
<1>3. m \in Nat /\ n \in Nat
  BY FS_CardinalityType DEF Counts
<1> QED BY <1>1, <1>2, <1>3 DEF Counts

LEMMA CountsOfPlaces ==
  ASSUME NEW n \in Nat, NEW A \in SUBSET (1..n)
  PROVE  Counts(A, Cardinality(A)) /\ Cardinality(A) \in 0..n
<1>1. IsFiniteSet(1..n) /\ Cardinality(1..n) = n
  BY FS_Interval
<1>2. IsFiniteSet(A) /\ Cardinality(A) <= n
  BY <1>1, FS_Subset
<1>3. Cardinality(A) \in Nat
  BY <1>2, FS_CardinalityType
<1> QED BY <1>2, <1>3 DEF Counts

LEMMA FirstOf ==
  ASSUME NEW n \in Nat, NEW A \in SUBSET (1..n), A # {}
  PROVE  First(A) \in A /\ \A a \in A : First(A) <= a
<1>1. A \subseteq Nat
  OBVIOUS
<1>2. \E i \in A : \A j \in A : i <= j
  BY <1>1, SmallestIn
<1> QED BY <1>2, Zenon DEF First

-----------------------------------------------------------------------------
(***************************************************************************)
(* Rearrangements: two families, functions over any index, that have the   *)
(* same elements, each as often.                                           *)
(***************************************************************************)
Rearranging(f, b, a) ==
  /\ f \in [DOMAIN b -> DOMAIN a]
  /\ \A i, j \in DOMAIN b : f[i] = f[j] => i = j
  /\ \A k \in DOMAIN a : \E i \in DOMAIN b : f[i] = k
  /\ \A i \in DOMAIN b : a[f[i]] = b[i]
Rearranges(b, a) == \E f \in [DOMAIN b -> DOMAIN a] : Rearranging(f, b, a)

Without(a, p) == [i \in DOMAIN a \ {p} |-> a[i]]

LEMMA RearrangesItself ==
  ASSUME NEW a
  PROVE  Rearranges(a, a)
<1> DEFINE f == [i \in DOMAIN a |-> i]
<1>1. f \in [DOMAIN a -> DOMAIN a]
  OBVIOUS
<1>2. Rearranging(f, a, a)
  BY DEF Rearranging
<1> QED BY <1>1, <1>2 DEF Rearranges

LEMMA RearrangesOnwards ==
  ASSUME NEW a, NEW b, NEW c, Rearranges(c, b), Rearranges(b, a)
  PROVE  Rearranges(c, a)
<1>1. PICK f : Rearranging(f, b, a)
  BY DEF Rearranges
<1>2. PICK g : Rearranging(g, c, b)
  BY DEF Rearranges
<1> DEFINE h == [i \in DOMAIN c |-> f[g[i]]]
<1>3. /\ \A i \in DOMAIN c : g[i] \in DOMAIN b /\ b[g[i]] = c[i] /\ h[i] = f[g[i]]
      /\ \A i \in DOMAIN b : f[i] \in DOMAIN a /\ a[f[i]] = b[i]
      /\ h \in [DOMAIN c -> DOMAIN a]
  BY <1>1, <1>2 DEF Rearranging
<1> HIDE DEF h
<1>4. ASSUME NEW i \in DOMAIN c, NEW j \in DOMAIN c, h[i] = h[j] PROVE i = j
  <2>1. g[i] = g[j]
    BY <1>1, <1>3, <1>4 DEF Rearranging
  <2> QED BY <1>2, <2>1 DEF Rearranging
<1>5. ASSUME NEW k \in DOMAIN a PROVE \E i \in DOMAIN c : h[i] = k
  <2>1. PICK j \in DOMAIN b : f[j] = k
    BY <1>1 DEF Rearranging
  <2>2. PICK i \in DOMAIN c : g[i] = j
    BY <1>2 DEF Rearranging
  <2> QED BY <1>3, <2>1, <2>2
<1>6. Rearranging(h, c, a)
  BY <1>3, <1>4, <1>5 DEF Rearranging
<1> QED BY <1>3, <1>6 DEF Rearranges

LEMMA RearrangesTogether ==
  ASSUME NEW a, NEW a1, NEW a2, NEW b, NEW b1, NEW b2,
         Rearranges(b1, a1), Rearranges(b2, a2),
         DOMAIN a = DOMAIN a1 \cup DOMAIN a2, DOMAIN a1 \cap DOMAIN a2 = {},
         DOMAIN b = DOMAIN b1 \cup DOMAIN b2, DOMAIN b1 \cap DOMAIN b2 = {},
         \A i \in DOMAIN a1 : a[i] = a1[i], \A i \in DOMAIN a2 : a[i] = a2[i],
         \A i \in DOMAIN b1 : b[i] = b1[i], \A i \in DOMAIN b2 : b[i] = b2[i]
  PROVE  Rearranges(b, a)
<1>1. PICK f : Rearranging(f, b1, a1)
  BY DEF Rearranges
<1>2. PICK g : Rearranging(g, b2, a2)
  BY DEF Rearranges
<1> DEFINE h == [i \in DOMAIN b |-> IF i \in DOMAIN b1 THEN f[i] ELSE g[i]]
<1>3. /\ \A i \in DOMAIN b1 : f[i] \in DOMAIN a1 /\ a1[f[i]] = b1[i]
      /\ \A i \in DOMAIN b2 : g[i] \in DOMAIN a2 /\ a2[g[i]] = b2[i]
  BY <1>1, <1>2 DEF Rearranging
<1>4. /\ \A i \in DOMAIN b1 : h[i] = f[i] /\ i \in DOMAIN b
      /\ \A i \in DOMAIN b2 : h[i] = g[i] /\ i \in DOMAIN b
      /\ h \in [DOMAIN b -> DOMAIN a]
  BY <1>3
<1> HIDE DEF h
<1>5. ASSUME NEW i \in DOMAIN b, NEW j \in DOMAIN b, h[i] = h[j] PROVE i = j
  <2>1. CASE i \in DOMAIN b1 /\ j \in DOMAIN b1
    BY <1>1, <1>4, <1>5, <2>1 DEF Rearranging
  <2>2. CASE i \in DOMAIN b2 /\ j \in DOMAIN b2
    BY <1>2, <1>4, <1>5, <2>2 DEF Rearranging
  <2>3. CASE (i \in DOMAIN b1 /\ j \in DOMAIN b2) \/ (i \in DOMAIN b2 /\ j \in DOMAIN b1)
    BY <1>3, <1>4, <1>5, <2>3
  <2> QED BY <2>1, <2>2, <2>3
<1>6. ASSUME NEW k \in DOMAIN a PROVE \E i \in DOMAIN b : h[i] = k
  <2>1. CASE k \in DOMAIN a1
    <3>1. PICK i \in DOMAIN b1 : f[i] = k
      BY <1>1, <2>1 DEF Rearranging
    <3> QED BY <1>4, <3>1
  <2>2. CASE k \in DOMAIN a2
    <3>1. PICK i \in DOMAIN b2 : g[i] = k
      BY <1>2, <2>2 DEF Rearranging
    <3> QED BY <1>4, <3>1
  <2> QED BY <2>1, <2>2
<1>7. ASSUME NEW i \in DOMAIN b PROVE a[h[i]] = b[i]
  <2>1. CASE i \in DOMAIN b1
    BY <1>3, <1>4, <2>1
  <2>2. CASE i \in DOMAIN b2
    BY <1>3, <1>4, <2>2
  <2> QED BY <2>1, <2>2
<1>8. Rearranging(h, b, a)
  BY <1>4, <1>5, <1>6, <1>7 DEF Rearranging
<1> QED BY <1>4, <1>8 DEF Rearranges

\* One element more on both sides
LEMMA RearrangesWith ==
  ASSUME NEW a, NEW p \in DOMAIN a, NEW b, NEW q \in DOMAIN b, b[q] = a[p],
         Rearranges(Without(b, q), Without(a, p))
  PROVE  Rearranges(b, a)
<1> DEFINE a1 == Without(a, p)
           b1 == Without(b, q)
           a2 == [i \in {p} |-> a[p]]
           b2 == [i \in {q} |-> a[p]]
           f == [i \in {q} |-> p]
<1>1. /\ DOMAIN a1 = DOMAIN a \ {p} /\ \A i \in DOMAIN a1 : a[i] = a1[i]
      /\ DOMAIN b1 = DOMAIN b \ {q} /\ \A i \in DOMAIN b1 : b[i] = b1[i]
  BY DEF Without
<1>2. /\ DOMAIN a2 = {p} /\ \A i \in DOMAIN a2 : a[i] = a2[i]
      /\ DOMAIN b2 = {q} /\ \A i \in DOMAIN b2 : b[i] = b2[i]
  OBVIOUS
<1>3. f \in [DOMAIN b2 -> DOMAIN a2] /\ Rearranging(f, b2, a2)
  BY DEF Rearranging
<1>4. Rearranges(b2, a2)
  BY <1>3 DEF Rearranges
<1>5. Rearranges(b1, a1)
  OBVIOUS
<1> HIDE DEF a1, b1, a2, b2
<1>6. /\ DOMAIN a = DOMAIN a1 \cup DOMAIN a2 /\ DOMAIN a1 \cap DOMAIN a2 = {}
      /\ DOMAIN b = DOMAIN b1 \cup DOMAIN b2 /\ DOMAIN b1 \cap DOMAIN b2 = {}
  BY <1>1, <1>2
<1> QED BY <1>1, <1>2, <1>4, <1>5, <1>6, RearrangesTogether

IndicesOf(a, x) == {i \in DOMAIN a : a[i] = x}

\* An element is as often in the one as in the other.
LEMMA RearrangesCounts ==
  ASSUME NEW a, NEW b, Rearranges(b, a), NEW x, NEW n, Counts(IndicesOf(b, x), n)
  PROVE  Counts(IndicesOf(a, x), n)
<1>1. PICK f : Rearranging(f, b, a)
  BY DEF Rearranges
<1> DEFINE A == IndicesOf(a, x)
           B == IndicesOf(b, x)
           g == [i \in B |-> f[i]]
<1>0. A = {i \in DOMAIN a : a[i] = x} /\ B = {i \in DOMAIN b : b[i] = x}
  BY DEF IndicesOf
<1> HIDE DEF A, B
<1>2. g \in [B -> A]
  BY <1>0, <1>1 DEF Rearranging
<1>3. \A i, j \in B : g[i] = g[j] => i = j
  BY <1>0, <1>1 DEF Rearranging
<1>4. ASSUME NEW k \in A PROVE \E i \in B : g[i] = k
  <2>1. PICK i \in DOMAIN b : f[i] = k
    BY <1>0, <1>1 DEF Rearranging
  <2>2. b[i] = x
    BY <1>0, <1>1, <2>1 DEF Rearranging
  <2> QED BY <1>0, <2>1, <2>2
<1> HIDE DEF g
<1>5. Counts(B, n)
  BY DEF B
<1>6. Counts(A, n)
  BY <1>2, <1>3, <1>4, <1>5, CountsImage
<1> QED BY <1>6 DEF A

\* A list into which an element is put, or from which one is taken
LEMMA InsertRearranges ==
  ASSUME NEW s, IsList(s), NEW x, NEW k \in 0..Len(s)
  PROVE  /\ IsList(InsertAt(s, k + 1, x)) /\ Len(InsertAt(s, k + 1, x)) = Len(s) + 1
         /\ InsertAt(s, k + 1, x)[k + 1] = x
         /\ Rearranges(Without(InsertAt(s, k + 1, x), k + 1), s)
<1> DEFINE n == Len(s)
           S == {s[i] : i \in DOMAIN s} \cup {x}
           t == InsertAt(s, k + 1, x)
<1>1. n \in Nat /\ s \in Seq(S) /\ x \in S /\ DOMAIN s = 1..n
  BY ListFacts
<1> HIDE DEF n, S
<1>2. Len(s) = n /\ k \in 0..n
  BY DEF n
<1>3. t = [p \in 1..(n + 1) |->
             IF p <= k THEN s[p] ELSE IF p = k + 1 THEN x ELSE s[p - 1]]
  BY <1>1, <1>2, InsertedAt
<1> HIDE DEF t
<1>4. DOMAIN t = 1..(n + 1) /\ t = [p \in 1..(n + 1) |-> t[p]] /\ t[k + 1] = x
  BY <1>1, <1>2, <1>3
<1>5. IsList(t) /\ Len(t) = n + 1
  <2>1. n + 1 \in Nat
    BY <1>1
  <2>2. IsList(t)
    BY <1>4, <2>1 DEF IsList
  <2>3. DOMAIN t = 1..Len(t) /\ Len(t) \in Nat
    BY <2>2, ListFacts
  <2> QED BY <1>4, <2>1, <2>2, <2>3
<1> DEFINE w == Without(t, k + 1)
           f == [p \in DOMAIN w |-> IF p <= k THEN p ELSE p - 1]
<1>6. DOMAIN w = 1..(n + 1) \ {k + 1} /\ \A p \in DOMAIN w : w[p] = t[p]
  BY <1>4 DEF Without
<1> HIDE DEF w
<1>7. /\ \A p \in DOMAIN w : p <= k => p \in 1..n /\ w[p] = s[p]
      /\ \A p \in DOMAIN w : ~(p <= k) => p - 1 \in 1..n /\ w[p] = s[p - 1]
  BY <1>1, <1>2, <1>3, <1>6
<1>8. f \in [DOMAIN w -> DOMAIN s]
  BY <1>1, <1>7
<1>9. \A i, j \in DOMAIN w : f[i] = f[j] => i = j
  BY <1>1, <1>2, <1>6
<1>10. ASSUME NEW i \in DOMAIN s PROVE \E p \in DOMAIN w : f[p] = i
  <2>1. CASE i <= k
    <3>1. i \in DOMAIN w
      BY <1>1, <1>2, <1>6, <2>1
    <3> QED BY <2>1, <3>1
  <2>2. CASE ~(i <= k)
    <3>1. i + 1 \in DOMAIN w /\ ~(i + 1 <= k) /\ (i + 1) - 1 = i
      BY <1>1, <1>2, <1>6, <2>2
    <3> QED BY <3>1
  <2> QED BY <2>1, <2>2
<1>11. \A p \in DOMAIN w : s[f[p]] = w[p]
  BY <1>7
<1>12. Rearranging(f, w, s)
  BY <1>8, <1>9, <1>10, <1>11 DEF Rearranging
<1>13. Rearranges(w, s)
  BY <1>8, <1>12 DEF Rearranges
<1> QED BY <1>4, <1>5, <1>13 DEF t, w, n

LEMMA RemoveRearranges ==
  ASSUME NEW s, IsList(s), NEW k \in 1..Len(s)
  PROVE  /\ IsList(RemoveAt(s, k)) /\ Len(RemoveAt(s, k)) = Len(s) - 1
         /\ Rearranges(RemoveAt(s, k), Without(s, k))
<1> DEFINE n == Len(s)
           t == RemoveAt(s, k)
<1>1. n \in Nat /\ DOMAIN s = 1..n
  BY ListFacts
<1> HIDE DEF n
<1>2. Len(s) = n /\ k \in 1..n
  BY DEF n
<1>3. t = [p \in 1..(n - 1) |-> IF p < k THEN s[p] ELSE s[p + 1]]
  BY <1>1, <1>2, RemovedAt
<1> HIDE DEF t
<1>4. DOMAIN t = 1..(n - 1) /\ t = [p \in 1..(n - 1) |-> t[p]]
  BY <1>3
<1>5. IsList(t) /\ Len(t) = n - 1
  <2>1. n - 1 \in Nat
    BY <1>1, <1>2
  <2>2. IsList(t)
    BY <1>4, <2>1 DEF IsList
  <2>3. DOMAIN t = 1..Len(t) /\ Len(t) \in Nat
    BY <2>2, ListFacts
  <2> QED BY <1>4, <2>1, <2>2, <2>3
<1> DEFINE w == Without(s, k)
           f == [p \in DOMAIN t |-> IF p < k THEN p ELSE p + 1]
<1>6. DOMAIN w = 1..n \ {k} /\ \A p \in DOMAIN w : w[p] = s[p]
  BY <1>1 DEF Without
<1> HIDE DEF w
<1>7. /\ \A p \in DOMAIN t : p < k => p \in DOMAIN w /\ t[p] = w[p]
      /\ \A p \in DOMAIN t : ~(p < k) => p + 1 \in DOMAIN w /\ t[p] = w[p + 1]
  BY <1>1, <1>2, <1>3, <1>4, <1>6
<1>8. f \in [DOMAIN t -> DOMAIN w]
  BY <1>7
<1>9. \A i, j \in DOMAIN t : f[i] = f[j] => i = j
  BY <1>1, <1>2, <1>4
<1>10. ASSUME NEW i \in DOMAIN w PROVE \E p \in DOMAIN t : f[p] = i
  <2>1. CASE i < k
    <3>1. i \in DOMAIN t
      BY <1>1, <1>2, <1>4, <1>6, <2>1
    <3> QED BY <2>1, <3>1
  <2>2. CASE ~(i < k)
    <3>1. i - 1 \in DOMAIN t /\ ~(i - 1 < k) /\ (i - 1) + 1 = i
      BY <1>1, <1>2, <1>4, <1>6, <2>2
    <3> QED BY <3>1
  <2> QED BY <2>1, <2>2
<1>11. \A p \in DOMAIN t : w[f[p]] = t[p]
  BY <1>7
<1>12. Rearranging(f, t, w)
  BY <1>8, <1>9, <1>10, <1>11 DEF Rearranging
<1>13. Rearranges(t, w)
  BY <1>8, <1>12 DEF Rearranges
<1> QED BY <1>5, <1>13 DEF t, w, n

\* An element that is taken out and put in somewhere else
LEMMA MoveRearranges ==
  ASSUME NEW s, IsList(s), NEW k \in 1..Len(s), NEW c \in 0..(Len(s) - 1)
  PROVE  /\ IsList(InsertAt(RemoveAt(s, k), c + 1, s[k]))
         /\ Len(InsertAt(RemoveAt(s, k), c + 1, s[k])) = Len(s)
         /\ Rearranges(InsertAt(RemoveAt(s, k), c + 1, s[k]), s)
<1> DEFINE r == RemoveAt(s, k)
           t == InsertAt(r, c + 1, s[k])
<1>1. Len(s) \in Nat /\ DOMAIN s = 1..Len(s)
  BY ListFacts
<1>2. IsList(r) /\ Len(r) = Len(s) - 1 /\ Rearranges(r, Without(s, k))
  BY RemoveRearranges
<1> HIDE DEF r
<1>3. c \in 0..Len(r)
  BY <1>2
<1>4. /\ IsList(t) /\ Len(t) = Len(r) + 1 /\ t[c + 1] = s[k]
      /\ Rearranges(Without(t, c + 1), r)
  BY <1>2, <1>3, InsertRearranges
<1> HIDE DEF t
<1>5. Rearranges(Without(t, c + 1), Without(s, k))
  BY <1>2, <1>4, RearrangesOnwards
<1>6. Len(t) = Len(s)
  BY <1>1, <1>2, <1>4
<1>7. c + 1 \in DOMAIN t /\ k \in DOMAIN s
  BY <1>1, <1>4, <1>6, ListFacts
<1>8. Rearranges(t, s)
  BY <1>4, <1>5, <1>7, RearrangesWith
<1> QED BY <1>4, <1>6, <1>8 DEF t, r

-----------------------------------------------------------------------------
(***************************************************************************)
(* The groups: a row that is collected is at one more place of them.       *)
(***************************************************************************)
GroupList(gs, S) ==
  /\ IsList(gs)
  /\ \A g \in DOMAIN gs :
       /\ gs[g] = [key |-> gs[g].key, rows |-> gs[g].rows]
       /\ gs[g].rows \in Seq(S)

(* The rows of the first m groups *)
Places(gs, m) == {pl \in (1..m) \X Nat : pl[2] \in DOMAIN gs[pl[1]].rows}
Grouped(gs, m) == [pl \in Places(gs, m) |-> gs[pl[1]].rows[pl[2]]]

LEMMA PlaceFacts ==
  ASSUME NEW gs, NEW m \in Nat
  PROVE  /\ DOMAIN Grouped(gs, m) = Places(gs, m)
         /\ \A pl \in Places(gs, m) :
              /\ pl = <<pl[1], pl[2]>> /\ pl[1] \in 1..m /\ pl[2] \in Nat
              /\ pl[2] \in DOMAIN gs[pl[1]].rows
              /\ Grouped(gs, m)[pl] = gs[pl[1]].rows[pl[2]]
         /\ \A g \in 1..m, i \in Nat :
              i \in DOMAIN gs[g].rows => /\ <<g, i>> \in Places(gs, m)
                                       /\ Grouped(gs, m)[<<g, i>>] = gs[g].rows[i]
<1>1. ASSUME NEW pl \in Places(gs, m)
      PROVE  /\ pl = <<pl[1], pl[2]>> /\ pl[1] \in 1..m /\ pl[2] \in Nat
             /\ pl[2] \in DOMAIN gs[pl[1]].rows
  <2>1. pl \in (1..m) \X Nat /\ pl[2] \in DOMAIN gs[pl[1]].rows
    BY DEF Places
  <2>2. \A p \in (1..m) \X Nat : p = <<p[1], p[2]>> /\ p[1] \in 1..m /\ p[2] \in Nat
    OBVIOUS
  <2> QED BY <2>1, <2>2, Zenon
<1>2. \A pl \in Places(gs, m) : Grouped(gs, m)[pl] = gs[pl[1]].rows[pl[2]]
  BY DEF Grouped
<1>3. ASSUME NEW g \in 1..m, NEW i \in Nat, i \in DOMAIN gs[g].rows
      PROVE  <<g, i>> \in Places(gs, m)
  BY <1>3 DEF Places
<1>4. DOMAIN Grouped(gs, m) = Places(gs, m)
  BY DEF Grouped
<1>5. ASSUME NEW g \in 1..m, NEW i \in Nat, i \in DOMAIN gs[g].rows
      PROVE  Grouped(gs, m)[<<g, i>>] = gs[g].rows[i]
  BY <1>2, <1>3, <1>5
<1> QED BY <1>1, <1>2, <1>3, <1>4, <1>5

(* The groups new are the groups gs and the row. *)
HasOneMore(new, gs, row) ==
  \E q \in Places(new, Len(new)) :
    /\ Grouped(new, Len(new))[q] = row
    /\ Rearranges(Without(Grouped(new, Len(new)), q), Grouped(gs, Len(gs)))

LEMMA NewGroup ==
  ASSUME NEW S, NEW gs, GroupList(gs, S), NEW key, NEW row \in S, NEW k \in 0..Len(gs),
         NEW new, new = InsertAt(gs, k + 1, [key |-> key, rows |-> <<row>>])
  PROVE  GroupList(new, S) /\ HasOneMore(new, gs, row)
<1> DEFINE n == Len(gs)
           entry == [key |-> key, rows |-> <<row>>]
           w == Without(new, k + 1)
<1>1. n \in Nat /\ DOMAIN gs = 1..n
  BY ListFacts DEF GroupList
<1>2. /\ IsList(new) /\ Len(new) = n + 1 /\ new[k + 1] = entry
      /\ Rearranges(w, gs)
  BY InsertRearranges DEF GroupList
<1>3. DOMAIN new = 1..(n + 1)
  BY <1>2, ListFacts
<1>4. DOMAIN w = DOMAIN new \ {k + 1} /\ \A i \in DOMAIN w : w[i] = new[i]
  BY DEF Without
<1>5. PICK f : Rearranging(f, w, gs)
  BY <1>2 DEF Rearranges
<1>6. \A i \in DOMAIN w : f[i] \in 1..n /\ gs[f[i]] = new[i]
  BY <1>1, <1>4, <1>5 DEF Rearranging
<1>7. k + 1 \in 1..(n + 1)
  BY <1>1
<1>8. entry.rows = <<row>> /\ <<row>> \in Seq(S) /\ DOMAIN <<row>> = {1} /\ <<row>>[1] = row
  OBVIOUS
<1> HIDE DEF n, entry, w
<1>9. GroupList(new, S)
  <2>1. ASSUME NEW g \in DOMAIN new
        PROVE  /\ new[g] = [key |-> new[g].key, rows |-> new[g].rows]
               /\ new[g].rows \in Seq(S)
    <3>1. CASE g = k + 1
      BY <1>2, <1>8, <3>1 DEF entry
    <3>2. CASE g # k + 1
      <4>1. f[g] \in DOMAIN gs /\ gs[f[g]] = new[g]
        BY <1>1, <1>4, <1>6, <3>2
      <4> QED BY <4>1 DEF GroupList
    <3> QED BY <3>1, <3>2
  <2> QED BY <1>2, <2>1 DEF GroupList
<1> DEFINE b == Grouped(new, n + 1)
           a == Grouped(gs, n)
           q == <<k + 1, 1>>
           v == Without(b, q)
           h == [pl \in DOMAIN v |-> <<f[pl[1]], pl[2]>>]
<1>10. DOMAIN b = Places(new, n + 1) /\ DOMAIN a = Places(gs, n)
  BY DEF Grouped
<1>11. q \in DOMAIN b /\ b[q] = row
  BY <1>2, <1>7, <1>8, <1>10 DEF Places, Grouped
<1>12. \A pl : pl \in DOMAIN b /\ pl[1] = k + 1 => pl = q
  BY <1>2, <1>8, <1>10 DEF Places
<1>13. /\ \A pl \in DOMAIN v : /\ pl \in DOMAIN b /\ pl # q /\ v[pl] = b[pl]
                               /\ pl = <<pl[1], pl[2]>> /\ pl[2] \in Nat
                               /\ pl[1] \in DOMAIN w
       /\ \A pl : pl \in DOMAIN b /\ pl # q => pl \in DOMAIN v
  <2>1. DOMAIN v = DOMAIN b \ {q} /\ \A pl \in DOMAIN v : v[pl] = b[pl]
    BY DEF Without
  <2>2. \A pl \in DOMAIN b : pl = <<pl[1], pl[2]>> /\ pl[2] \in Nat /\ pl[1] \in DOMAIN new
    BY <1>1, <1>3, PlaceFacts
  <2> QED BY <1>4, <1>12, <2>1, <2>2
<1> HIDE DEF v, q
<1>14. ASSUME NEW pl \in DOMAIN v PROVE h[pl] \in DOMAIN a /\ a[h[pl]] = v[pl]
  <2>1. f[pl[1]] \in 1..n /\ gs[f[pl[1]]] = new[pl[1]]
    BY <1>6, <1>13
  <2>2. pl[2] \in DOMAIN new[pl[1]].rows /\ b[pl] = new[pl[1]].rows[pl[2]]
    BY <1>10, <1>13 DEF Places, Grouped
  <2> QED BY <1>10, <1>13, <2>1, <2>2 DEF Places, Grouped
<1> HIDE DEF a, b
<1>15. ASSUME NEW i \in DOMAIN v, NEW j \in DOMAIN v, h[i] = h[j] PROVE i = j
  <2>1. f[i[1]] = f[j[1]] /\ i[2] = j[2]
    BY <1>15
  <2>2. i[1] = j[1]
    BY <1>5, <1>13, <2>1 DEF Rearranging
  <2> QED BY <1>13, <2>1, <2>2
<1>16. ASSUME NEW pl \in DOMAIN a PROVE \E i \in DOMAIN v : h[i] = pl
  <2>1. /\ pl = <<pl[1], pl[2]>> /\ pl[1] \in DOMAIN gs /\ pl[2] \in Nat
        /\ pl[2] \in DOMAIN gs[pl[1]].rows
    BY <1>1, <1>10 DEF Places
  <2>2. PICK i \in DOMAIN w : f[i] = pl[1]
    BY <1>5, <2>1 DEF Rearranging
  <2>3. gs[pl[1]] = new[i] /\ i \in 1..(n + 1) /\ i # k + 1
    BY <1>3, <1>4, <1>6, <2>2
  <2>4. <<i, pl[2]>> \in DOMAIN b
    BY <1>10, <2>1, <2>3 DEF Places
  <2>5. <<i, pl[2]>> # q
    BY <2>3 DEF q
  <2> QED BY <1>13, <2>1, <2>2, <2>4, <2>5
<1>17. h \in [DOMAIN v -> DOMAIN a]
  BY <1>14
<1>18. Rearranging(h, v, a)
  <2>1. \A i, j \in DOMAIN v : h[i] = h[j] => i = j
    BY <1>15
  <2>2. \A i \in DOMAIN v : a[h[i]] = v[i]
    BY <1>14
  <2> HIDE DEF h
  <2> QED BY <1>16, <1>17, <2>1, <2>2 DEF Rearranging
<1>19. Rearranges(v, a)
  BY <1>17, <1>18 DEF Rearranges
<1> QED BY <1>2, <1>9, <1>10, <1>11, <1>19 DEF HasOneMore, v, a, b, n

LEMMA LongerGroup ==
  ASSUME NEW S, NEW gs, GroupList(gs, S), NEW row \in S, NEW k \in DOMAIN gs,
         NEW new, new = [gs EXCEPT ![k].rows = Append(@, row)]
  PROVE  GroupList(new, S) /\ HasOneMore(new, gs, row)
<1> DEFINE n == Len(gs)
           m == Len(gs[k].rows) + 1
           q == <<k, m>>
<1>1. n \in Nat /\ DOMAIN gs = 1..n /\ IsList(gs)
  BY ListFacts DEF GroupList
<1>2. /\ gs[k] = [key |-> gs[k].key, rows |-> gs[k].rows]
      /\ gs[k].rows \in Seq(S)
  BY DEF GroupList
<1>3. /\ new[k] = [key |-> gs[k].key, rows |-> Append(gs[k].rows, row)]
      /\ \A g \in DOMAIN gs : g # k => new[g] = gs[g]
      /\ DOMAIN new = DOMAIN gs
      /\ new = [g \in 1..n |-> new[g]]
  BY <1>1, <1>2
<1>4. /\ Append(gs[k].rows, row) \in Seq(S) /\ m \in Nat \ {0}
      /\ DOMAIN gs[k].rows = 1..(m - 1)
      /\ DOMAIN Append(gs[k].rows, row) = 1..m /\ Append(gs[k].rows, row)[m] = row
      /\ \A i \in 1..(m - 1) : Append(gs[k].rows, row)[i] = gs[k].rows[i]
  BY <1>2
<1>5. new[k].rows = Append(gs[k].rows, row)
  BY <1>3
<1>6. GroupList(new, S)
  <2>1. IsList(new)
    BY <1>1, <1>3 DEF IsList
  <2>2. ASSUME NEW g \in DOMAIN new
        PROVE  /\ new[g] = [key |-> new[g].key, rows |-> new[g].rows]
               /\ new[g].rows \in Seq(S)
    <3>1. CASE g = k
      BY <1>3, <1>4, <3>1
    <3>2. CASE g # k
      BY <1>3, <3>2 DEF GroupList
    <3> QED BY <3>1, <3>2
  <2> QED BY <2>1, <2>2 DEF GroupList
<1>7. Len(new) = n
  <2>1. DOMAIN new = 1..Len(new) /\ Len(new) \in Nat
    BY <1>6, ListFacts DEF GroupList
  <2> QED BY <1>1, <1>3, <2>1
<1> HIDE DEF n, m
<1> DEFINE b == Grouped(new, n)
           a == Grouped(gs, n)
<1>8. DOMAIN b = Places(new, n) /\ DOMAIN a = Places(gs, n)
  BY DEF Grouped
<1>9. q \in DOMAIN b /\ b[q] = row
  BY <1>1, <1>4, <1>5, <1>8 DEF Places, Grouped
<1>10. ASSUME NEW pl
       PROVE  pl \in DOMAIN b /\ pl # q <=> pl \in DOMAIN a
  <2>1. CASE ~(pl \in (1..n) \X Nat)
    BY <1>8, <2>1 DEF Places
  <2>2. CASE pl \in (1..n) \X Nat
    <3>1. pl = <<pl[1], pl[2]>> /\ pl[1] \in DOMAIN gs /\ pl[2] \in Nat
      BY <1>1, <2>2
    <3>2. /\ pl \in DOMAIN b <=> pl[2] \in DOMAIN new[pl[1]].rows
          /\ pl \in DOMAIN a <=> pl[2] \in DOMAIN gs[pl[1]].rows
      BY <1>8, <2>2 DEF Places
    <3>3. CASE pl[1] # k
      BY <1>3, <3>1, <3>2, <3>3
    <3>4. CASE pl[1] = k
      <4>1. pl = q <=> pl[2] = m
        BY <3>1, <3>4
      <4>2. /\ pl \in DOMAIN b <=> pl[2] \in 1..m
            /\ pl \in DOMAIN a <=> pl[2] \in 1..(m - 1)
        BY <1>4, <1>5, <3>2, <3>4
      <4> HIDE DEF a, b, q
      <4> QED BY <1>4, <3>1, <4>1, <4>2
    <3> QED BY <3>3, <3>4
  <2> QED BY <2>1, <2>2
<1>11. ASSUME NEW pl \in DOMAIN a PROVE b[pl] = a[pl]
  <2>1. /\ pl = <<pl[1], pl[2]>> /\ pl[1] \in DOMAIN gs /\ pl[2] \in DOMAIN gs[pl[1]].rows
        /\ a[pl] = gs[pl[1]].rows[pl[2]]
    BY <1>1, <1>8 DEF Places, Grouped
  <2>2. b[pl] = new[pl[1]].rows[pl[2]]
    BY <1>8, <1>10 DEF Grouped
  <2>3. CASE pl[1] # k
    BY <1>3, <2>1, <2>2, <2>3
  <2>4. CASE pl[1] = k
    BY <1>4, <1>5, <2>1, <2>2, <2>4
  <2> QED BY <2>3, <2>4
<1>12. Without(b, q) = a
  <2>1. DOMAIN b \ {q} = DOMAIN a
    BY <1>10
  <2>2. a = [pl \in DOMAIN a |-> a[pl]]
    BY DEF Grouped
  <2> HIDE DEF a, b, q
  <2> QED BY <1>11, <2>1, <2>2 DEF Without
<1>13. Rearranges(Without(b, q), a)
  BY <1>12, RearrangesItself
<1> HIDE DEF q
<1> QED BY <1>6, <1>7, <1>8, <1>9, <1>13 DEF HasOneMore, n

LEMMA GroupGrows ==
  ASSUME NEW S, NEW gs, GroupList(gs, S), NEW key, NEW row \in S
  PROVE  /\ GroupList(AddToGroup(gs, key, row), S)
         /\ HasOneMore(AddToGroup(gs, key, row), gs, row)
<1> DEFINE same == {i \in DOMAIN gs : SameKeyOf(key, gs[i].key)}
           before == {i \in DOMAIN gs : TupleLess(gs[i].key, key)}
<1>1. Len(gs) \in Nat /\ DOMAIN gs = 1..Len(gs)
  BY ListFacts DEF GroupList
<1>2. CASE same # {}
  <2>1. same \in SUBSET (1..Len(gs))
    BY <1>1
  <2>2. First(same) \in DOMAIN gs
    BY <1>1, <1>2, <2>1, FirstOf
  <2>3. AddToGroup(gs, key, row) = [gs EXCEPT ![First(same)].rows = Append(@, row)]
    BY <1>2 DEF AddToGroup
  <2> QED BY <2>2, <2>3, LongerGroup
<1>3. CASE same = {}
  <2>1. before \in SUBSET (1..Len(gs))
    BY <1>1
  <2>2. Cardinality(before) \in 0..Len(gs)
    BY <1>1, <2>1, CountsOfPlaces
  <2>3. AddToGroup(gs, key, row) =
          InsertAt(gs, Cardinality(before) + 1, [key |-> key, rows |-> <<row>>])
    BY <1>3 DEF AddToGroup
  <2> QED BY <2>2, <2>3, NewGroup
<1> QED BY <1>2, <1>3

(***************************************************************************)
(* The selected rows                                                       *)
(***************************************************************************)
SourcesOf(rs) == [i \in DOMAIN rs |-> rs[i].source]

LEMMA ListsJoined ==
  ASSUME NEW s, IsList(s), NEW t, IsList(t)
  PROVE  /\ IsList(s \o t) /\ Len(s \o t) = Len(s) + Len(t)
         /\ \A i \in 1..Len(s) : (s \o t)[i] = s[i]
         /\ \A i \in (Len(s) + 1)..(Len(s) + Len(t)) : (s \o t)[i] = t[i - Len(s)]
<1> DEFINE S == {s[i] : i \in DOMAIN s} \cup {t[i] : i \in DOMAIN t}
           u == s \o t
<1>1. s \in Seq(S) /\ t \in Seq(S) /\ Len(s) \in Nat /\ Len(t) \in Nat
  BY ListFacts
<1> HIDE DEF S
<1>2. /\ u \in Seq(S) /\ Len(u) = Len(s) + Len(t)
      /\ \A i \in 1..(Len(s) + Len(t)) :
           u[i] = IF i <= Len(s) THEN s[i] ELSE t[i - Len(s)]
  BY <1>1, ConcatProperties
<1>3. IsList(u)
  BY <1>2, SequenceIsList
<1> HIDE DEF u
<1>4. ASSUME NEW m \in Nat, m = Len(s), NEW n \in Nat, n = Len(t)
      PROVE  /\ \A i \in 1..m : u[i] = s[i]
             /\ \A i \in (m + 1)..(m + n) : u[i] = t[i - m]
  BY <1>2, <1>4
<1> QED BY <1>1, <1>2, <1>3, <1>4 DEF u

\* The rows selected of one group more
LEMMA GroupIsSelected ==
  ASSUME NEW S, NEW gs, GroupList(gs, S), NEW m \in Nat, m < Len(gs),
         NEW rs, IsList(rs), Rearranges(SourcesOf(rs), Grouped(gs, m)),
         NEW new, IsList(new), DOMAIN new = DOMAIN gs[m + 1].rows,
         \A i \in DOMAIN new : new[i].source = gs[m + 1].rows[i]
  PROVE  Rearranges(SourcesOf(rs \o new), Grouped(gs, m + 1))
<1> DEFINE all == rs \o new
           p == Len(rs)
           n == Len(new)
           a == Grouped(gs, m + 1)
           a1 == Grouped(gs, m)
           a2 == [pl \in {x \in Places(gs, m + 1) : x[1] = m + 1} |-> a[pl]]
           b == SourcesOf(all)
           b1 == SourcesOf(rs)
           b2 == [i \in (p + 1)..(p + n) |-> all[i].source]
           f == [i \in (p + 1)..(p + n) |-> <<m + 1, i - p>>]
<1>1. /\ p \in Nat /\ n \in Nat /\ DOMAIN rs = 1..p /\ DOMAIN new = 1..n
      /\ DOMAIN gs[m + 1].rows = 1..n
  BY ListFacts
<1>2. /\ IsList(all) /\ Len(all) = p + n
      /\ \A i \in 1..p : all[i] = rs[i]
      /\ \A i \in (p + 1)..(p + n) : all[i] = new[i - p]
  BY ListsJoined
<1>3. DOMAIN all = 1..(p + n)
  BY <1>2, ListFacts
<1> HIDE DEF all, p, n
<1>4. /\ DOMAIN b = DOMAIN all /\ \A i \in DOMAIN b : b[i] = all[i].source
      /\ DOMAIN b1 = DOMAIN rs /\ \A i \in DOMAIN b1 : b1[i] = rs[i].source
      /\ DOMAIN b2 = (p + 1)..(p + n) /\ \A i \in DOMAIN b2 : b2[i] = all[i].source
  BY DEF SourcesOf
<1>5. /\ DOMAIN b = DOMAIN b1 \cup DOMAIN b2 /\ DOMAIN b1 \cap DOMAIN b2 = {}
  BY <1>1, <1>3, <1>4
<1>6. /\ \A i \in DOMAIN b1 : b[i] = b1[i]
      /\ \A i \in DOMAIN b2 : b[i] = b2[i]
  BY <1>1, <1>2, <1>4, <1>5
<1>7. m + 1 \in Nat /\ DOMAIN a = Places(gs, m + 1) /\ DOMAIN a1 = Places(gs, m)
  BY PlaceFacts
<1>8. ASSUME NEW pl
      PROVE  pl \in DOMAIN a1 <=> pl \in DOMAIN a /\ pl[1] # m + 1
  <2>1. pl \in (1..m) \X Nat <=> pl \in (1..(m + 1)) \X Nat /\ pl[1] # m + 1
    OBVIOUS
  <2> QED BY <1>7, <2>1, Zenon DEF Places
<1>9. DOMAIN a2 = {x \in DOMAIN a : x[1] = m + 1}
  BY <1>7
<1>10. DOMAIN a = DOMAIN a1 \cup DOMAIN a2 /\ DOMAIN a1 \cap DOMAIN a2 = {}
  BY <1>8, <1>9
<1>11. /\ \A pl \in DOMAIN a1 : a[pl] = a1[pl]
       /\ \A pl \in DOMAIN a2 : a[pl] = a2[pl]
  <2>1. \A pl \in DOMAIN a2 : a[pl] = a2[pl]
    BY <1>7
  <2>2. ASSUME NEW pl \in DOMAIN a1 PROVE a[pl] = a1[pl]
    <3>1. pl \in Places(gs, m) /\ pl \in Places(gs, m + 1)
      BY <1>7, <1>8
    <3> QED BY <1>7, <3>1, PlaceFacts
  <2> QED BY <2>1, <2>2
<1>12. \A i \in 1..n : <<m + 1, i>> \in Places(gs, m + 1) /\ a[<<m + 1, i>>] = gs[m + 1].rows[i]
  BY <1>1, <1>7, PlaceFacts
<1>13. ASSUME NEW i \in DOMAIN b2
       PROVE  f[i] \in DOMAIN a2 /\ a2[f[i]] = b2[i]
  <2>1. i - p \in 1..n /\ f[i] = <<m + 1, i - p>> /\ <<m + 1, i - p>>[1] = m + 1
    BY <1>1, <1>4
  <2>2. all[i] = new[i - p]
    BY <1>2, <1>4
  <2>3. f[i] \in DOMAIN a2
    BY <1>7, <1>9, <1>12, <2>1
  <2> QED BY <1>1, <1>4, <1>11, <1>12, <2>1, <2>2, <2>3
<1>14. f \in [DOMAIN b2 -> DOMAIN a2]
  BY <1>4, <1>13
<1>15. ASSUME NEW i \in DOMAIN b2, NEW j \in DOMAIN b2, f[i] = f[j] PROVE i = j
  <2>1. i \in (p + 1)..(p + n) /\ j \in (p + 1)..(p + n)
    BY <1>4
  <2>2. <<m + 1, i - p>> = <<m + 1, j - p>>
    BY <1>15, <2>1
  <2>3. i - p = j - p
    BY <2>2
  <2> QED BY <1>1, <2>1, <2>3
<1>16. ASSUME NEW pl \in DOMAIN a2 PROVE \E i \in DOMAIN b2 : f[i] = pl
  <2>1. pl \in Places(gs, m + 1) /\ pl[1] = m + 1
    BY <1>7, <1>9
  <2>2. pl = <<m + 1, pl[2]>> /\ pl[2] \in 1..n
    BY <1>1, <1>7, <2>1, PlaceFacts
  <2>3. p + pl[2] \in (p + 1)..(p + n) /\ (p + pl[2]) - p = pl[2]
    BY <1>1, <2>2
  <2>4. f[p + pl[2]] = pl
    BY <2>2, <2>3
  <2> QED BY <1>4, <2>3, <2>4
<1>17. Rearranging(f, b2, a2)
  <2>1. \A i \in DOMAIN b2 : a2[f[i]] = b2[i]
    BY <1>13
  <2>2. \A i, j \in DOMAIN b2 : f[i] = f[j] => i = j
    BY <1>15
  <2> HIDE DEF f, a2, b2
  <2> QED BY <1>14, <1>16, <2>1, <2>2 DEF Rearranging
<1>18. Rearranges(b2, a2) /\ Rearranges(b1, a1)
  BY <1>14, <1>17 DEF Rearranges
<1> HIDE DEF a, a1, a2, b, b1, b2, f
<1>19. Rearranges(b, a)
  BY <1>5, <1>6, <1>10, <1>11, <1>18, RearrangesTogether
<1> QED BY <1>19 DEF a, b, all

-----------------------------------------------------------------------------
(***************************************************************************)
(* The invariant of SELECT without groups: the rows of the relation that   *)
(* passed WHERE so far are at as many places of the groups, and those of   *)
(* the groups evaluated so far are the sources of as many selected rows.   *)
(***************************************************************************)
TableRows == ToSet(relation.rows)
RowCount == Len(relation.rows)
Wanted(n) == [i \in {j \in 1..n : Included(relation.rows[j]) = Yes} |-> relation.rows[i]]

Collected(n, gs) ==
  /\ n \in 0..RowCount
  /\ GroupList(gs, TableRows)
  /\ Rearranges(Grouped(gs, Len(gs)), Wanted(n))

Chosen(rs) ==
  /\ IsList(rs)
  /\ \A i \in DOMAIN rs :
       /\ rs[i].source \in TableRows
       /\ query.columns = <<>> =>
            /\ rs[i].tuple \in Seq(Values)
            /\ rs[i].tuple = [c \in DOMAIN relation.columns |-> rs[i].source[c]]

SelectedSoFar(n, gs, rs) ==
  /\ Collected(RowCount, gs)
  /\ n \in 0..Len(gs)
  /\ Chosen(rs)
  /\ Rearranges(SourcesOf(rs), Grouped(gs, n))

(* DISTINCT of all columns, of rows that are equal only to themselves *)
Unduplicated == query.distinct /\ query.columns = <<>> /\ RowsAreToldApart

DistinctSoFar(n, rs) ==
  /\ n \in 0..Len(rs)
  /\ Chosen(rs)
  /\ ~query.distinct => Rearranges(SourcesOf(rs), Wanted(RowCount))
  /\ Unduplicated =>
       /\ \A i \in DOMAIN rs : Included(rs[i].source) = Yes
       /\ \A x \in TableRows : Included(x) = Yes => \E i \in DOMAIN rs : rs[i].source = x
       /\ \A i, j \in 1..n : rs[i].source = rs[j].source => i = j

Answer(rs) ==
  /\ IsList(rs)
  /\ \A x \in TableRows :
       /\ ~query.distinct => Occurring(SourcesOf(rs), x) = Passing(x)
       /\ Unduplicated => Occurring(SourcesOf(rs), x) = Smaller(1, Passing(x))

(* What the rows are, clause by clause *)
ClauseInv ==
  /\ stage = "from" => at = 0 /\ groups = <<>> /\ rows = <<>>
  /\ Plain =>
       /\ stage # "group"
       /\ stage = "collect" => rows = <<>> /\ Collected(at, groups)
       /\ stage = "select" => SelectedSoFar(at, groups, rows)
       /\ stage = "distinct" => DistinctSoFar(at, rows)
       /\ stage = "order" => at \in Nat /\ Answer(rows)
       /\ stage \in {"union", "value", "table", "done"} => Answer(rows)

SelectInv ==
  /\ JoinInv
  /\ query.use.as \in {"done", "union", "value", "table"}
  /\ ClauseInv

\* All of it is about one relation and one statement.
LEMMA SameStatement ==
  ASSUME UNCHANGED <<from, query, relation>>
  PROVE  /\ Plain' <=> Plain
         /\ \A n, gs : Collected(n, gs)' <=> Collected(n, gs)
         /\ \A n, gs, rs : SelectedSoFar(n, gs, rs)' <=> SelectedSoFar(n, gs, rs)
         /\ \A n, rs : DistinctSoFar(n, rs)' <=> DistinctSoFar(n, rs)
         /\ \A rs : Answer(rs)' <=> Answer(rs)
<1>1. Plain' <=> Plain
  BY DEF Plain, ShouldGroup, HasAggregate, Columns
<1>2. \A x : Included(x)' = Included(x)
  BY DEF Included, Frame, Columns
<1>3. TableRows' = TableRows /\ RowCount' = RowCount
  BY DEF TableRows, RowCount
<1>4. \A n : Wanted(n)' = Wanted(n)
  BY <1>2 DEF Wanted
<1>5. \A n, gs : Collected(n, gs)' <=> Collected(n, gs)
  BY <1>3, <1>4 DEF Collected
<1>6. \A rs : Chosen(rs)' <=> Chosen(rs)
  BY <1>3 DEF Chosen
<1>7. \A n, gs, rs : SelectedSoFar(n, gs, rs)' <=> SelectedSoFar(n, gs, rs)
  BY <1>3, <1>5, <1>6 DEF SelectedSoFar
<1>8. Unduplicated' <=> Unduplicated
  BY DEF Unduplicated, RowsAreToldApart
<1>9. \A n, rs : DistinctSoFar(n, rs)' <=> DistinctSoFar(n, rs)
  BY <1>2, <1>3, <1>4, <1>6, <1>8 DEF DistinctSoFar
<1>10. \A x : Passing(x)' = Passing(x)
  BY <1>2 DEF Passing
<1>11. \A rs : Answer(rs)' <=> Answer(rs)
  BY <1>3, <1>8, <1>10 DEF Answer
<1> QED BY <1>1, <1>5, <1>7, <1>9, <1>11

LEMMA TableFacts ==
  ASSUME JoinInv
  PROVE  /\ RowCount \in Nat /\ DOMAIN relation.rows = 1..RowCount
         /\ \A i \in 1..RowCount : relation.rows[i] \in TableRows
         /\ \A x \in TableRows : x \in Seq(Values) /\ \E i \in 1..RowCount : relation.rows[i] = x
         /\ IsList(relation.columns)
<1>1. relation.rows \in Seq(Seq(Values)) /\ relation.columns \in Seq(STRING)
  BY DEF JoinInv, Relations
<1>2. IsList(relation.columns)
  BY <1>1, SequenceIsList
<1> QED BY <1>1, <1>2 DEF TableRows, RowCount, ToSet

-----------------------------------------------------------------------------
(***************************************************************************)
(* WHERE                                                                   *)
(***************************************************************************)
LEMMA NothingCollected ==
  ASSUME JoinInv
  PROVE  Collected(0, <<>>)
<1> DEFINE b == Grouped(<<>>, 0)
           a == Wanted(0)
<1>1. GroupList(<<>>, TableRows) /\ Len(<<>>) = 0
  BY DEF GroupList, IsList
<1>2. DOMAIN b = {} /\ DOMAIN a = {}
  BY DEF Grouped, Places, Wanted
<1>3. b = a
  BY DEF Grouped, Places, Wanted
<1>4. Rearranges(b, a)
  BY <1>3, RearrangesItself
<1>5. 0 \in 0..RowCount
  BY TableFacts
<1> QED BY <1>1, <1>4, <1>5 DEF Collected

LEMMA RowIsCollected ==
  ASSUME JoinInv, NEW n, n < RowCount, NEW gs, Collected(n, gs),
         NEW row, row = relation.rows[n + 1]
  PROVE  /\ Included(row) # Yes => Collected(n + 1, gs)
         /\ Included(row) = Yes => \A key : Collected(n + 1, AddToGroup(gs, key, row))
<1>1. n \in Nat /\ n + 1 \in 0..RowCount /\ n + 1 \in 1..RowCount
  BY TableFacts DEF Collected
<1>2. GroupList(gs, TableRows) /\ Rearranges(Grouped(gs, Len(gs)), Wanted(n))
  BY DEF Collected
<1>3. row \in TableRows
  BY <1>1, TableFacts
<1> DEFINE a == Wanted(n + 1)
<1>4. /\ DOMAIN a = {j \in 1..(n + 1) : Included(relation.rows[j]) = Yes}
      /\ \A i \in DOMAIN a : a[i] = relation.rows[i]
      /\ DOMAIN Wanted(n) = {j \in 1..n : Included(relation.rows[j]) = Yes}
  BY DEF Wanted
<1>5. CASE Included(row) # Yes
  <2>1. DOMAIN Wanted(n) = DOMAIN a
    BY <1>1, <1>4, <1>5
  <2>2. Wanted(n) = a
    BY <2>1, <1>4 DEF Wanted
  <2> QED BY <1>1, <1>2, <1>5, <2>2 DEF Collected
<1>6. ASSUME Included(row) = Yes, NEW key
      PROVE  Collected(n + 1, AddToGroup(gs, key, row))
  <2> DEFINE new == AddToGroup(gs, key, row)
             b == Grouped(new, Len(new))
  <2>1. GroupList(new, TableRows) /\ HasOneMore(new, gs, row)
    BY <1>2, <1>3, GroupGrows
  <2> HIDE DEF new
  <2>2. PICK q \in Places(new, Len(new)) :
          b[q] = row /\ Rearranges(Without(b, q), Grouped(gs, Len(gs)))
    BY <2>1 DEF HasOneMore
  <2>3. q \in DOMAIN b
    BY DEF Grouped
  <2>4. n + 1 \in DOMAIN a /\ a[n + 1] = row
    BY <1>1, <1>4, <1>6
  <2>5. Without(a, n + 1) = Wanted(n)
    <3>1. DOMAIN a \ {n + 1} = DOMAIN Wanted(n)
      BY <1>1, <1>4
    <3> QED BY <3>1, <1>4 DEF Without, Wanted
  <2> HIDE DEF a, b
  <2>6. Rearranges(Without(b, q), Without(a, n + 1))
    BY <1>2, <2>2, <2>5, RearrangesOnwards
  <2>7. Rearranges(b, a)
    BY <2>2, <2>3, <2>4, <2>6, RearrangesWith
  <2> QED BY <1>1, <2>1, <2>7 DEF Collected, a, b, new
<1> QED BY <1>5, <1>6

-----------------------------------------------------------------------------
(***************************************************************************)
(* The columns                                                             *)
(***************************************************************************)
LEMMA NoErrorInside ==
  ASSUME NEW values, IsList(values), ~IsError(FirstError(values)), NEW i \in DOMAIN values
  PROVE  ~IsError(values[i])
<1> SUFFICES ASSUME IsError(values[i]) PROVE FALSE
  OBVIOUS
<1> DEFINE failed == {k \in DOMAIN values : IsError(values[k])}
<1>1. failed \in SUBSET (1..Len(values)) /\ Len(values) \in Nat /\ failed # {}
  BY ListFacts
<1>2. First(failed) \in failed
  BY <1>1, FirstOf
<1>3. FirstError(values) = values[First(failed)]
  BY <1>1 DEF FirstError
<1> QED BY <1>2, <1>3

LEMMA StarHasColumns ==
  ASSUME JoinInv, query.columns = <<>>
  PROVE  /\ DOMAIN Columns = DOMAIN relation.columns
         /\ \A i \in DOMAIN relation.columns : Columns[i].column = Index(i)
         /\ IsList(Columns)
<1> DEFINE It(i) == [alias |-> "", text |-> relation.columns[i], column |-> Index(i)]
           all == [i \in DOMAIN relation.columns |-> It(i)]
<1>0. \A i : It(i).column = Index(i)
  OBVIOUS
<1>1. DOMAIN relation.columns = 1..Len(relation.columns) /\ Len(relation.columns) \in Nat
  BY TableFacts, ListFacts
<1>2. /\ DOMAIN all = DOMAIN relation.columns
      /\ \A i \in DOMAIN relation.columns : all[i].column = Index(i)
      /\ all = [i \in DOMAIN relation.columns |-> all[i]]
  <2> HIDE DEF It
  <2>1. DOMAIN all = DOMAIN relation.columns
    OBVIOUS
  <2>2. ASSUME NEW i \in DOMAIN relation.columns PROVE all[i].column = Index(i)
    BY <1>0
  <2>3. all = [i \in DOMAIN relation.columns |-> all[i]]
    OBVIOUS
  <2> HIDE DEF all
  <2> QED BY <2>1, <2>2, <2>3
<1>3. Columns = Once(all)
  BY DEF Columns
<1> HIDE DEF all
<1>4. IsList(all)
  BY <1>1, <1>2 DEF IsList
<1>5. Columns = all
  BY <1>3, <1>4, OnceIsSame
<1> QED BY <1>2, <1>4, <1>5

\* SELECT * gives the columns of the row, if it gives no error.
LEMMA StarIsTheRow ==
  ASSUME JoinInv, query.columns = <<>>, NEW row \in TableRows, NEW group,
         ~IsError(FirstError(SelectedRow(row, group).tuple))
  PROVE  /\ SelectedRow(row, group).tuple = [c \in DOMAIN relation.columns |-> row[c]]
         /\ SelectedRow(row, group).tuple \in Seq(Values)
<1> DEFINE frame == Frame(row, row, group.rows, TRUE)
           values == [i \in DOMAIN Columns |-> Evaluated(Columns[i].column, frame)]
<1>1. /\ IsList(relation.columns) /\ Len(relation.columns) \in Nat
      /\ DOMAIN relation.columns = 1..Len(relation.columns) /\ row \in Seq(Values)
  BY TableFacts, ListFacts
<1>2. /\ DOMAIN Columns = DOMAIN relation.columns
      /\ \A i \in DOMAIN relation.columns : Columns[i].column = Index(i)
  BY StarHasColumns
<1>3. IsList(values)
  BY <1>1, <1>2 DEF IsList
<1>4. SelectedRow(row, group).tuple = values
  BY <1>3, OnceIsSame DEF SelectedRow
<1>5. ASSUME NEW i \in DOMAIN values
      PROVE  values[i] = row[i] /\ values[i] \in Values
  <2>1. values[i] = Evaluated(Index(i), frame)
    BY <1>2
  <2>2. Index(i).op = "index" /\ Index(i).index = i /\ frame.row = row
    BY DEF Index, Frame
  <2>3. values[i] = AtIndex(i, frame)
    BY <2>1, <2>2 DEF Evaluated
  <2>4. values[i] = IF i \in DOMAIN row THEN row[i] ELSE Error
    BY <2>2, <2>3 DEF AtIndex
  <2>5. ~IsError(values[i])
    BY <1>3, <1>4, NoErrorInside
  <2>6. IsError(Error)
    BY DEF IsError, Error
  <2>7. i \in DOMAIN row
    BY <2>4, <2>5, <2>6, Zenon
  <2>8. row[i] \in Values
    BY <1>1, <2>7
  <2>9. values[i] = row[i]
    BY <2>4, <2>7, Zenon
  <2> QED BY <2>8, <2>9, Zenon
<1>6. values \in Seq(Values)
  BY <1>3, <1>5, ListFacts
<1>7. values = [c \in DOMAIN relation.columns |-> row[c]]
  <2>1. values = [c \in DOMAIN Columns |-> values[c]] /\ DOMAIN values = DOMAIN Columns
    OBVIOUS
  <2> HIDE DEF values
  <2> QED BY <1>2, <1>5, <2>1
<1> QED BY <1>4, <1>6, <1>7

LEMMA NothingSelected ==
  ASSUME JoinInv, NEW gs, Collected(RowCount, gs)
  PROVE  SelectedSoFar(0, gs, <<>>)
<1> DEFINE b == SourcesOf(<<>>)
           a == Grouped(gs, 0)
<1>1. Chosen(<<>>)
  BY DEF Chosen, IsList
<1>2. b = a
  BY DEF SourcesOf, Grouped, Places
<1>3. Rearranges(b, a)
  BY <1>2, RearrangesItself
<1>4. 0 \in 0..Len(gs)
  BY ListFacts DEF Collected, GroupList
<1> QED BY <1>1, <1>3, <1>4 DEF SelectedSoFar

LEMMA ChosenTogether ==
  ASSUME NEW s, Chosen(s), NEW t, Chosen(t)
  PROVE  Chosen(s \o t)
<1> DEFINE u == s \o t
<1>1. /\ IsList(u) /\ Len(u) = Len(s) + Len(t)
      /\ \A i \in 1..Len(s) : u[i] = s[i]
      /\ \A i \in (Len(s) + 1)..(Len(s) + Len(t)) : u[i] = t[i - Len(s)]
  BY ListsJoined DEF Chosen
<1>2. /\ Len(s) \in Nat /\ Len(t) \in Nat /\ DOMAIN u = 1..Len(u)
      /\ DOMAIN s = 1..Len(s) /\ DOMAIN t = 1..Len(t)
  BY <1>1, ListFacts DEF Chosen
<1> HIDE DEF u
<1>3. ASSUME NEW m \in Nat, m = Len(s), NEW n \in Nat, n = Len(t), NEW i \in DOMAIN u
      PROVE  (\E j \in DOMAIN s : u[i] = s[j]) \/ (\E j \in DOMAIN t : u[i] = t[j])
  <2>1. i \in 1..(m + n)
    BY <1>1, <1>2, <1>3
  <2>2. CASE i \in 1..m
    BY <1>1, <1>2, <1>3, <2>2
  <2>3. CASE i \in (m + 1)..(m + n)
    <3>1. i - m \in 1..n
      BY <2>3
    <3> QED BY <1>1, <1>2, <1>3, <2>3, <3>1
  <2> QED BY <2>1, <2>2, <2>3
<1>4. \A i \in DOMAIN u :
        (\E j \in DOMAIN s : u[i] = s[j]) \/ (\E j \in DOMAIN t : u[i] = t[j])
  BY <1>2, <1>3, Zenon
<1>5. ASSUME NEW i \in DOMAIN u
      PROVE  /\ u[i].source \in TableRows
             /\ query.columns = <<>> =>
                  /\ u[i].tuple \in Seq(Values)
                  /\ u[i].tuple = [c \in DOMAIN relation.columns |-> u[i].source[c]]
  <2>1. CASE \E j \in DOMAIN s : u[i] = s[j]
    BY <2>1 DEF Chosen
  <2>2. CASE \E j \in DOMAIN t : u[i] = t[j]
    BY <2>2 DEF Chosen
  <2> QED BY <1>4, <2>1, <2>2
<1> QED BY <1>1, <1>5 DEF Chosen, u

LEMMA RowsAreSelected ==
  ASSUME JoinInv, NEW gs, NEW n, n < Len(gs), NEW rs, SelectedSoFar(n, gs, rs),
         NEW new, new = Once([r \in DOMAIN gs[n + 1].rows |->
                                SelectedRow(gs[n + 1].rows[r], gs[n + 1])]),
         {r \in DOMAIN new : IsError(FirstError(new[r].tuple))} = {}
  PROVE  SelectedSoFar(n + 1, gs, rs \o new)
<1> DEFINE g == gs[n + 1]
           list == [r \in DOMAIN g.rows |-> SelectedRow(g.rows[r], g)]
<1>1. /\ GroupList(gs, TableRows) /\ IsList(gs) /\ IsList(rs) /\ Chosen(rs)
      /\ Rearranges(SourcesOf(rs), Grouped(gs, n))
  BY DEF SelectedSoFar, Collected, GroupList, Chosen
<1>2. /\ Len(gs) \in Nat /\ DOMAIN gs = 1..Len(gs) /\ n \in Nat /\ n + 1 \in 0..Len(gs)
      /\ n + 1 \in DOMAIN gs
  BY <1>1, ListFacts DEF SelectedSoFar
<1>3. g.rows \in Seq(TableRows)
  BY <1>1, <1>2 DEF GroupList
<1> HIDE DEF g
<1>4. IsList(list)
  BY <1>3 DEF IsList
<1>5. new = list
  BY <1>4, OnceIsSame DEF g
<1>6. IsList(new) /\ DOMAIN new = DOMAIN g.rows
  BY <1>4, <1>5
<1>7. ASSUME NEW r \in DOMAIN new
      PROVE  /\ g.rows[r] \in TableRows /\ new[r] = SelectedRow(g.rows[r], g)
             /\ new[r].source = g.rows[r]
             /\ ~IsError(FirstError(new[r].tuple))
  <2>1. new[r] = SelectedRow(g.rows[r], g)
    BY <1>5, <1>6
  <2>2. new[r].source = g.rows[r]
    BY <2>1 DEF SelectedRow
  <2> QED BY <1>3, <1>6, <2>1, <2>2
<1>8. Chosen(new)
  <2>1. ASSUME NEW r \in DOMAIN new, query.columns = <<>>
        PROVE  /\ new[r].tuple \in Seq(Values)
               /\ new[r].tuple = [c \in DOMAIN relation.columns |-> new[r].source[c]]
    BY <1>7, <2>1, StarIsTheRow
  <2> QED BY <1>6, <1>7, <2>1 DEF Chosen
<1>9. Rearranges(SourcesOf(rs \o new), Grouped(gs, n + 1))
  <2>1. \A i \in DOMAIN new : new[i].source = gs[n + 1].rows[i]
    BY <1>7 DEF g
  <2>2. DOMAIN new = DOMAIN gs[n + 1].rows
    BY <1>6 DEF g
  <2> QED BY <1>1, <1>2, <1>6, <2>1, <2>2, GroupIsSelected
<1>10. Chosen(rs \o new)
  BY <1>1, <1>8, ChosenTogether
<1> QED BY <1>2, <1>9, <1>10 DEF SelectedSoFar

-----------------------------------------------------------------------------
(***************************************************************************)
(* DISTINCT                                                                *)
(***************************************************************************)
LEMMA WantedFacts ==
  ASSUME JoinInv
  PROVE  /\ \A i \in DOMAIN Wanted(RowCount) :
              /\ i \in 1..RowCount /\ Wanted(RowCount)[i] = relation.rows[i]
              /\ Included(relation.rows[i]) = Yes
         /\ \A i \in 1..RowCount :
              Included(relation.rows[i]) = Yes => i \in DOMAIN Wanted(RowCount)
BY DEF Wanted

LEMMA SelectionEnds ==
  ASSUME JoinInv, NEW gs, NEW rs, SelectedSoFar(Len(gs), gs, rs)
  PROVE  DistinctSoFar(0, rs)
<1> DEFINE b == SourcesOf(rs)
           a == Wanted(RowCount)
<1>1. Rearranges(b, Grouped(gs, Len(gs))) /\ Rearranges(Grouped(gs, Len(gs)), a)
      /\ Chosen(rs)
  BY DEF SelectedSoFar, Collected
<1>2. Rearranges(b, a)
  BY <1>1, RearrangesOnwards
<1>3. PICK f : Rearranging(f, b, a)
  BY <1>2 DEF Rearranges
<1>4. DOMAIN b = DOMAIN rs /\ \A i \in DOMAIN rs : b[i] = rs[i].source
  BY DEF SourcesOf
<1> HIDE DEF a, b
<1>5. \A i \in DOMAIN rs : f[i] \in DOMAIN a /\ rs[i].source = a[f[i]]
  BY <1>3, <1>4 DEF Rearranging
<1>6. ASSUME NEW i \in DOMAIN rs PROVE Included(rs[i].source) = Yes
  BY <1>5, WantedFacts DEF a
<1>7. ASSUME NEW x \in TableRows, Included(x) = Yes
      PROVE  \E i \in DOMAIN rs : rs[i].source = x
  <2>1. PICK k \in 1..RowCount : relation.rows[k] = x
    BY TableFacts
  <2>2. k \in DOMAIN a /\ a[k] = x
    BY <1>7, <2>1, WantedFacts DEF a
  <2>3. PICK i \in DOMAIN rs : f[i] = k
    BY <1>3, <1>4, <2>2 DEF Rearranging
  <2> QED BY <1>5, <2>2, <2>3
<1>8. 0 \in 0..Len(rs)
  BY <1>1, ListFacts DEF Chosen
<1> QED BY <1>1, <1>2, <1>6, <1>7, <1>8 DEF DistinctSoFar, a, b

LEMMA TupleEqualsItself ==
  ASSUME NEW t \in Seq(Values)
  PROVE  TupleEqual(t, t) = Yes
<1>1. \A i \in DOMAIN t : Equal(t[i], t[i]) = Yes
  <2> SUFFICES ASSUME NEW i \in DOMAIN t PROVE Equal(t[i], t[i]) = Yes
    OBVIOUS
  <2>1. t[i] \in Values
    OBVIOUS
  <2> QED BY <2>1, EqualIsSame
<1>2. {i \in DOMAIN t : Equal(t[i], t[i]) # Yes} = {}
  BY <1>1
<1> QED BY <1>2 DEF TupleEqual

\* Where rows are told apart, two selected rows are one if their sources are.
LEMMA SameSource ==
  ASSUME JoinInv, Unduplicated, NEW rs, Chosen(rs), NEW i \in DOMAIN rs, NEW j \in DOMAIN rs
  PROVE  SameRow(rs[i], rs[j]) = Yes <=> rs[i].source = rs[j].source
<1> DEFINE r == rs[i]
           s == rs[j]
           same == TupleEqual(r.tuple, s.tuple)
<1>1. /\ r.source \in TableRows /\ s.source \in TableRows /\ r.tuple \in Seq(Values)
      /\ r.tuple = [c \in DOMAIN relation.columns |-> r.source[c]]
      /\ s.tuple = [c \in DOMAIN relation.columns |-> s.source[c]]
  BY DEF Chosen, Unduplicated
<1> HIDE DEF r, s
<1>2. r.source \in Seq(Values) /\ s.source \in Seq(Values)
  BY <1>1, TableFacts
<1>3. Yes # Trap
  BY DEF Yes, Bool, Trap
<1>4. r.source # NoRow
  <2> SUFFICES ASSUME r.source = NoRow PROVE FALSE
    OBVIOUS
  <2>1. <<Error>> \in Seq(Values)
    BY <1>2 DEF NoRow
  <2>2. Error \in Values
    BY <2>1
  <2> QED BY <2>2, ValueFacts DEF IsError, Error
<1>5. /\ same # Yes => SameRow(r, s) # Yes
      /\ same = Yes => SameRow(r, s) = TupleEqual(r.source, s.source)
  BY <1>4 DEF SameRow
<1>6. ASSUME r.source = s.source PROVE SameRow(r, s) = Yes
  <2>1. r.tuple = s.tuple
    BY <1>1, <1>6
  <2>2. same = Yes
    BY <1>1, <2>1, TupleEqualsItself
  <2> QED BY <1>2, <1>5, <1>6, <2>2, TupleEqualsItself
<1>7. ASSUME SameRow(r, s) = Yes PROVE r.source = s.source
  <2>1. TupleEqual(r.source, s.source) = Yes
    BY <1>5, <1>7
  <2> QED BY <1>1, <2>1 DEF Unduplicated, RowsAreToldApart, TableRows
<1> QED BY <1>6, <1>7 DEF r, s

LEMMA RowIsNew ==
  ASSUME JoinInv, NEW n, NEW rs, DistinctSoFar(n, rs), n < Len(rs), query.distinct,
         \A i \in 1..n : SameRow(rs[n + 1], rs[i]) = No
  PROVE  DistinctSoFar(n + 1, rs)
<1>1. /\ IsList(rs) /\ Chosen(rs) /\ Len(rs) \in Nat /\ DOMAIN rs = 1..Len(rs)
      /\ n \in Nat /\ n + 1 \in 0..Len(rs) /\ n + 1 \in DOMAIN rs
      /\ 1..n \subseteq DOMAIN rs
  BY ListFacts DEF DistinctSoFar, Chosen
<1>2. Yes # No
  BY DEF Yes, No, Bool
<1>3. ASSUME Unduplicated, NEW i \in 1..(n + 1), NEW j \in 1..(n + 1),
             rs[i].source = rs[j].source
      PROVE  i = j
  <2>1. \A k \in 1..n : rs[n + 1].source # rs[k].source
    BY <1>1, <1>2, <1>3, SameSource
  <2>2. CASE i \in 1..n /\ j \in 1..n
    BY <1>3, <2>2 DEF DistinctSoFar
  <2>3. CASE i = n + 1 \/ j = n + 1
    <3>1. \A k \in 1..(n + 1) : k = n + 1 \/ k \in 1..n
      BY <1>1
    <3> QED BY <1>3, <2>1, <2>3, <3>1
  <2>4. (i \in 1..n /\ j \in 1..n) \/ i = n + 1 \/ j = n + 1
    BY <1>1
  <2> QED BY <2>2, <2>3, <2>4
<1> QED BY <1>1, <1>3 DEF DistinctSoFar

LEMMA RowIsRepeated ==
  ASSUME JoinInv, NEW n, NEW rs, DistinctSoFar(n, rs), n < Len(rs), query.distinct,
         NEW k \in 1..n, SameRow(rs[n + 1], rs[k]) = Yes
  PROVE  DistinctSoFar(n, RemoveAt(rs, n + 1))
<1> DEFINE m == Len(rs)
           t == RemoveAt(rs, n + 1)
<1>0. IsList(rs) /\ Chosen(rs) /\ m \in Nat /\ DOMAIN rs = 1..m /\ n \in 0..m /\ n < m
  BY ListFacts DEF DistinctSoFar, Chosen
<1> HIDE DEF m
<1>1. /\ IsList(rs) /\ Chosen(rs) /\ m \in Nat /\ DOMAIN rs = 1..m
      /\ n \in Nat /\ n + 1 \in 1..m /\ k \in 1..m /\ n \in 0..(m - 1)
  BY <1>0
<1>2. Len(rs) = m
  BY DEF m
<1>3. t = [p \in 1..(m - 1) |-> IF p < n + 1 THEN rs[p] ELSE rs[p + 1]]
  BY <1>1, <1>2, RemovedAt
<1>4. IsList(t) /\ Len(t) = m - 1
  BY <1>1, <1>2, RemoveRearranges
<1> HIDE DEF t
<1>5. /\ DOMAIN t = 1..(m - 1)
      /\ \A p \in 1..(m - 1) : p <= n => t[p] = rs[p] /\ p \in DOMAIN rs
      /\ \A p \in 1..(m - 1) : n < p => t[p] = rs[p + 1] /\ p + 1 \in DOMAIN rs
      /\ 1..n \subseteq 1..(m - 1)
  BY <1>1, <1>3
<1>6. ASSUME NEW p \in DOMAIN t PROVE \E q \in DOMAIN rs : t[p] = rs[q]
  <2>1. p <= n \/ n < p
    BY <1>1, <1>5
  <2> QED BY <1>5, <2>1
<1>7. Chosen(t)
  <2>1. ASSUME NEW p \in DOMAIN t
        PROVE  /\ t[p].source \in TableRows
               /\ query.columns = <<>> =>
                    /\ t[p].tuple \in Seq(Values)
                    /\ t[p].tuple = [c \in DOMAIN relation.columns |-> t[p].source[c]]
    <3>1. PICK q \in DOMAIN rs : t[p] = rs[q]
      BY <1>6
    <3> QED BY <1>1, <3>1 DEF Chosen
  <2> QED BY <1>4, <2>1 DEF Chosen
<1>8. ASSUME Unduplicated
      PROVE  /\ \A i \in DOMAIN t : Included(t[i].source) = Yes
             /\ \A x \in TableRows :
                  Included(x) = Yes => \E i \in DOMAIN t : t[i].source = x
             /\ \A i, j \in 1..n : t[i].source = t[j].source => i = j
  <2>1. ASSUME NEW p \in DOMAIN t PROVE Included(t[p].source) = Yes
    BY <1>6, <1>8 DEF DistinctSoFar
  <2>2. ASSUME NEW x \in TableRows, Included(x) = Yes
        PROVE  \E p \in DOMAIN t : t[p].source = x
    <3>1. PICK q \in DOMAIN rs : rs[q].source = x
      BY <1>8, <2>2 DEF DistinctSoFar
    <3>2. rs[n + 1].source = rs[k].source
      BY <1>1, <1>8, SameSource
    <3>3. k \in 1..(m - 1) /\ t[k] = rs[k]
      BY <1>1, <1>5
    <3>4. CASE q = n + 1
      BY <1>5, <3>1, <3>2, <3>3, <3>4
    <3>5. CASE q <= n
      <4>1. q \in 1..(m - 1)
        BY <1>1, <3>5
      <4> QED BY <1>5, <3>1, <3>5, <4>1
    <3>6. CASE q > n + 1
      <4>1. q - 1 \in 1..(m - 1) /\ n < q - 1 /\ (q - 1) + 1 = q
        BY <1>1, <3>6
      <4> QED BY <1>5, <3>1, <4>1
    <3>7. q = n + 1 \/ q <= n \/ q > n + 1
      BY <1>1
    <3> QED BY <3>4, <3>5, <3>6, <3>7
  <2>3. \A p, q \in 1..n : t[p].source = t[q].source => p = q
    <3>1. \A p \in 1..n : t[p] = rs[p]
      BY <1>1, <1>5
    <3> QED BY <1>8, <3>1 DEF DistinctSoFar
  <2> QED BY <2>1, <2>2, <2>3
<1>9. n \in 0..Len(t)
  BY <1>1, <1>4
<1>10. DistinctSoFar(n, t)
  BY <1>7, <1>8, <1>9 DEF DistinctSoFar
<1> QED BY <1>10 DEF t

-----------------------------------------------------------------------------
(***************************************************************************)
(* The answer, in any order                                                *)
(***************************************************************************)
LEMMA OccursInTable ==
  ASSUME JoinInv, NEW x \in TableRows
  PROVE  /\ Occurring(relation.rows, x) \in Nat \ {0}
         /\ Occurring(relation.rows, x) = Cardinality(IndicesOf(relation.rows, x))
<1> DEFINE D == {i \in DOMAIN relation.rows : relation.rows[i] = x}
<1>1. D \in SUBSET (1..RowCount) /\ RowCount \in Nat /\ D # {}
  BY TableFacts
<1>2. Counts(D, Cardinality(D)) /\ Cardinality(D) \in 0..RowCount
  BY <1>1, CountsOfPlaces
<1>3. Cardinality(D) # 0
  BY <1>1, <1>2, FS_EmptySet DEF Counts
<1>4. Occurring(relation.rows, x) = Cardinality(D) /\ IndicesOf(relation.rows, x) = D
  BY DEF Occurring, IndicesOf
<1> QED BY <1>1, <1>2, <1>3, <1>4

LEMMA OccursInList ==
  ASSUME NEW rs, IsList(rs), NEW x
  PROVE  /\ Counts(IndicesOf(SourcesOf(rs), x), Occurring(SourcesOf(rs), x))
         /\ DOMAIN SourcesOf(rs) = DOMAIN rs
         /\ \A i \in DOMAIN rs : SourcesOf(rs)[i] = rs[i].source
<1> DEFINE B == {i \in DOMAIN SourcesOf(rs) : SourcesOf(rs)[i] = x}
<1>1. DOMAIN SourcesOf(rs) = DOMAIN rs /\ \A i \in DOMAIN rs : SourcesOf(rs)[i] = rs[i].source
  BY DEF SourcesOf
<1>2. B \in SUBSET (1..Len(rs)) /\ Len(rs) \in Nat
  BY <1>1, ListFacts
<1>3. Counts(B, Cardinality(B))
  BY <1>2, CountsOfPlaces
<1> QED BY <1>1, <1>3 DEF Occurring, IndicesOf

LEMMA RowsAreDistinct ==
  ASSUME JoinInv, NEW n, NEW rs, DistinctSoFar(n, rs), query.distinct => n = Len(rs)
  PROVE  Answer(rs)
<1>1. IsList(rs) /\ Chosen(rs) /\ DOMAIN rs = 1..Len(rs)
  BY ListFacts DEF DistinctSoFar, Chosen
<1>2. ASSUME NEW x \in TableRows, ~query.distinct
      PROVE  Occurring(SourcesOf(rs), x) = Passing(x)
  <2> DEFINE b == SourcesOf(rs)
             a == Wanted(RowCount)
             c == Occurring(b, x)
             A == IndicesOf(a, x)
             D == IndicesOf(relation.rows, x)
  <2>1. Counts(IndicesOf(b, x), c)
    BY <1>1, OccursInList
  <2>2. Rearranges(b, a)
    BY <1>2 DEF DistinctSoFar
  <2> HIDE DEF a, b, c
  <2>3. Counts(A, c)
    BY <2>1, <2>2, RearrangesCounts
  <2>4. CASE Included(x) = Yes
    <3>1. A = D
      BY <2>4, WantedFacts, TableFacts DEF a, IndicesOf
    <3>2. c = Cardinality(D)
      BY <2>3, <3>1 DEF Counts
    <3>3. Passing(x) = Occurring(relation.rows, x)
      BY <2>4 DEF Passing
    <3> QED BY <3>2, <3>3, OccursInTable DEF b, c
  <2>5. CASE Included(x) # Yes
    <3>1. A = {}
      BY <2>5, WantedFacts DEF a, IndicesOf
    <3>2. c = 0
      BY <2>3, <3>1, FS_EmptySet DEF Counts
    <3> QED BY <2>5, <3>2 DEF Passing, b, c
  <2> QED BY <2>4, <2>5
<1>3. ASSUME NEW x \in TableRows, Unduplicated
      PROVE  Occurring(SourcesOf(rs), x) = Smaller(1, Passing(x))
  <2> DEFINE c == Occurring(SourcesOf(rs), x)
             B == IndicesOf(SourcesOf(rs), x)
  <2>1. Counts(B, c) /\ B = {i \in DOMAIN rs : rs[i].source = x}
    BY <1>1, OccursInList DEF IndicesOf
  <2> HIDE DEF B, c
  <2>2. n = Len(rs)
    BY <1>3 DEF Unduplicated
  <2>3. CASE Included(x) = Yes
    <3>1. PICK i \in DOMAIN rs : rs[i].source = x
      BY <1>3, <2>3 DEF DistinctSoFar
    <3>2. \A j \in B : j = i
      BY <1>1, <1>3, <2>1, <2>2, <3>1 DEF DistinctSoFar
    <3>3. B = {} \cup {i} /\ i \notin {}
      BY <2>1, <3>1, <3>2
    <3>4. Counts(B, 0 + 1)
      BY <3>3, CountsNothing, CountsOneMore
    <3>5. c = 1
      BY <2>1, <3>4 DEF Counts
    <3>6. Passing(x) \in Nat \ {0}
      BY <2>3, OccursInTable DEF Passing
    <3>7. Smaller(1, Passing(x)) = 1
      BY <3>6 DEF Smaller
    <3> QED BY <3>5, <3>7 DEF c
  <2>4. CASE Included(x) # Yes
    <3>1. B = {}
      BY <1>3, <2>1, <2>4 DEF DistinctSoFar
    <3>2. c = 0
      BY <2>1, <3>1, FS_EmptySet DEF Counts
    <3>3. Smaller(1, Passing(x)) = 0
      BY <2>4 DEF Passing, Smaller
    <3> QED BY <3>2, <3>3 DEF c
  <2> QED BY <2>3, <2>4
<1> QED BY <1>1, <1>2, <1>3 DEF Answer

LEMMA OrderIsAnswer ==
  ASSUME NEW rs, Answer(rs), NEW new, IsList(new), Rearranges(new, rs)
  PROVE  Answer(new)
<1>1. IsList(rs)
  BY DEF Answer
<1> DEFINE a == SourcesOf(rs)
           b == SourcesOf(new)
<1>2. PICK f \in [DOMAIN new -> DOMAIN rs] : Rearranging(f, new, rs)
  BY DEF Rearranges
<1>3. /\ DOMAIN a = DOMAIN rs /\ \A i \in DOMAIN rs : a[i] = rs[i].source
      /\ DOMAIN b = DOMAIN new /\ \A i \in DOMAIN new : b[i] = new[i].source
  BY DEF SourcesOf
<1> HIDE DEF a, b
<1>4. Rearranging(f, b, a)
  BY <1>2, <1>3 DEF Rearranging
<1>5. Rearranges(b, a)
  BY <1>2, <1>3, <1>4 DEF Rearranges
<1>6. ASSUME NEW x PROVE Occurring(b, x) = Occurring(a, x)
  <2>1. Counts(IndicesOf(b, x), Occurring(b, x))
    BY OccursInList DEF b
  <2>2. Counts(IndicesOf(a, x), Occurring(b, x))
    BY <1>5, <2>1, RearrangesCounts
  <2>3. Counts(IndicesOf(a, x), Occurring(a, x))
    BY <1>1, OccursInList DEF a
  <2> QED BY <2>2, <2>3 DEF Counts
<1> QED BY <1>6 DEF Answer, a, b

-----------------------------------------------------------------------------
(***************************************************************************)
(* The steps                                                               *)
(***************************************************************************)
LEMMA StatementStays ==
  ASSUME Next, ~EvaluateFrom
  PROVE  UNCHANGED <<from, query, relation>>
<1>1. UNCHANGED <<from, relation>>
  BY FromIsReadOnce DEF joinVars
<1>2. \A x : Fail(x) => query' = query
  BY DEF Fail
<1>3. FromEvaluated \/ RowsSelected \/ RowsDistinct => query' = query
  BY DEF FromEvaluated, RowsSelected, RowsDistinct
<1>4. TakeTop \/ MakeUnion \/ AsValue \/ AsTable => query' = query
  BY DEF TakeTop, MakeUnion, AsValue, AsTable
<1>5. CollectRow => query' = query
  BY <1>2 DEF CollectRow
<1>6. RowsCollected => query' = query
  BY <1>2 DEF RowsCollected
<1>7. EvaluateGroup => query' = query
  BY <1>2 DEF EvaluateGroup
<1>8. EvaluateRows => query' = query
  BY <1>2 DEF EvaluateRows
<1>9. SelectWithoutFrom => query' = query
  BY <1>2 DEF SelectWithoutFrom
<1>10. DistinctRow => query' = query
  BY <1>2 DEF DistinctRow
<1>11. OrderRow => query' = query
  BY <1>2 DEF OrderRow
<1>12. Ended => query' = query
  BY DEF Ended, vars, selectVars
<1> QED BY <1>1, <1>3, <1>4, <1>5, <1>6, <1>7, <1>8, <1>9, <1>10, <1>11, <1>12 DEF Next

\* An error ends it.
LEMMA ErrorEndsIt ==
  ASSUME \/ \E x : Fail(x)
         \/ stage' \in {"error", "undefined"}
  PROVE  ClauseInv'
<1>1. stage' \in {"error", "undefined"}
  BY DEF Fail
<1> QED BY <1>1 DEF ClauseInv

LEMMA WhereStep ==
  ASSUME JoinInv, ClauseInv, UNCHANGED <<from, query, relation>>,
         CollectRow \/ RowsCollected
  PROVE  ClauseInv'
<1>1. stage = "collect"
  BY DEF CollectRow, RowsCollected
<1>2. stage' # "from" \/ ~UNCHANGED stage
  BY <1>1
<1>3. CASE CollectRow
  <2>1. PICK row \in {relation.rows[at + 1]} : \E included \in {Included(row)} :
          \/ IsError(included) /\ Fail(included)
          \/ /\ included = No
             /\ at' = at + 1
             /\ UNCHANGED <<query, stage, groups, rows, result>>
          \/ /\ included = Yes
             /\ \E key \in {GroupKey(row)} :
                  IF IsError(FirstError(key)) THEN Fail(Error)
                  ELSE /\ at' = at + 1
                       /\ groups' = AddToGroup(groups, key, row)
                       /\ UNCHANGED <<query, stage, rows, result>>
    BY <1>3 DEF CollectRow
  <2>2. row = relation.rows[at + 1] /\ at < RowCount
    BY <1>3 DEF CollectRow, RowCount
  <2>3. CASE \E x : Fail(x)
    BY <2>3, ErrorEndsIt
  <2>4. CASE Included(row) = No /\ at' = at + 1 /\ UNCHANGED <<stage, groups, rows>>
    <3>1. Included(row) # Yes
      BY <2>4 DEF Yes, No, Bool
    <3>2. Plain => rows' = <<>> /\ Collected(at', groups')
      BY <1>1, <2>2, <2>4, <3>1, RowIsCollected DEF ClauseInv
    <3> QED BY <1>1, <2>4, <3>2, SameStatement DEF ClauseInv
  <2>5. CASE /\ Included(row) = Yes /\ at' = at + 1 /\ UNCHANGED <<stage, rows>>
             /\ \E key : groups' = AddToGroup(groups, key, row)
    <3>1. Plain => rows' = <<>> /\ Collected(at', groups')
      BY <1>1, <2>2, <2>5, RowIsCollected DEF ClauseInv
    <3> QED BY <1>1, <2>5, <3>1, SameStatement DEF ClauseInv
  <2> QED BY <2>1, <2>3, <2>4, <2>5
<1>4. CASE RowsCollected
  <2>1. CASE \E x : Fail(x)
    BY <2>1, ErrorEndsIt
  <2>2. CASE /\ stage' = IF ShouldGroup THEN "group" ELSE "select"
             /\ at' = 0 /\ UNCHANGED rows
             /\ groups' = IF relation.rows = <<>> /\ ShouldGroup THEN EmptyGroup ELSE groups
    <3>1. CASE Plain
      <4>1. stage' = "select" /\ groups' = groups
        BY <2>2, <3>1 DEF Plain
      <4>2. rows = <<>> /\ Collected(RowCount, groups)
        BY <1>1, <1>4, <3>1 DEF ClauseInv, RowsCollected, RowCount
      <4>3. SelectedSoFar(at', groups', rows')
        BY <2>2, <4>1, <4>2, NothingSelected
      <4> QED BY <4>1, <4>3, SameStatement DEF ClauseInv
    <3>2. CASE ~Plain
      BY <2>2, <3>2, SameStatement DEF ClauseInv
    <3> QED BY <3>1, <3>2
  <2> QED BY <1>4, <2>1, <2>2 DEF RowsCollected
<1> QED BY <1>3, <1>4

LEMMA ColumnsStep ==
  ASSUME JoinInv, ClauseInv, UNCHANGED <<from, query, relation>>,
         EvaluateRows \/ RowsSelected
  PROVE  ClauseInv'
<1>1. CASE EvaluateRows
  <2>1. PICK new : /\ new = Once([r \in DOMAIN groups[at + 1].rows |->
                                    SelectedRow(groups[at + 1].rows[r], groups[at + 1])])
                   /\ \/ \E x : Fail(x)
                      \/ /\ {r \in DOMAIN new : IsError(FirstError(new[r].tuple))} = {}
                         /\ at' = at + 1
                         /\ rows' = rows \o new
                         /\ UNCHANGED <<stage, groups>>
    <3>1. PICK group \in {groups[at + 1]} :
            \E selected \in {Once([r \in DOMAIN group.rows |-> SelectedRow(group.rows[r], group)])} :
              LET failed == {r \in DOMAIN selected : IsError(FirstError(selected[r].tuple))}
              IN \/ failed # {} /\ Fail(FirstError(selected[First(failed)].tuple))
                 \/ /\ failed = {}
                    /\ at' = at + 1
                    /\ rows' = rows \o selected
                    /\ UNCHANGED <<query, stage, groups, result>>
      BY <1>1, Zenon DEF EvaluateRows
    <3>2. group = groups[at + 1]
      OBVIOUS
    <3>3. PICK selected \in {Once([r \in DOMAIN group.rows |-> SelectedRow(group.rows[r], group)])} :
              LET failed == {r \in DOMAIN selected : IsError(FirstError(selected[r].tuple))}
              IN \/ failed # {} /\ Fail(FirstError(selected[First(failed)].tuple))
                 \/ /\ failed = {}
                    /\ at' = at + 1
                    /\ rows' = rows \o selected
                    /\ UNCHANGED <<query, stage, groups, result>>
      BY <3>1, Zenon
    <3>4. /\ selected = Once([r \in DOMAIN groups[at + 1].rows |->
                             SelectedRow(groups[at + 1].rows[r], groups[at + 1])])
      BY <3>2
    <3> DEFINE failed == {r \in DOMAIN selected : IsError(FirstError(selected[r].tuple))}
    <3>5. \/ \E x : Fail(x)
          \/ failed = {} /\ at' = at + 1 /\ rows' = rows \o selected /\ UNCHANGED <<stage, groups>>
      BY <3>3
    <3> QED BY <3>4, <3>5, Zenon
  <2>2. stage = "select" /\ at < Len(groups)
    BY <1>1 DEF EvaluateRows
  <2>3. CASE \E x : Fail(x)
    BY <2>3, ErrorEndsIt
  <2>4. CASE /\ {r \in DOMAIN new : IsError(FirstError(new[r].tuple))} = {}
             /\ at' = at + 1 /\ rows' = rows \o new /\ UNCHANGED <<stage, groups>>
    <3>1. Plain => SelectedSoFar(at, groups, rows)
      BY <2>2 DEF ClauseInv
    <3>2. Plain => SelectedSoFar(at + 1, groups, rows \o new)
      BY <2>1, <2>2, <2>4, <3>1, RowsAreSelected
    <3>3. Plain => SelectedSoFar(at', groups', rows')
      BY <2>4, <3>2
    <3> QED BY <2>2, <2>4, <3>3, SameStatement DEF ClauseInv
  <2> QED BY <2>1, <2>3, <2>4
<1>2. CASE RowsSelected
  <2>1. /\ stage \in {"group", "select"} /\ at = Len(groups) /\ stage' = "distinct"
        /\ at' = 0 /\ UNCHANGED rows
    BY <1>2 DEF RowsSelected
  <2>2. Plain => DistinctSoFar(0, rows)
    BY <2>1, SelectionEnds DEF ClauseInv
  <2>3. Plain => DistinctSoFar(at', rows')
    BY <2>1, <2>2
  <2> QED BY <2>1, <2>3, SameStatement DEF ClauseInv
<1> QED BY <1>1, <1>2

LEMMA DistinctStep ==
  ASSUME JoinInv, ClauseInv, UNCHANGED <<from, query, relation>>,
         DistinctRow \/ RowsDistinct
  PROVE  ClauseInv'
<1>1. CASE DistinctRow
  <2> DEFINE settled == {i \in 1..at : SameRow(rows[at + 1], rows[i]) # No}
  <2>1. /\ stage = "distinct" /\ query.distinct /\ at < Len(rows)
        /\ \/ /\ settled = {}
              /\ at' = at + 1
              /\ UNCHANGED <<stage, rows>>
           \/ /\ settled # {} /\ SameRow(rows[at + 1], rows[First(settled)]) = Yes
              /\ rows' = RemoveAt(rows, at + 1)
              /\ UNCHANGED <<stage, at>>
           \/ \E x : Fail(x)
    BY <1>1 DEF DistinctRow
  <2>2. Plain => DistinctSoFar(at, rows) /\ at \in Nat
    BY <2>1, ListFacts DEF ClauseInv, DistinctSoFar, Chosen
  <2>3. CASE \E x : Fail(x)
    BY <2>3, ErrorEndsIt
  <2>4. CASE settled = {} /\ at' = at + 1 /\ UNCHANGED <<stage, rows>>
    <3>1. \A i \in 1..at : SameRow(rows[at + 1], rows[i]) = No
      BY <2>4
    <3>2. Plain => DistinctSoFar(at + 1, rows)
      BY <2>1, <2>2, <3>1, RowIsNew
    <3>3. Plain => DistinctSoFar(at', rows')
      BY <2>4, <3>2
    <3> QED BY <2>1, <2>4, <3>3, SameStatement DEF ClauseInv
  <2>5. CASE /\ settled # {} /\ SameRow(rows[at + 1], rows[First(settled)]) = Yes
             /\ rows' = RemoveAt(rows, at + 1) /\ UNCHANGED <<stage, at>>
    <3>1. settled \in SUBSET (1..at)
      OBVIOUS
    <3> HIDE DEF settled
    <3>2. Plain => First(settled) \in 1..at
      BY <2>2, <2>5, <3>1, FirstOf
    <3>3. Plain => DistinctSoFar(at, RemoveAt(rows, at + 1))
      BY <2>1, <2>2, <2>5, <3>2, RowIsRepeated
    <3>4. Plain => DistinctSoFar(at', rows')
      BY <2>5, <3>3
    <3> QED BY <2>1, <2>5, <3>4, SameStatement DEF ClauseInv
  <2> QED BY <2>1, <2>3, <2>4, <2>5
<1>2. CASE RowsDistinct
  <2>1. /\ stage = "distinct" /\ (query.distinct => at = Len(rows)) /\ stage' = "order"
        /\ at' = 0 /\ UNCHANGED rows
    BY <1>2 DEF RowsDistinct
  <2>2. Plain => Answer(rows)
    BY <2>1, RowsAreDistinct DEF ClauseInv
  <2>3. Plain => at' \in Nat /\ Answer(rows')
    BY <2>1, <2>2
  <2> QED BY <2>1, <2>3, SameStatement DEF ClauseInv
<1> QED BY <1>1, <1>2

LEMMA OrderStep ==
  ASSUME JoinInv, ClauseInv, UNCHANGED <<from, query, relation>>, OrderRow
  PROVE  ClauseInv'
<1>1. /\ stage = "order" /\ at < Len(rows)
      /\ \/ \E x : Fail(x)
         \/ \E ahead \in SUBSET (1..at) :
              /\ rows' = InsertAt(RemoveAt(rows, at + 1), Cardinality(ahead) + 1, rows[at + 1])
              /\ at' = at + 1 /\ UNCHANGED stage
  <2>1. PICK key \in {OrderKey(rows[at + 1])} :
          \/ IsError(FirstError(key)) /\ Fail(FirstError(key))
          \/ /\ ~IsError(FirstError(key))
             /\ LET ahead == {i \in 1..at : ~GoesBefore(key, OrderKey(rows[i]))}
                IN rows' = InsertAt(RemoveAt(rows, at + 1), Cardinality(ahead) + 1, rows[at + 1])
             /\ at' = at + 1
             /\ UNCHANGED <<query, stage, groups, result>>
    BY DEF OrderRow
  <2> DEFINE ahead == {i \in 1..at : ~GoesBefore(key, OrderKey(rows[i]))}
  <2>2. ahead \in SUBSET (1..at)
    OBVIOUS
  <2>3. \/ \E x : Fail(x)
        \/ /\ rows' = InsertAt(RemoveAt(rows, at + 1), Cardinality(ahead) + 1, rows[at + 1])
           /\ at' = at + 1 /\ UNCHANGED stage
    BY <2>1
  <2> HIDE DEF ahead
  <2>4. stage = "order" /\ at < Len(rows)
    BY DEF OrderRow
  <2> QED BY <2>2, <2>3, <2>4
<1>2. CASE \E x : Fail(x)
  BY <1>2, ErrorEndsIt
<1>3. ASSUME NEW ahead \in SUBSET (1..at),
             rows' = InsertAt(RemoveAt(rows, at + 1), Cardinality(ahead) + 1, rows[at + 1]),
             at' = at + 1, UNCHANGED stage
      PROVE  ClauseInv'
  <2>1. ASSUME Plain PROVE at' \in Nat /\ Answer(rows')
    <3>1. at \in Nat /\ Answer(rows) /\ IsList(rows)
      BY <1>1, <2>1 DEF ClauseInv, Answer
    <3>2. Len(rows) \in Nat
      BY <3>1, ListFacts
    <3>3. Cardinality(ahead) \in 0..at
      BY <3>1, CountsOfPlaces
    <3>4. at + 1 \in 1..Len(rows) /\ Cardinality(ahead) \in 0..(Len(rows) - 1)
      BY <1>1, <3>1, <3>2, <3>3
    <3>5. IsList(rows') /\ Rearranges(rows', rows)
      BY <1>3, <3>1, <3>4, MoveRearranges
    <3>6. Answer(rows')
      BY <3>1, <3>5, OrderIsAnswer
    <3> QED BY <1>3, <3>1, <3>6
  <2> QED BY <1>1, <1>3, <2>1, SameStatement DEF ClauseInv
<1> QED BY <1>1, <1>2, <1>3

LEMMA ResultStep ==
  ASSUME ClauseInv, UNCHANGED <<from, query, relation>>,
         query.use.as \in {"done", "union", "value", "table"},
         TakeTop \/ MakeUnion \/ AsValue \/ AsTable
  PROVE  ClauseInv'
<1>1. /\ stage \in {"order", "union", "value", "table"} /\ UNCHANGED rows
      /\ stage' \in {"done", "union", "value", "table", "error"}
  BY DEF TakeTop, MakeUnion, AsValue, AsTable
<1>2. Plain => Answer(rows')
  BY <1>1 DEF ClauseInv
<1> QED BY <1>1, <1>2, SameStatement DEF ClauseInv

LEMMA FromStep ==
  ASSUME JoinInv, ClauseInv, UNCHANGED <<from, query, relation>>, FromEvaluated
  PROVE  ClauseInv'
<1>1. /\ stage = "from" /\ stage' \in {"collect", "error", "undefined"}
      /\ UNCHANGED <<at, groups, rows>>
  BY DEF FromEvaluated, Ends
<1>2. at' = 0 /\ groups' = <<>> /\ rows' = <<>>
  BY <1>1 DEF ClauseInv
<1>3. Collected(at', groups')
  BY <1>2, NothingCollected
<1> QED BY <1>1, <1>2, <1>3, SameStatement DEF ClauseInv

\* Groups, and a SELECT without FROM, are not Plain.
LEMMA OtherStep ==
  ASSUME ClauseInv, UNCHANGED <<from, query, relation>>,
         EvaluateGroup \/ SelectWithoutFrom \/ Ended
  PROVE  ClauseInv'
<1>1. CASE EvaluateGroup
  <2>1. stage = "group" /\ ~Plain
    BY <1>1 DEF EvaluateGroup, ClauseInv
  <2>2. CASE \E x : Fail(x)
    BY <2>2, ErrorEndsIt
  <2>3. (\E x : Fail(x)) \/ UNCHANGED stage
    BY <1>1 DEF EvaluateGroup
  <2> QED BY <2>1, <2>2, <2>3, SameStatement DEF ClauseInv
<1>2. CASE SelectWithoutFrom
  <2>1. ~Plain
    BY <1>2 DEF SelectWithoutFrom, Plain
  <2>2. CASE \E x : Fail(x)
    BY <2>2, ErrorEndsIt
  <2>3. (\E x : Fail(x)) \/ stage' = "distinct"
    BY <1>2 DEF SelectWithoutFrom
  <2> QED BY <2>1, <2>2, <2>3, SameStatement DEF ClauseInv
<1>3. CASE Ended
  <2>1. UNCHANGED <<stage, at, groups, rows>>
    BY <1>3 DEF Ended, vars, selectVars
  <2> QED BY <2>1, SameStatement DEF ClauseInv
<1> QED BY <1>1, <1>2, <1>3

LEMMA ClauseStutter ==
  ASSUME ClauseInv, UNCHANGED <<from, query, relation>>, UNCHANGED <<stage, at, groups, rows>>
  PROVE  ClauseInv'
BY SameStatement DEF ClauseInv

LEMMA ClauseStays ==
  ASSUME SelectInv, [Next]_vars
  PROVE  ClauseInv'
<1>1. CASE EvaluateFrom
  <2>1. stage = "from" /\ UNCHANGED <<stage, at, groups, rows>>
    BY <1>1 DEF EvaluateFrom, selectVars
  <2> QED BY <2>1 DEF SelectInv, ClauseInv
<1>2. CASE Next /\ ~EvaluateFrom
  <2>1. /\ JoinInv /\ ClauseInv /\ UNCHANGED <<from, query, relation>>
        /\ query.use.as \in {"done", "union", "value", "table"}
    BY <1>2, StatementStays DEF SelectInv
  <2>2. CASE FromEvaluated
    BY <2>1, <2>2, FromStep
  <2>3. CASE CollectRow \/ RowsCollected
    BY <2>1, <2>3, WhereStep
  <2>4. CASE EvaluateRows \/ RowsSelected
    BY <2>1, <2>4, ColumnsStep
  <2>5. CASE DistinctRow \/ RowsDistinct
    BY <2>1, <2>5, DistinctStep
  <2>6. CASE OrderRow
    BY <2>1, <2>6, OrderStep
  <2>7. CASE TakeTop \/ MakeUnion \/ AsValue \/ AsTable
    BY <2>1, <2>7, ResultStep
  <2>8. CASE EvaluateGroup \/ SelectWithoutFrom \/ Ended
    BY <2>1, <2>8, OtherStep
  <2> QED BY <1>2, <2>2, <2>3, <2>4, <2>5, <2>6, <2>7, <2>8 DEF Next
<1>3. CASE UNCHANGED vars
  <2>1. UNCHANGED <<from, query, relation>> /\ UNCHANGED <<stage, at, groups, rows>>
    BY <1>3 DEF vars, joinVars, selectVars
  <2> QED BY <2>1, ClauseStutter DEF SelectInv
<1> QED BY <1>1, <1>2, <1>3

LEMMA SelectStays ==
  ASSUME SelectInv, [Next]_vars
  PROVE  SelectInv'
<1>1. JoinInv' /\ ClauseInv'
  BY JoinStays, ClauseStays DEF SelectInv
<1>2. query' = query
  <2>1. CASE EvaluateFrom
    BY <2>1 DEF EvaluateFrom, selectVars
  <2>2. CASE Next /\ ~EvaluateFrom
    BY <2>2, StatementStays
  <2>3. CASE UNCHANGED vars
    BY <2>3 DEF vars, selectVars
  <2> QED BY <2>1, <2>2, <2>3
<1> QED BY <1>1, <1>2 DEF SelectInv

LEMMA SelectStarts ==
  ASSUME Init
  PROVE  SelectInv
<1>1. PICK statement \in Statements :
        /\ query = statement.query /\ stage = "from" /\ at = 0
        /\ groups = <<>> /\ rows = <<>>
  BY DEF Init
<1>2. query.use.as \in {"done", "union", "value", "table"}
  BY <1>1, StatementsAssumption
<1> QED BY <1>1, <1>2, JoinStarts DEF SelectInv, ClauseInv

LEMMA AnswerIsRight ==
  ASSUME SelectInv
  PROVE  RowsAnswerWhere
<1>1. Done /\ Plain => Answer(rows)
  BY DEF SelectInv, ClauseInv, Done
<1>2. Sources = SourcesOf(rows) /\ TableRows = ToSet(relation.rows)
  BY DEF Sources, SourcesOf, TableRows
<1> QED BY <1>1, <1>2 DEF RowsAnswerWhere, Answer, Unduplicated

(* A SELECT without groups returns each row that passes WHERE as often as  *)
(* the relation has it, whatever PARTITION BY, ORDER BY and TOP do with    *)
(* the rows; SELECT DISTINCT of all columns returns it once, if no row is  *)
(* equal to another (Select::collect_rows, Select::execute, Select.cpp).   *)
THEOREM SelectAnswersWhere == Spec => []RowsAnswerWhere
<1>1. Init => SelectInv
  BY SelectStarts
<1>2. SelectInv /\ [Next]_vars => SelectInv'
  BY SelectStays
<1>3. SelectInv => RowsAnswerWhere
  BY AnswerIsRight
<1> QED BY <1>1, <1>2, <1>3, PTL DEF Spec

-----------------------------------------------------------------------------
(***************************************************************************)
(* The keys of ORDER BY.  In a column of them NULL comes first and other   *)
(* values are of one type, so that the first column in which two keys      *)
(* differ says which goes before.                                          *)
(***************************************************************************)
IsKey(t) == IsList(t) /\ DOMAIN t = DOMAIN query.orderBy

Compares(x, y) ==
  /\ x \in Values
  /\ IsNull(x) \/ IsNull(y) \/ x.type = y.type
  /\ IsNull(y) => ~PassesForNull(x)

Comparable(t, u) ==
  \A k \in DOMAIN query.orderBy : Compares(t[k], u[k]) /\ Compares(u[k], t[k])

LEMMA OrderKeyIsKey ==
  ASSUME IsList(query.orderBy), NEW row
  PROVE  IsKey(OrderKey(row))
<1> DEFINE f == Frame(row.tuple, row.source,
                      IF from.type = "none" THEN NoGroup ELSE Freed, FALSE)
           list == [k \in DOMAIN query.orderBy |-> Evaluated(query.orderBy[k].column, f)]
<1>1. DOMAIN list = 1..Len(query.orderBy) /\ Len(query.orderBy) \in Nat
  BY ListFacts
<1>2. IsList(list)
  BY <1>1 DEF IsList
<1>3. OrderKey(row) = list
  BY <1>2, OnceIsSame DEF OrderKey
<1>4. DOMAIN list = DOMAIN query.orderBy
  OBVIOUS
<1> QED BY <1>2, <1>3, <1>4 DEF IsKey

LEMMA LowerFacts ==
  ASSUME NEW x \in Values, NEW y \in Values, Compares(x, y)
  PROVE  /\ ~(Lower(x, y) /\ Lower(y, x))
         /\ x # y <=> Lower(x, y) \/ Lower(y, x)
<1>1. x.v \in Int /\ y.v \in Int
  BY ValueFacts
<1>2. /\ x = [type |-> x.type, v |-> x.v] /\ y = [type |-> y.type, v |-> y.v]
      /\ IsNull(x) => x = Null
      /\ IsNull(y) => y = Null
  BY ValueFacts
<1>3. ~(Lower(x, y) /\ Lower(y, x))
  BY <1>1 DEF Lower
<1>4. ASSUME x = y PROVE ~Lower(x, y)
  BY <1>1, <1>4 DEF Lower
<1>5. ASSUME x # y PROVE Lower(x, y) \/ Lower(y, x)
  <2>1. CASE IsNull(x) \/ IsNull(y)
    BY <1>2, <1>5, <2>1 DEF Lower
  <2>2. CASE ~IsNull(x) /\ ~IsNull(y)
    <3>1. x.type = y.type
      BY <2>2 DEF Compares
    <3>2. x.v # y.v
      BY <1>2, <1>5, <3>1
    <3> QED BY <1>1, <2>2, <3>2 DEF Lower
  <2> QED BY <2>1, <2>2
<1> QED BY <1>3, <1>4, <1>5

LEMMA LowerSplits ==
  ASSUME NEW x \in Values, NEW y \in Values, NEW z \in Values, Lower(x, z)
  PROVE  Lower(x, y) \/ Lower(y, z)
<1>1. x.v \in Int /\ y.v \in Int /\ z.v \in Int
  BY ValueFacts
<1> QED BY <1>1 DEF Lower

\* What a column says of two keys, whichever way it is sorted
InColumn(k, t, u) ==
  IF query.orderBy[k].descending THEN Lower(u[k], t[k]) ELSE Lower(t[k], u[k])

LEMMA ColumnFacts ==
  ASSUME NEW k \in DOMAIN query.orderBy, NEW t, NEW u, Comparable(t, u)
  PROVE  /\ ~(InColumn(k, t, u) /\ InColumn(k, u, t))
         /\ t[k] # u[k] <=> InColumn(k, t, u) \/ InColumn(k, u, t)
<1>1. t[k] \in Values /\ u[k] \in Values /\ Compares(t[k], u[k])
  BY DEF Comparable, Compares
<1>2. /\ ~(Lower(t[k], u[k]) /\ Lower(u[k], t[k]))
      /\ t[k] # u[k] <=> Lower(t[k], u[k]) \/ Lower(u[k], t[k])
  BY <1>1, LowerFacts
<1> QED BY <1>2, Zenon DEF InColumn

LEMMA ColumnSplits ==
  ASSUME NEW k \in DOMAIN query.orderBy, NEW t, NEW u, NEW w, Comparable(t, u), Comparable(u, w),
         InColumn(k, t, w)
  PROVE  InColumn(k, t, u) \/ InColumn(k, u, w)
<1>1. t[k] \in Values /\ u[k] \in Values /\ w[k] \in Values
  BY DEF Comparable, Compares
<1>2. CASE query.orderBy[k].descending
  <2>1. Lower(w[k], t[k])
    BY <1>2 DEF InColumn
  <2>2. Lower(w[k], u[k]) \/ Lower(u[k], t[k])
    BY <1>1, <2>1, LowerSplits
  <2> QED BY <1>2, <2>2 DEF InColumn
<1>3. CASE ~query.orderBy[k].descending
  <2>1. Lower(t[k], w[k])
    BY <1>3 DEF InColumn
  <2>2. Lower(t[k], u[k]) \/ Lower(u[k], w[k])
    BY <1>1, <2>1, LowerSplits
  <2> QED BY <1>3, <2>2 DEF InColumn
<1> QED BY <1>2, <1>3

LEMMA KeyBeforeInColumn ==
  ASSUME NEW t, NEW u
  PROVE  KeyBefore(t, u) <=>
           \E k \in DOMAIN query.orderBy :
             (\A j \in 1..(k - 1) : t[j] = u[j]) /\ InColumn(k, t, u)
BY DEF KeyBefore, InColumn

\* No key goes before another that goes before it.
LEMMA KeyBeforeIsStrict ==
  ASSUME IsList(query.orderBy), NEW t, NEW u, Comparable(t, u), KeyBefore(t, u)
  PROVE  ~KeyBefore(u, t)
<1> SUFFICES ASSUME KeyBefore(u, t) PROVE FALSE
  OBVIOUS
<1> DEFINE n == Len(query.orderBy)
<1>1. n \in Nat /\ DOMAIN query.orderBy = 1..n
  BY ListFacts
<1>2. PICK k \in DOMAIN query.orderBy : (\A j \in 1..(k - 1) : t[j] = u[j]) /\ InColumn(k, t, u)
  BY KeyBeforeInColumn
<1>3. PICK m \in DOMAIN query.orderBy : (\A j \in 1..(m - 1) : u[j] = t[j]) /\ InColumn(m, u, t)
  BY KeyBeforeInColumn
<1>4. t[k] # u[k] /\ t[m] # u[m]
  BY <1>2, <1>3, ColumnFacts
<1> HIDE DEF n
<1>5. ~(k \in 1..(m - 1)) /\ ~(m \in 1..(k - 1))
  BY <1>2, <1>3, <1>4
<1>6. k = m
  BY <1>1, <1>5
<1> QED BY <1>2, <1>3, <1>6, ColumnFacts

\* A key between two others, in any order, is behind the first or before the second.
LEMMA KeyBeforeSplits ==
  ASSUME IsList(query.orderBy), NEW t, NEW u, NEW w,
         Comparable(t, u), Comparable(u, w), KeyBefore(t, w)
  PROVE  KeyBefore(t, u) \/ KeyBefore(u, w)
<1> DEFINE n == Len(query.orderBy)
<1>1. n \in Nat /\ DOMAIN query.orderBy = 1..n
  BY ListFacts
<1> HIDE DEF n
<1>2. PICK k \in 1..n : (\A j \in 1..(k - 1) : t[j] = w[j]) /\ InColumn(k, t, w)
  BY <1>1, KeyBeforeInColumn
<1>3. InColumn(k, t, u) \/ InColumn(k, u, w)
  BY <1>1, <1>2, ColumnSplits
<1> DEFINE D == {j \in 1..n : j < k /\ ~(t[j] = u[j] /\ u[j] = w[j])}
<1>4. CASE D = {}
  <2>1. \A j \in 1..(k - 1) : j \in 1..n /\ j < k
    BY <1>1
  <2>2. \A j \in 1..(k - 1) : t[j] = u[j] /\ u[j] = w[j]
    BY <1>4, <2>1
  <2> QED BY <1>1, <1>3, <2>2, KeyBeforeInColumn
<1>5. CASE D # {}
  <2>1. D \in SUBSET (1..n)
    OBVIOUS
  <2> DEFINE m == First(D)
  <2>2. m \in D /\ \A j \in D : m <= j
    BY <1>1, <1>5, <2>1, FirstOf
  <2> HIDE DEF m
  <2>3. m \in 1..n /\ m < k /\ ~(t[m] = u[m] /\ u[m] = w[m]) /\ t[m] = w[m]
    BY <1>1, <1>2, <2>2
  <2>4. ASSUME NEW j \in 1..(m - 1) PROVE t[j] = u[j] /\ u[j] = w[j]
    <3>1. j \in 1..n /\ j < k /\ ~(m <= j)
      BY <1>1, <2>3
    <3> QED BY <2>2, <3>1
  <2>5. t[m] # u[m]
    BY <2>3
  <2>6. InColumn(m, t, u) \/ InColumn(m, u, t)
    BY <1>1, <2>3, <2>5, ColumnFacts
  <2>7. InColumn(m, u, t) => InColumn(m, u, w)
    BY <2>3 DEF InColumn
  <2> QED BY <1>1, <2>3, <2>4, <2>6, <2>7, KeyBeforeInColumn
<1> QED BY <1>4, <1>5

\* std::stable_sort is given the order of the keys.
LEMMA GoesBeforeIsKeyBefore ==
  ASSUME IsList(query.orderBy), NEW t, IsKey(t), NEW u, IsKey(u), Comparable(t, u)
  PROVE  GoesBefore(t, u) <=> KeyBefore(t, u)
<1> DEFINE n == Len(query.orderBy)
           r == Side(t, u)
           s == Side(u, t)
<1>1. n \in Nat /\ DOMAIN query.orderBy = 1..n
  BY ListFacts
<1> HIDE DEF n
<1>2. /\ DOMAIN r = 1..n /\ DOMAIN s = 1..n
      /\ r = [k \in 1..n |-> r[k]] /\ s = [k \in 1..n |-> s[k]]
      /\ \A k \in 1..n : /\ r[k] = IF query.orderBy[k].descending THEN u[k] ELSE t[k]
                         /\ s[k] = IF query.orderBy[k].descending THEN t[k] ELSE u[k]
  BY <1>1 DEF Side, IsKey
<1> HIDE DEF r, s
<1>3. Len(r) = n /\ Len(s) = n
  <2>1. IsList(r) /\ IsList(s)
    BY <1>1, <1>2 DEF IsList
  <2>2. /\ DOMAIN r = 1..Len(r) /\ Len(r) \in Nat
        /\ DOMAIN s = 1..Len(s) /\ Len(s) \in Nat
    BY <2>1, ListFacts
  <2> QED BY <1>1, <1>2, <2>2
<1>4. Fields(r, s) = 1..n /\ \A k \in 1..n : Field(r, k) = r[k] /\ Field(s, k) = s[k]
  BY <1>1, <1>3 DEF Fields, Field
<1>5. ASSUME NEW k \in 1..n
      PROVE  /\ Equal(r[k], s[k]) = Yes <=> t[k] = u[k]
             /\ Equal(r[k], s[k]) = No /\ Less(r[k], s[k]) = Yes <=> InColumn(k, t, u)
  <2>1. /\ t[k] \in Values /\ u[k] \in Values
        /\ Compares(t[k], u[k]) /\ Compares(u[k], t[k])
    BY <1>1 DEF Comparable, Compares
  <2>2. ASSUME NEW x, NEW y, Compares(x, y), Compares(y, x)
        PROVE  /\ Equal(x, y) = Yes <=> x = y
               /\ Equal(x, y) = No /\ Less(x, y) = Yes <=> Lower(x, y)
    <3>1. /\ x \in Values /\ y \in Values
          /\ IsNull(x) \/ IsNull(y) \/ x.type = y.type
          /\ IsNull(y) => ~PassesForNull(x)
      BY <2>2 DEF Compares
    <3>2. /\ Equal(x, y) = Yes <=> Alike(x, y)
          /\ Equal(x, y) = No /\ Less(x, y) = Yes <=> Under(x, y)
      BY <3>1, ColumnOrder
    <3>3. Under(x, y) <=> Lower(x, y)
      BY DEF Under, Lower
    <3>4. Alike(x, y) <=> x = y
      <4>1. x.v \in Int /\ y.v \in Int
        BY <3>1, ValueFacts
      <4>2. Alike(x, y) <=> ~Lower(x, y) /\ ~Lower(y, x)
        BY <4>1 DEF Alike, Lower
      <4> QED BY <2>2, <3>1, <4>2, LowerFacts
    <3> QED BY <3>2, <3>3, <3>4
  <2>3. CASE query.orderBy[k].descending
    <3>1. r[k] = u[k] /\ s[k] = t[k]
      BY <1>2, <2>3
    <3>2. InColumn(k, t, u) <=> Lower(u[k], t[k])
      BY <2>3 DEF InColumn
    <3> QED BY <2>1, <2>2, <3>1, <3>2
  <2>4. CASE ~query.orderBy[k].descending
    <3>1. r[k] = t[k] /\ s[k] = u[k]
      BY <1>2, <2>4
    <3>2. InColumn(k, t, u) <=> Lower(t[k], u[k])
      BY <2>4 DEF InColumn
    <3> QED BY <2>1, <2>2, <3>1, <3>2
  <2> QED BY <2>3, <2>4
<1>6. \A k \in 1..n : \A j \in 1..(k - 1) : j \in 1..n
  BY <1>1
<1>7. TupleLess(r, s) <=>
        \E k \in 1..n : (\A j \in 1..(k - 1) : t[j] = u[j]) /\ InColumn(k, t, u)
  BY <1>4, <1>5, <1>6 DEF TupleLess
<1>8. GoesBefore(t, u) <=> TupleLess(r, s)
  BY DEF GoesBefore, r, s
<1> QED BY <1>1, <1>7, <1>8, KeyBeforeInColumn

-----------------------------------------------------------------------------
(***************************************************************************)
(* The insertion of std::stable_sort: a row moves down behind those before *)
(* it that it does not go before.                                          *)
(***************************************************************************)
KeyAt(rs, i) == OrderKey(rs[i])

Ordered(n, rs) ==
  CanBeSorted(rs) => \A i, j \in 1..n : i < j => ~KeyBefore(KeyAt(rs, j), KeyAt(rs, i))

\* Where the rows were in the table; behind n they are still in that order.
Origins(o, n, rs) ==
  /\ \A i \in DOMAIN rs : o[i] \in 1..RowCount /\ relation.rows[o[i]] = rs[i].source
  /\ \A i, j \in DOMAIN rs :
       i < j /\ (j > n \/ ~KeyBefore(KeyAt(rs, i), KeyAt(rs, j))) => o[i] < o[j]

Stable(n, rs) == CanBeSorted(rs) => \E o : Origins(o, n, rs)

Goes(i, n, c) ==
  IF i <= c \/ i > n + 1 THEN i ELSE IF i = c + 1 THEN n + 1 ELSE i - 1

Moved(rs, n, c) == InsertAt(RemoveAt(rs, n + 1), c + 1, rs[n + 1])

HasMoved(new, rs, n, c) ==
  /\ IsList(new) /\ Len(new) = Len(rs)
  /\ \A i \in 1..Len(rs) : Goes(i, n, c) \in 1..Len(rs) /\ new[i] = rs[Goes(i, n, c)]
  /\ \A i \in 1..Len(rs) : \E j \in 1..Len(rs) : Goes(j, n, c) = i

LEMMA RowsMove ==
  ASSUME NEW rs, IsList(rs), NEW n \in Nat, n < Len(rs), NEW c \in 0..n,
         NEW new, new = Moved(rs, n, c)
  PROVE  HasMoved(new, rs, n, c)
<1> DEFINE m == Len(rs)
           t == RemoveAt(rs, n + 1)
           x == rs[n + 1]
           S == {rs[i] : i \in DOMAIN rs}
<1>1. m \in Nat /\ DOMAIN rs = 1..m
  BY ListFacts
<1> HIDE DEF m
<1>2. Len(rs) = m /\ n + 1 \in 1..m /\ n < m /\ m - 1 \in Nat /\ c \in 0..(m - 1)
  BY <1>1 DEF m
<1>3. t = [p \in 1..(m - 1) |-> IF p < n + 1 THEN rs[p] ELSE rs[p + 1]]
  BY <1>1, <1>2, RemovedAt
<1>4. IsList(t) /\ Len(t) = m - 1
  BY <1>1, <1>2, RemoveRearranges
<1> HIDE DEF t
<1>5. \A p \in 1..(m - 1) : t[p] = (IF p < n + 1 THEN rs[p] ELSE rs[p + 1]) /\ t[p] \in S
  BY <1>1, <1>3
<1>6. x \in S
  BY <1>1, <1>2
<1> HIDE DEF S
<1>7. t \in Seq(S)
  <2>1. DOMAIN t = 1..(m - 1)
    BY <1>3
  <2> QED BY <1>4, <1>5, <2>1, ListFacts
<1> HIDE DEF x
<1>8. InsertAt(t, c + 1, x) =
        [p \in 1..((m - 1) + 1) |-> IF p <= c THEN t[p] ELSE IF p = c + 1 THEN x ELSE t[p - 1]]
  <2>1. ASSUME NEW d \in Nat, Len(t) = d, c \in 0..d
        PROVE  InsertAt(t, c + 1, x) =
                 [p \in 1..(d + 1) |-> IF p <= c THEN t[p] ELSE IF p = c + 1 THEN x ELSE t[p - 1]]
    BY <1>6, <1>7, <2>1, InsertedAt
  <2> QED BY <1>2, <1>4, <2>1
<1>9. new = [p \in 1..m |-> IF p <= c THEN t[p] ELSE IF p = c + 1 THEN x ELSE t[p - 1]]
  <2>1. (m - 1) + 1 = m
    BY <1>1
  <2> QED BY <1>8, <2>1 DEF t, x, Moved
<1>10. DOMAIN new = 1..m /\ new = [p \in 1..m |-> new[p]]
  BY <1>9
<1>11. IsList(new)
  BY <1>1, <1>10 DEF IsList
<1>12. Len(new) = m
  BY <1>1, <1>10, <1>11, ListFacts
<1>13. ASSUME NEW i \in 1..m
       PROVE  Goes(i, n, c) \in 1..m /\ new[i] = rs[Goes(i, n, c)]
  <2>1. CASE i <= c
    <3>1. i \in 1..(m - 1) /\ i < n + 1 /\ Goes(i, n, c) = i
      BY <1>1, <1>2, <2>1 DEF Goes
    <3> QED BY <1>5, <1>9, <2>1, <3>1
  <2>2. CASE i = c + 1
    <3>1. Goes(i, n, c) = n + 1 /\ ~(i <= c)
      BY <1>1, <1>2, <2>2 DEF Goes
    <3> QED BY <1>2, <1>9, <2>2, <3>1 DEF x
  <2>3. CASE i > c + 1 /\ i <= n + 1
    <3>1. Goes(i, n, c) = i - 1 /\ ~(i <= c) /\ i # c + 1 /\ i - 1 \in 1..(m - 1) /\ i - 1 < n + 1
      BY <1>1, <1>2, <2>3 DEF Goes
    <3>2. new[i] = t[i - 1] /\ t[i - 1] = rs[i - 1] /\ i - 1 \in 1..m
      BY <1>2, <1>5, <1>9, <3>1
    <3> QED BY <3>1, <3>2
  <2>4. CASE i > n + 1
    <3>1. Goes(i, n, c) = i /\ ~(i <= c) /\ i # c + 1 /\ i - 1 \in 1..(m - 1)
          /\ ~(i - 1 < n + 1) /\ (i - 1) + 1 = i
      BY <1>1, <1>2, <2>4 DEF Goes
    <3>2. t[i - 1] = rs[(i - 1) + 1]
      BY <1>5, <3>1
    <3>3. new[i] = t[i - 1]
      <4>1. new[i] = IF i <= c THEN t[i] ELSE IF i = c + 1 THEN x ELSE t[i - 1]
        BY <1>9, Zenon
      <4> QED BY <3>1, <4>1, Zenon
    <3> QED BY <3>1, <3>2, <3>3
  <2>5. i <= c \/ i = c + 1 \/ (i > c + 1 /\ i <= n + 1) \/ i > n + 1
    BY <1>1, <1>2
  <2> QED BY <2>1, <2>2, <2>3, <2>4, <2>5
<1>14. ASSUME NEW i \in 1..m PROVE \E j \in 1..m : Goes(j, n, c) = i
  <2>1. CASE i <= c \/ i > n + 1
    BY <2>1 DEF Goes
  <2>2. CASE i = n + 1
    <3>1. c + 1 \in 1..m /\ Goes(c + 1, n, c) = n + 1
      BY <1>1, <1>2 DEF Goes
    <3> QED BY <2>2, <3>1
  <2>3. CASE i > c /\ i < n + 1
    <3>1. i + 1 \in 1..m /\ Goes(i + 1, n, c) = i
      BY <1>1, <1>2, <2>3 DEF Goes
    <3> QED BY <3>1
  <2>4. i <= c \/ i > n + 1 \/ i = n + 1 \/ (i > c /\ i < n + 1)
    BY <1>1, <1>2
  <2> QED BY <2>1, <2>2, <2>3, <2>4
<1> QED BY <1>2, <1>11, <1>12, <1>13, <1>14 DEF HasMoved

LEMMA PairsMove ==
  ASSUME NEW n \in Nat, NEW c \in 0..n, NEW i \in Nat \ {0}, NEW j \in Nat, i < j
  PROVE  /\ j > n + 1 => Goes(i, n, c) < Goes(j, n, c) /\ Goes(j, n, c) > n
         /\ j <= n + 1 =>
              \/ Goes(i, n, c) < Goes(j, n, c) /\ Goes(j, n, c) <= n
              \/ Goes(i, n, c) \in 1..c /\ Goes(j, n, c) = n + 1
              \/ Goes(i, n, c) = n + 1 /\ Goes(j, n, c) \in (c + 1)..n
<1>1. CASE j > n + 1
  BY <1>1 DEF Goes
<1>2. CASE j <= n + 1 /\ j <= c
  <2>1. Goes(i, n, c) = i /\ Goes(j, n, c) = j
    BY <1>2 DEF Goes
  <2> QED BY <1>2, <2>1
<1>3. CASE j <= n + 1 /\ j = c + 1
  <2>1. Goes(i, n, c) = i /\ Goes(j, n, c) = n + 1 /\ i \in 1..c
    BY <1>3 DEF Goes
  <2> QED BY <1>3, <2>1
<1>4. CASE j <= n + 1 /\ j > c + 1
  <2>1. Goes(j, n, c) = j - 1
    BY <1>4 DEF Goes
  <2>2. Goes(i, n, c) = IF i <= c THEN i ELSE IF i = c + 1 THEN n + 1 ELSE i - 1
    BY <1>4 DEF Goes
  <2>3. CASE i = c + 1
    BY <1>4, <2>1, <2>2, <2>3
  <2>4. CASE i # c + 1
    <3>1. Goes(i, n, c) < j - 1
      BY <1>4, <2>2, <2>4
    <3> QED BY <1>4, <2>1, <3>1
  <2> QED BY <2>3, <2>4
<1>5. j > n + 1 \/ j <= c \/ j = c + 1 \/ j > c + 1
  OBVIOUS
<1> QED BY <1>1, <1>2, <1>3, <1>4, <1>5

LEMMA KeysCompare ==
  ASSUME NEW rs, CanBeSorted(rs), NEW i \in DOMAIN rs, NEW j \in DOMAIN rs
  PROVE  Comparable(KeyAt(rs, i), KeyAt(rs, j))
BY DEF CanBeSorted, Comparable, Compares, KeyAt

\* The row goes behind the rows of a prefix: before it there are only such.
LEMMA AheadIsPrefix ==
  ASSUME IsList(query.orderBy), NEW rs, IsList(rs), CanBeSorted(rs),
         NEW n \in Nat, n < Len(rs), Ordered(n, rs),
         NEW ahead, ahead = {i \in 1..n : ~GoesBefore(KeyAt(rs, n + 1), KeyAt(rs, i))}
  PROVE  /\ Cardinality(ahead) \in 0..n /\ ahead = 1..Cardinality(ahead)
         /\ \A i \in 1..n : i \in ahead <=> ~KeyBefore(KeyAt(rs, n + 1), KeyAt(rs, i))
<1> DEFINE key == KeyAt(rs, n + 1)
           K(i) == KeyAt(rs, i)
<1>1. DOMAIN rs = 1..Len(rs) /\ Len(rs) \in Nat
  BY ListFacts
<1>2. n + 1 \in DOMAIN rs /\ 1..n \subseteq DOMAIN rs
  BY <1>1
<1>3. /\ IsKey(key) /\ \A i : IsKey(K(i))
      /\ \A i \in 1..n : Comparable(key, K(i))
      /\ \A i, j \in 1..n : Comparable(K(i), K(j))
  BY <1>2, OrderKeyIsKey, KeysCompare DEF KeyAt
<1>4. \A i, j \in 1..n : i < j => ~KeyBefore(K(j), K(i))
  BY DEF Ordered
<1> HIDE DEF K, key
<1>5. \A i \in 1..n : i \in ahead <=> ~KeyBefore(key, K(i))
  <2> SUFFICES ASSUME NEW i \in 1..n PROVE i \in ahead <=> ~KeyBefore(key, K(i))
    OBVIOUS
  <2>1. GoesBefore(key, K(i)) <=> KeyBefore(key, K(i))
    BY <1>3, GoesBeforeIsKeyBefore
  <2> QED BY <2>1 DEF key, K
<1>6. ASSUME NEW i \in 1..n, NEW j \in 1..n, i < j, j \in ahead PROVE i \in ahead
  <2> SUFFICES ASSUME KeyBefore(key, K(i)) PROVE FALSE
    BY <1>5
  <2>1. Comparable(key, K(j)) /\ Comparable(K(j), K(i))
    BY <1>3
  <2>2. KeyBefore(key, K(j)) \/ KeyBefore(K(j), K(i))
    BY <2>1, KeyBeforeSplits
  <2> QED BY <1>4, <1>5, <1>6, <2>2
<1>7. ahead \in SUBSET (1..n)
  OBVIOUS
<1>8. Cardinality(ahead) \in 0..n /\ ahead = 1..Cardinality(ahead)
  BY <1>6, <1>7, Prefix
<1> QED BY <1>5, <1>8 DEF key, K

LEMMA RowGoesDown ==
  ASSUME IsList(query.orderBy), NEW rs, IsList(rs),
         NEW n \in Nat, n < Len(rs), Ordered(n, rs),
         NEW ahead, ahead = {i \in 1..n : ~GoesBefore(KeyAt(rs, n + 1), KeyAt(rs, i))},
         NEW new, new = Moved(rs, n, Cardinality(ahead))
  PROVE  /\ IsList(new) /\ Len(new) = Len(rs)
         /\ Ordered(n + 1, new)
         /\ Stable(n, rs) => Stable(n + 1, new)
<1>0. PICK c : c = Cardinality(ahead)
  OBVIOUS
<1> DEFINE m == Len(rs)
           g(i) == Goes(i, n, c)
<1>1. DOMAIN rs = 1..m /\ m \in Nat
  BY ListFacts
<1>2. c \in 0..n
  BY <1>0, CountsOfPlaces
<1>3. /\ IsList(new) /\ Len(new) = m
      /\ \A i \in 1..m : g(i) \in 1..m /\ new[i] = rs[g(i)]
      /\ \A i \in 1..m : \E j \in 1..m : g(j) = i
  <2>1. new = Moved(rs, n, c)
    BY <1>0
  <2>2. HasMoved(new, rs, n, c)
    BY <1>2, <2>1, RowsMove
  <2> QED BY <2>2 DEF HasMoved
<1> HIDE DEF g
<1>4. DOMAIN new = 1..m /\ n + 1 \in 1..m
  BY <1>1, <1>3, ListFacts
<1> HIDE DEF m
<1>5. \A i \in 1..m : KeyAt(new, i) = KeyAt(rs, g(i))
  BY <1>3 DEF KeyAt
<1>6. CanBeSorted(new) => CanBeSorted(rs)
  <2> SUFFICES ASSUME CanBeSorted(new), NEW i \in 1..m, NEW j \in 1..m,
                      NEW k \in DOMAIN query.orderBy
               PROVE  Compares(OrderKey(rs[i])[k], OrderKey(rs[j])[k])
    BY <1>1 DEF CanBeSorted, Compares
  <2>1. PICK p \in 1..m, q \in 1..m : g(p) = i /\ g(q) = j
    BY <1>3
  <2>2. new[p] = rs[i] /\ new[q] = rs[j]
    BY <1>3, <2>1
  <2>3. Compares(OrderKey(new[p])[k], OrderKey(new[q])[k])
    BY <1>4 DEF CanBeSorted, Compares
  <2> QED BY <2>2, <2>3
<1>7. ASSUME CanBeSorted(new)
      PROVE  /\ Ordered(n + 1, new)
             /\ Stable(n, rs) => Stable(n + 1, new)
  <2>1. CanBeSorted(rs)
    BY <1>6, <1>7
  <2>2. /\ ahead = 1..c
        /\ \A i \in 1..n : i \in ahead <=> ~KeyBefore(KeyAt(rs, n + 1), KeyAt(rs, i))
    BY <1>0, <2>1, AheadIsPrefix DEF m
  <2>3. ASSUME NEW i \in 1..m, NEW j \in 1..m, i < j
        PROVE  /\ g(i) \in 1..m /\ g(j) \in 1..m
               /\ j > n + 1 => g(i) < g(j) /\ g(j) > n
               /\ j <= n + 1 =>
                    \/ g(i) < g(j) /\ g(i) \in 1..n /\ g(j) \in 1..n
                    \/ g(i) \in 1..n /\ g(i) \in ahead /\ g(j) = n + 1
                    \/ g(i) = n + 1 /\ g(j) \in 1..n /\ g(j) \notin ahead
    <3>1. g(i) \in 1..m /\ g(j) \in 1..m
      BY <1>3
    <3>2. i \in Nat \ {0} /\ j \in Nat
      BY <1>1
    <3>3. /\ j > n + 1 => g(i) < g(j) /\ g(j) > n
          /\ j <= n + 1 =>
               \/ g(i) < g(j) /\ g(j) <= n
               \/ g(i) \in 1..c /\ g(j) = n + 1
               \/ g(i) = n + 1 /\ g(j) \in (c + 1)..n
      BY <1>2, <2>3, <3>2, PairsMove DEF g
    <3>4. 1..c \subseteq 1..n /\ (c + 1)..n \subseteq 1..n /\ \A q \in (c + 1)..n : q \notin 1..c
      BY <1>2
    <3>5. g(i) < g(j) /\ g(j) <= n => g(i) \in 1..n /\ g(j) \in 1..n
      BY <1>1, <3>1
    <3> QED BY <2>2, <3>1, <3>3, <3>4, <3>5
  <2>4. n + 1 \in DOMAIN rs /\ 1..n \subseteq 1..m /\ 1..(n + 1) \subseteq 1..m
    BY <1>1, <1>4
  <2>5. ASSUME NEW q \in 1..n, q \notin ahead
        PROVE  /\ KeyBefore(KeyAt(rs, n + 1), KeyAt(rs, q))
               /\ ~KeyBefore(KeyAt(rs, q), KeyAt(rs, n + 1))
    <3>1. KeyBefore(KeyAt(rs, n + 1), KeyAt(rs, q))
      BY <2>2, <2>5
    <3>2. Comparable(KeyAt(rs, n + 1), KeyAt(rs, q))
      BY <1>1, <2>1, <2>4, KeysCompare
    <3> QED BY <3>1, <3>2, KeyBeforeIsStrict
  <2>6. ASSUME NEW i \in 1..(n + 1), NEW j \in 1..(n + 1), i < j
        PROVE  ~KeyBefore(KeyAt(rs, g(j)), KeyAt(rs, g(i)))
    <3>1. i \in 1..m /\ j \in 1..m /\ j <= n + 1
      BY <2>4, <2>6
    <3>2. \/ g(i) < g(j) /\ g(i) \in 1..n /\ g(j) \in 1..n
          \/ g(i) \in 1..n /\ g(i) \in ahead /\ g(j) = n + 1
          \/ g(i) = n + 1 /\ g(j) \in 1..n /\ g(j) \notin ahead
      BY <2>3, <2>6, <3>1
    <3>3. \A p, q \in 1..n : p < q => ~KeyBefore(KeyAt(rs, q), KeyAt(rs, p))
      BY <2>1 DEF Ordered
    <3> QED BY <2>2, <2>5, <3>2, <3>3
  <2>7. Ordered(n + 1, new)
    BY <1>5, <2>4, <2>6 DEF Ordered
  <2>8. ASSUME NEW o, Origins(o, n, rs)
        PROVE  Origins([i \in 1..m |-> o[g(i)]], n + 1, new)
    <3> DEFINE h == [i \in 1..m |-> o[g(i)]]
    <3>1. \A i \in 1..m : h[i] = o[g(i)] /\ g(i) \in DOMAIN rs
      BY <1>1, <1>3 DEF g
    <3> HIDE DEF h
    <3>2. ASSUME NEW i \in DOMAIN new
          PROVE  h[i] \in 1..RowCount /\ relation.rows[h[i]] = new[i].source
      <4>1. i \in 1..m /\ new[i] = rs[g(i)] /\ h[i] = o[g(i)] /\ g(i) \in DOMAIN rs
        BY <1>3, <1>4, <3>1 DEF g
      <4> QED BY <2>8, <4>1 DEF Origins
    <3>3. ASSUME NEW i \in DOMAIN new, NEW j \in DOMAIN new, i < j,
                 j > n + 1 \/ ~KeyBefore(KeyAt(new, i), KeyAt(new, j))
          PROVE  h[i] < h[j]
      <4>1. i \in 1..m /\ j \in 1..m /\ g(i) \in DOMAIN rs /\ g(j) \in DOMAIN rs
        BY <1>4, <3>1
      <4>2. j > n + 1 \/ ~KeyBefore(KeyAt(rs, g(i)), KeyAt(rs, g(j)))
        BY <1>5, <3>3, <4>1
      <4>3. g(i) < g(j) /\ (g(j) > n \/ ~KeyBefore(KeyAt(rs, g(i)), KeyAt(rs, g(j))))
        <5>1. CASE j > n + 1
          BY <2>3, <3>3, <4>1, <5>1
        <5>2. CASE j <= n + 1
          <6>1. ~KeyBefore(KeyAt(rs, g(i)), KeyAt(rs, g(j)))
            BY <1>1, <4>1, <4>2, <5>2
          <6>2. ~(g(i) = n + 1 /\ g(j) \in 1..n /\ g(j) \notin ahead)
            BY <2>5, <6>1
          <6>3. \/ g(i) < g(j) /\ g(i) \in 1..n /\ g(j) \in 1..n
                \/ g(i) \in 1..n /\ g(i) \in ahead /\ g(j) = n + 1
            BY <2>3, <3>3, <4>1, <5>2, <6>2
          <6> QED BY <6>1, <6>3
        <5> QED BY <1>1, <4>1, <5>1, <5>2
      <4>4. o[g(i)] < o[g(j)]
        BY <2>8, <4>1, <4>3 DEF Origins
      <4> QED BY <3>1, <4>1, <4>4
    <3> QED BY <3>2, <3>3 DEF Origins, h
  <2>9. Stable(n, rs) => Stable(n + 1, new)
    BY <2>1, <2>8 DEF Stable
  <2> QED BY <2>7, <2>9
<1>8. ~CanBeSorted(new) => Ordered(n + 1, new) /\ Stable(n + 1, new)
  BY DEF Ordered, Stable
<1> QED BY <1>3, <1>7, <1>8 DEF m

LEMMA SortEnds ==
  ASSUME IsList(query.orderBy), NEW rs, IsList(rs), NEW n \in Nat, Ordered(n, rs),
         query.orderBy = <<>> \/ Len(rs) <= 1 \/ n = Len(rs)
  PROVE  /\ Ordered(Len(rs), rs)
         /\ Stable(n, rs) => Stable(Len(rs), rs)
<1>1. DOMAIN rs = 1..Len(rs) /\ Len(rs) \in Nat
  BY ListFacts
<1>2. CASE n = Len(rs)
  BY <1>2
<1>3. CASE query.orderBy = <<>>
  <2>1. DOMAIN query.orderBy = {}
    BY <1>3
  <2>2. \A t, u : ~KeyBefore(t, u)
    BY <2>1 DEF KeyBefore
  <2> QED BY <2>2, Zenon DEF Ordered, Stable, Origins
<1>4. CASE Len(rs) <= 1
  <2>1. PICK m : m = Len(rs)
    OBVIOUS
  <2>2. m \in Nat /\ m <= 1
    BY <1>1, <1>4, <2>1
  <2>3. \A i, j \in 1..m : ~(i < j)
    BY <2>2
  <2> QED BY <1>1, <2>1, <2>3, Zenon DEF Ordered, Stable, Origins
<1> QED BY <1>2, <1>3, <1>4

-----------------------------------------------------------------------------
(***************************************************************************)
(* Rows in the order in which the table has them                           *)
(***************************************************************************)
Ascends(o, n, list) ==
  /\ \A i \in DOMAIN list : o[i] \in 1..n /\ relation.rows[o[i]] = list[i]
  /\ \A i, j \in DOMAIN list : i < j => o[i] < o[j]

InOrder(n, list) == IsList(list) /\ \E o : Ascends(o, n, list)

LEMMA NothingInOrder ==
  ASSUME NEW n
  PROVE  InOrder(n, <<>>)
<1>1. IsList(<<>>) /\ DOMAIN <<>> = {}
  BY DEF IsList
<1>2. Ascends(<<>>, n, <<>>)
  BY <1>1, Zenon DEF Ascends
<1> QED BY <1>1, <1>2 DEF InOrder

LEMMA MoreInOrder ==
  ASSUME NEW n \in Nat, NEW list, InOrder(n, list)
  PROVE  /\ InOrder(n + 1, list)
         /\ InOrder(n + 1, Append(list, relation.rows[n + 1]))
<1> DEFINE m == Len(list)
           row == relation.rows[n + 1]
           S == {list[i] : i \in DOMAIN list} \cup {row}
           new == Append(list, row)
<1>1. IsList(list) /\ m \in Nat /\ DOMAIN list = 1..m /\ list \in Seq(S)
  BY ListFacts DEF InOrder
<1>2. row \in S
  OBVIOUS
<1> HIDE DEF S, m, row
<1>3. Len(list) = m
  BY DEF m
<1>4. new \in Seq(S) /\ Len(new) = m + 1 /\ new[m + 1] = row /\ \A i \in 1..m : new[i] = list[i]
  BY <1>1, <1>2, <1>3, AppendProperties
<1>5. IsList(new) /\ DOMAIN new = 1..(m + 1)
  BY <1>4, SequenceIsList, ListFacts
<1> HIDE DEF new
<1>6. PICK o : Ascends(o, n, list)
  BY DEF InOrder
<1>7. Ascends(o, n + 1, list)
  BY <1>6 DEF Ascends
<1> DEFINE p == [i \in 1..(m + 1) |-> IF i = m + 1 THEN n + 1 ELSE o[i]]
<1>8. ASSUME NEW i \in 1..(m + 1)
      PROVE  p[i] \in 1..(n + 1) /\ relation.rows[p[i]] = new[i]
  <2>1. CASE i = m + 1
    BY <1>4, <2>1 DEF row
  <2>2. CASE i # m + 1
    <3>1. i \in 1..m /\ p[i] = o[i]
      BY <1>1, <2>2
    <3>2. o[i] \in 1..n /\ relation.rows[o[i]] = list[i]
      BY <1>1, <1>6, <3>1 DEF Ascends
    <3> QED BY <1>4, <3>1, <3>2
  <2> QED BY <2>1, <2>2
<1>9. ASSUME NEW i \in 1..(m + 1), NEW j \in 1..(m + 1), i < j PROVE p[i] < p[j]
  <2>1. i \in 1..m /\ p[i] = o[i] /\ o[i] \in 1..n
    BY <1>1, <1>6, <1>9 DEF Ascends
  <2>2. CASE j = m + 1
    BY <2>1, <2>2
  <2>3. CASE j # m + 1
    <3>1. j \in 1..m /\ p[j] = o[j]
      BY <1>1, <2>3
    <3> QED BY <1>1, <1>6, <1>9, <2>1, <3>1 DEF Ascends
  <2> QED BY <2>2, <2>3
<1> HIDE DEF p
<1>10. Ascends(p, n + 1, new)
  BY <1>5, <1>8, <1>9 DEF Ascends
<1> QED BY <1>1, <1>5, <1>7, <1>10 DEF InOrder, new, row

LEMMA FewerInOrder ==
  ASSUME NEW n \in Nat, NEW list, InOrder(n, list), NEW k \in 1..Len(list)
  PROVE  InOrder(n, RemoveAt(list, k))
<1> DEFINE m == Len(list)
           new == RemoveAt(list, k)
<1>1. IsList(list) /\ m \in Nat /\ DOMAIN list = 1..m
  BY ListFacts DEF InOrder
<1> HIDE DEF m
<1>2. Len(list) = m /\ k \in 1..m
  BY DEF m
<1>3. new = [p \in 1..(m - 1) |-> IF p < k THEN list[p] ELSE list[p + 1]]
  BY <1>1, <1>2, RemovedAt
<1>4. IsList(new)
  BY <1>1, <1>2, RemoveRearranges
<1> HIDE DEF new
<1>5. PICK o : Ascends(o, n, list)
  BY DEF InOrder
<1> DEFINE q(i) == IF i < k THEN i ELSE i + 1
           p == [i \in 1..(m - 1) |-> o[q(i)]]
<1>6. /\ \A i \in 1..(m - 1) : q(i) \in 1..m /\ new[i] = list[q(i)] /\ p[i] = o[q(i)]
      /\ \A i, j \in 1..(m - 1) : i < j => q(i) < q(j)
  BY <1>1, <1>2, <1>3
<1>7. DOMAIN new = 1..(m - 1)
  BY <1>3
<1> HIDE DEF p, q
<1>8. Ascends(p, n, new)
  BY <1>1, <1>5, <1>6, <1>7 DEF Ascends
<1> QED BY <1>4, <1>8 DEF InOrder, new

LEMMA SourcesRemoved ==
  ASSUME NEW rs, IsList(rs), NEW k \in 1..Len(rs)
  PROVE  IsList(SourcesOf(rs)) /\ SourcesOf(RemoveAt(rs, k)) = RemoveAt(SourcesOf(rs), k)
<1> DEFINE m == Len(rs)
           s == SourcesOf(rs)
<1>1. m \in Nat /\ DOMAIN rs = 1..m
  BY ListFacts
<1> HIDE DEF m
<1>2. Len(rs) = m /\ k \in 1..m
  BY DEF m
<1>3. s = [i \in 1..m |-> rs[i].source]
  BY <1>1 DEF SourcesOf
<1> HIDE DEF s
<1>4. IsList(s) /\ Len(s) = m
  <2>1. DOMAIN s = 1..m /\ s = [i \in 1..m |-> s[i]]
    BY <1>3
  <2>2. IsList(s)
    BY <1>1, <2>1 DEF IsList
  <2> QED BY <1>1, <2>1, <2>2, ListFacts
<1>5. RemoveAt(rs, k) = [p \in 1..(m - 1) |-> IF p < k THEN rs[p] ELSE rs[p + 1]]
  BY <1>1, <1>2, RemovedAt
<1>6. RemoveAt(s, k) = [p \in 1..(m - 1) |-> IF p < k THEN s[p] ELSE s[p + 1]]
  BY <1>1, <1>2, <1>4, RemovedAt
<1>7. \A p \in 1..(m - 1) : p \in 1..m /\ p + 1 \in 1..m
  BY <1>1
<1>8. SourcesOf(RemoveAt(rs, k)) =
        [p \in 1..(m - 1) |-> (IF p < k THEN rs[p] ELSE rs[p + 1]).source]
  BY <1>5 DEF SourcesOf
<1>9. \A p \in 1..(m - 1) :
        (IF p < k THEN rs[p] ELSE rs[p + 1]).source = IF p < k THEN s[p] ELSE s[p + 1]
  BY <1>3, <1>7
<1> QED BY <1>4, <1>6, <1>8, <1>9 DEF s

LEMMA InOrderIsStable ==
  ASSUME JoinInv, NEW rs, InOrder(RowCount, SourcesOf(rs)), IsList(rs)
  PROVE  Stable(0, rs)
<1>1. PICK o : Ascends(o, RowCount, SourcesOf(rs))
  BY DEF InOrder
<1>2. DOMAIN SourcesOf(rs) = DOMAIN rs /\ \A i \in DOMAIN rs : SourcesOf(rs)[i] = rs[i].source
  BY DEF SourcesOf
<1>3. Origins(o, 0, rs)
  BY <1>1, <1>2 DEF Ascends, Origins
<1> QED BY <1>3 DEF Stable

(***************************************************************************)
(* Without GROUP BY there is one group, with the rows in that order; they  *)
(* are selected in it.                                                     *)
(***************************************************************************)
Ungrouped == Plain /\ query.groupBy = <<>>

OneGroup(n, gs) ==
  /\ n \in 0..RowCount
  /\ \/ gs = <<>>
     \/ \E list : gs = <<[key |-> <<>>, rows |-> list]>> /\ InOrder(n, list)

LEMMA NoGroupBy ==
  ASSUME query.groupBy = <<>>, NEW row
  PROVE  GroupKey(row) = <<>> /\ SameKeyOf(<<>>, <<>>)
<1> DEFINE list == [k \in DOMAIN query.groupBy |->
                      InTable(query.groupBy[k], relation.columns, row)]
<1>1. list = <<>> /\ IsList(<<>>)
  BY DEF IsList
<1>2. Once(<<>>) = <<>>
  BY <1>1, OnceIsSame
<1>3. GroupKey(row) = <<>>
  BY <1>1, <1>2 DEF GroupKey
<1>4. Fields(<<>>, <<>>) = {}
  BY DEF Fields
<1>5. ~TupleLess(<<>>, <<>>)
  BY <1>4 DEF TupleLess
<1> QED BY <1>3, <1>5 DEF SameKeyOf

LEMMA OneGroupGrows ==
  ASSUME JoinInv, NEW n, n < RowCount, NEW gs, OneGroup(n, gs), query.groupBy = <<>>,
         NEW row, row = relation.rows[n + 1]
  PROVE  OneGroup(n + 1, gs) /\ OneGroup(n + 1, AddToGroup(gs, GroupKey(row), row))
<1> DEFINE key == GroupKey(row)
           new == AddToGroup(gs, key, row)
           same == {i \in DOMAIN gs : SameKeyOf(key, gs[i].key)}
           before == {i \in DOMAIN gs : TupleLess(gs[i].key, key)}
           entry(list) == [key |-> <<>>, rows |-> list]
<1>1. n \in Nat /\ n + 1 \in 0..RowCount
  BY TableFacts DEF OneGroup
<1>2. key = <<>> /\ SameKeyOf(<<>>, <<>>)
  BY NoGroupBy
<1> HIDE DEF key
<1>3. CASE gs = <<>>
  <2>1. DOMAIN gs = {} /\ Len(gs) = 0 /\ IsList(gs) /\ same = {} /\ before = {}
    BY <1>3 DEF IsList
  <2> DEFINE g == entry(<<row>>)
             k == Cardinality(before)
  <2>2. k = 0 /\ k \in 0..Len(gs)
    BY <2>1, FS_EmptySet
  <2>3. new = InsertAt(gs, k + 1, [key |-> key, rows |-> <<row>>])
    BY <2>1 DEF AddToGroup
  <2>4. [key |-> key, rows |-> <<row>>] = g
    BY <1>2
  <2> HIDE DEF new, g, k
  <2>5. IsList(new) /\ Len(new) = Len(gs) + 1 /\ new[k + 1] = g
    <3>1. IsList(gs) /\ k \in 0..Len(gs)
      BY <2>1, <2>2
    <3>2. new = InsertAt(gs, k + 1, g)
      BY <2>3, <2>4
    <3> QED BY <3>1, <3>2, InsertRearranges
  <2>6. new = [i \in 1..1 |-> new[i]] /\ new[1] = g
    <3>1. new = [i \in 1..Len(new) |-> new[i]]
      BY <2>5, ListFacts
    <3> QED BY <2>1, <2>2, <2>5, <3>1
  <2>7. new = <<g>>
    BY <2>6
  <2>8. Append(<<>>, row) = <<row>>
    OBVIOUS
  <2>9. InOrder(n + 1, <<row>>)
    BY <1>1, <2>8, NothingInOrder, MoreInOrder
  <2>10. OneGroup(n + 1, new)
    BY <1>1, <2>7, <2>9, Zenon DEF OneGroup, g
  <2> QED BY <1>1, <1>3, <2>10 DEF OneGroup, new, key
<1>4. CASE gs # <<>>
  <2>1. PICK list : gs = <<entry(list)>> /\ InOrder(n, list)
    BY <1>4 DEF OneGroup
  <2>2. DOMAIN gs = {1} /\ gs[1].key = <<>> /\ gs[1].rows = list
    BY <2>1
  <2>3. same = {1}
    BY <1>2, <2>2
  <2>4. First({1}) = 1
    <3>1. {1} \in SUBSET (1..1)
      OBVIOUS
    <3>2. First({1}) \in {1}
      BY <3>1, FirstOf
    <3> QED BY <3>2
  <2>5. new = [gs EXCEPT ![1].rows = Append(@, row)]
    BY <2>3, <2>4 DEF AddToGroup
  <2>6. new = <<entry(Append(list, row))>>
    <3>1. new = [gs EXCEPT ![1] = [gs[1] EXCEPT !.rows = Append(gs[1].rows, row)]]
      BY <2>5
    <3>2. gs[1] = entry(list)
      BY <2>1
    <3>3. ASSUME NEW x PROVE [entry(list) EXCEPT !.rows = x] = entry(x)
      OBVIOUS
    <3>4. [gs[1] EXCEPT !.rows = Append(gs[1].rows, row)] = entry(Append(list, row))
      BY <2>2, <3>2, <3>3
    <3> HIDE DEF new, entry
    <3>5. new = [gs EXCEPT ![1] = entry(Append(list, row))] /\ gs = <<entry(list)>>
      BY <2>1, <3>1, <3>4
    <3>6. ASSUME NEW x, NEW y PROVE [<<x>> EXCEPT ![1] = y] = <<y>>
      OBVIOUS
    <3> QED BY <3>5, <3>6
  <2>7. InOrder(n + 1, list) /\ InOrder(n + 1, Append(list, row))
    BY <1>1, <2>1, MoreInOrder
  <2>8. OneGroup(n + 1, gs)
    BY <1>1, <2>1, <2>7, Zenon DEF OneGroup
  <2>9. OneGroup(n + 1, new)
    BY <1>1, <2>6, <2>7, Zenon DEF OneGroup
  <2> QED BY <2>8, <2>9 DEF key
<1> QED BY <1>3, <1>4

LEMMA SelectedAreSources ==
  ASSUME NEW g, IsList(g.rows),
         NEW new, new = Once([r \in DOMAIN g.rows |-> SelectedRow(g.rows[r], g)])
  PROVE  IsList(new) /\ SourcesOf(new) = g.rows
<1> DEFINE list == [r \in DOMAIN g.rows |-> SelectedRow(g.rows[r], g)]
<1>1. Len(g.rows) \in Nat /\ DOMAIN g.rows = 1..Len(g.rows)
      /\ g.rows = [r \in DOMAIN g.rows |-> g.rows[r]]
  BY ListFacts
<1>2. IsList(list)
  BY <1>1 DEF IsList
<1>3. new = list
  BY <1>2, OnceIsSame
<1>4. \A x : SelectedRow(x, g).source = x
  BY DEF SelectedRow
<1>5. DOMAIN new = DOMAIN g.rows /\ \A r \in DOMAIN new : new[r].source = g.rows[r]
  BY <1>3, <1>4
<1> QED BY <1>1, <1>2, <1>3, <1>5 DEF SourcesOf

-----------------------------------------------------------------------------
(***************************************************************************)
(* The invariant: what is ordered by now, and what is where it was.        *)
(***************************************************************************)
AfterSort == {"union", "value", "table", "done"}

StatementInv ==
  /\ IsList(query.orderBy) /\ IsList(rows) /\ at \in Nat
  /\ from.type = "none" => joining = "index"
  /\ stage = "collect" => from.type # "none"
  /\ stage = "select" => Plain
  /\ stage \in AfterSort \ {"done"} => query.use.as = stage
  /\ stage = "done" /\ query.use.as = "done" => \A i \in DOMAIN result : result[i] = rows[i].tuple

SortInv ==
  /\ stage = "order" => Ordered(at, rows)
  /\ stage \in AfterSort => Ordered(Len(rows), rows)

SelectedInOrder(n, gs, rs) ==
  /\ OneGroup(RowCount, gs)
  /\ n = 0 => rs = <<>>
  /\ InOrder(RowCount, SourcesOf(rs))

PlaceInv ==
  Ungrouped =>
    /\ stage = "collect" => OneGroup(at, groups)
    /\ stage = "select" => SelectedInOrder(at, groups, rows)
    /\ stage = "distinct" => InOrder(RowCount, SourcesOf(rows))
    /\ stage = "order" => Stable(at, rows)
    /\ stage \in AfterSort => Stable(Len(rows), rows)

OrderInv == StatementInv /\ SortInv /\ PlaceInv

LEMMA SameOrder ==
  ASSUME UNCHANGED <<from, query, relation>>
  PROVE  /\ Ungrouped' <=> Ungrouped
         /\ \A n, gs : OneGroup(n, gs)' <=> OneGroup(n, gs)
         /\ \A n, gs, rs : SelectedInOrder(n, gs, rs)' <=> SelectedInOrder(n, gs, rs)
         /\ \A list : InOrder(RowCount, list)' <=> InOrder(RowCount, list)
         /\ \A n, rs : Ordered(n, rs)' <=> Ordered(n, rs)
         /\ \A n, rs : Stable(n, rs)' <=> Stable(n, rs)
<1>1. Ungrouped' <=> Ungrouped
  BY SameStatement DEF Ungrouped
<1>2. RowCount' = RowCount
  BY DEF RowCount
<1>3. \A o, n, list : Ascends(o, n, list)' <=> Ascends(o, n, list)
  BY DEF Ascends
<1>4. \A n, list : InOrder(n, list)' <=> InOrder(n, list)
  BY <1>3 DEF InOrder
<1>5. \A n, gs : OneGroup(n, gs)' <=> OneGroup(n, gs)
  BY <1>2, <1>4 DEF OneGroup
<1>6. \A n, gs, rs : SelectedInOrder(n, gs, rs)' <=> SelectedInOrder(n, gs, rs)
  BY <1>2, <1>4, <1>5 DEF SelectedInOrder
<1>7. \A row : OrderKey(row)' = OrderKey(row)
  BY DEF OrderKey, Frame, Columns
<1>8. \A rs, i : KeyAt(rs, i)' = KeyAt(rs, i)
  BY <1>7 DEF KeyAt
<1>9. \A t, u : KeyBefore(t, u)' <=> KeyBefore(t, u)
  BY DEF KeyBefore
<1>10. \A rs : CanBeSorted(rs)' <=> CanBeSorted(rs)
  BY <1>7 DEF CanBeSorted
<1>11. \A n, rs : Ordered(n, rs)' <=> Ordered(n, rs)
  BY <1>8, <1>9, <1>10 DEF Ordered
<1>12. \A o, n, rs : Origins(o, n, rs)' <=> Origins(o, n, rs)
  BY <1>2, <1>8, <1>9 DEF Origins
<1>13. \A n, rs : Stable(n, rs)' <=> Stable(n, rs)
  BY <1>10, <1>12 DEF Stable
<1>14. \A list : InOrder(RowCount, list)' <=> InOrder(RowCount, list)
  BY <1>2, <1>4
<1> QED BY <1>1, <1>5, <1>6, <1>11, <1>13, <1>14

LEMMA SelectionInOrder ==
  ASSUME JoinInv, NEW n \in Nat, NEW gs, n < Len(gs), NEW rs, SelectedInOrder(n, gs, rs),
         NEW new, new = Once([r \in DOMAIN gs[n + 1].rows |->
                                SelectedRow(gs[n + 1].rows[r], gs[n + 1])])
  PROVE  SelectedInOrder(n + 1, gs, rs \o new)
<1>1. PICK list : gs = <<[key |-> <<>>, rows |-> list]>> /\ InOrder(RowCount, list)
  <2>1. gs # <<>>
    BY Len(<<>>) = 0
  <2> QED BY <2>1 DEF SelectedInOrder, OneGroup
<1> DEFINE g == gs[n + 1]
<1>2. n = 0 /\ g = [key |-> <<>>, rows |-> list]
  <2>1. Len(gs) = 1
    BY <1>1
  <2> QED BY <1>1, <2>1
<1>3. g.rows = list /\ IsList(list)
  BY <1>1, <1>2 DEF InOrder
<1>4. rs = <<>>
  BY <1>2 DEF SelectedInOrder
<1> HIDE DEF g
<1>5. IsList(new) /\ SourcesOf(new) = list
  BY <1>3, SelectedAreSources DEF g
<1>6. rs \o new = new
  <2>1. \A S : new \in Seq(S) => <<>> \o new = new
    OBVIOUS
  <2>2. new \in Seq({new[i] : i \in DOMAIN new})
    BY <1>5, ListFacts
  <2> QED BY <1>4, <2>1, <2>2
<1> QED BY <1>1, <1>2, <1>5, <1>6 DEF SelectedInOrder

-----------------------------------------------------------------------------
(***************************************************************************)
(* The steps                                                               *)
(***************************************************************************)
LEMMA ErrorKeepsOrder ==
  ASSUME StatementInv, UNCHANGED <<from, query, relation, joining>>, \E x : Fail(x)
  PROVE  OrderInv'
<1>1. stage' \in {"error", "undefined"} /\ UNCHANGED <<at, rows>>
  BY DEF Fail
<1>2. stage' \notin {"collect", "select", "distinct", "order"} \cup AfterSort
  BY <1>1 DEF AfterSort
<1>3. StatementInv'
  BY <1>1, <1>2 DEF StatementInv, AfterSort
<1> QED BY <1>2, <1>3 DEF OrderInv, SortInv, PlaceInv

LEMMA FromKeepsOrder ==
  ASSUME JoinInv, ClauseInv, OrderInv, UNCHANGED <<from, query, relation, joining>>,
         FromEvaluated \/ SelectWithoutFrom
  PROVE  OrderInv'
<1>1. StatementInv /\ stage = "from" /\ at = 0 /\ groups = <<>> /\ rows = <<>>
  BY DEF OrderInv, ClauseInv, FromEvaluated, SelectWithoutFrom
<1>2. CASE FromEvaluated
  <2>1. /\ UNCHANGED <<at, groups, rows>>
        /\ stage' \in {"error", "undefined"} \/ (joining = "done" /\ stage' = "collect")
    BY <1>2 DEF FromEvaluated, Ends
  <2>2. OneGroup(at', groups')
    BY <1>1, <2>1, TableFacts DEF OneGroup
  <2>3. stage' \notin {"select", "distinct", "order"} \cup AfterSort
    BY <2>1 DEF AfterSort
  <2>4. stage' = "collect" => from.type # "none"
    BY <1>1, <2>1 DEF StatementInv
  <2>5. StatementInv'
    BY <1>1, <2>1, <2>3, <2>4 DEF StatementInv, AfterSort
  <2>6. PlaceInv'
    BY <2>2, <2>3, SameOrder DEF PlaceInv
  <2> QED BY <2>3, <2>5, <2>6 DEF OrderInv, SortInv
<1>3. CASE SelectWithoutFrom
  <2>1. \/ \E x : Fail(x)
        \/ /\ \E r : rows' = <<r>>
           /\ stage' = "distinct" /\ UNCHANGED at
    BY <1>3 DEF SelectWithoutFrom
  <2>2. from.type = "none"
    BY <1>3 DEF SelectWithoutFrom
  <2>3. CASE \E x : Fail(x)
    BY <1>1, <2>3, ErrorKeepsOrder
  <2>4. CASE (\E r : rows' = <<r>>) /\ stage' = "distinct" /\ UNCHANGED at
    <3>1. IsList(rows')
      <4>1. PICK r : rows' = <<r>>
        BY <2>4
      <4>2. rows' \in Seq({r})
        BY <4>1
      <4> QED BY <4>2, SequenceIsList
    <3>2. stage' \notin {"collect", "select", "order"} \cup AfterSort
      BY <2>4 DEF AfterSort
    <3>3. StatementInv'
      BY <1>1, <2>2, <2>4, <3>1, <3>2 DEF StatementInv, AfterSort
    <3>4. ~Ungrouped'
      BY <2>2, SameOrder DEF Ungrouped, Plain
    <3> QED BY <3>2, <3>3, <3>4 DEF OrderInv, SortInv, PlaceInv
  <2> QED BY <2>1, <2>3, <2>4
<1> QED BY <1>2, <1>3

LEMMA WhereKeepsOrder ==
  ASSUME JoinInv, ClauseInv, OrderInv, UNCHANGED <<from, query, relation, joining>>,
         CollectRow \/ RowsCollected
  PROVE  OrderInv'
<1>1. stage = "collect" /\ StatementInv
  BY DEF OrderInv, CollectRow, RowsCollected
<1>2. Ungrouped => OneGroup(at, groups) /\ query.groupBy = <<>>
  BY <1>1 DEF OrderInv, PlaceInv, Ungrouped
<1>3. Plain => rows = <<>>
  BY <1>1 DEF ClauseInv
<1>4. CASE \E x : Fail(x)
  BY <1>1, <1>4, ErrorKeepsOrder
<1>5. CASE CollectRow /\ ~ \E x : Fail(x)
  <2>1. PICK row \in {relation.rows[at + 1]} : \E included \in {Included(row)} :
          \/ IsError(included) /\ Fail(included)
          \/ /\ included = No
             /\ at' = at + 1
             /\ UNCHANGED <<query, stage, groups, rows, result>>
          \/ /\ included = Yes
             /\ \E key \in {GroupKey(row)} :
                  IF IsError(FirstError(key)) THEN Fail(Error)
                  ELSE /\ at' = at + 1
                       /\ groups' = AddToGroup(groups, key, row)
                       /\ UNCHANGED <<query, stage, rows, result>>
    BY <1>5 DEF CollectRow
  <2>2. /\ row = relation.rows[at + 1] /\ at < RowCount
        /\ at' = at + 1 /\ UNCHANGED <<stage, rows>>
        /\ groups' \in {groups, AddToGroup(groups, GroupKey(row), row)}
    BY <1>5, <2>1 DEF CollectRow, RowCount
  <2>3. Ungrouped => OneGroup(at', groups')
    BY <1>2, <2>2, OneGroupGrows
  <2>4. stage' = "collect" /\ stage' \notin {"select", "distinct", "order"} \cup AfterSort
    BY <1>1, <2>2 DEF AfterSort
  <2>5. StatementInv'
    BY <1>1, <2>2, <2>4 DEF StatementInv, AfterSort
  <2>6. PlaceInv'
    BY <2>3, <2>4, SameOrder DEF PlaceInv
  <2> QED BY <2>4, <2>5, <2>6 DEF OrderInv, SortInv
<1>6. CASE RowsCollected /\ ~ \E x : Fail(x)
  <2>1. /\ stage' = IF ShouldGroup THEN "group" ELSE "select"
        /\ at' = 0 /\ UNCHANGED rows /\ at = RowCount
        /\ groups' = IF relation.rows = <<>> /\ ShouldGroup THEN EmptyGroup ELSE groups
    BY <1>6 DEF RowsCollected, RowCount
  <2>2. stage' \notin {"collect", "distinct", "order"} \cup AfterSort
    BY <2>1 DEF AfterSort
  <2>3. from.type # "none"
    BY <1>1 DEF StatementInv
  <2>4. stage' = "select" => Plain
    BY <2>1, <2>3 DEF Plain
  <2>5. Plain' <=> Plain
    BY SameStatement
  <2>6. StatementInv'
    BY <1>1, <2>1, <2>2, <2>4, <2>5 DEF StatementInv, AfterSort
  <2>7. Ungrouped => SelectedInOrder(at', groups', rows')
    <3> SUFFICES ASSUME Ungrouped PROVE SelectedInOrder(at', groups', rows')
      OBVIOUS
    <3>1. groups' = groups /\ rows' = <<>>
      BY <1>3, <2>1 DEF Ungrouped, Plain
    <3>2. SourcesOf(<<>>) = <<>>
      BY DEF SourcesOf
    <3> QED BY <1>2, <2>1, <3>1, <3>2, NothingInOrder DEF SelectedInOrder
  <2>8. PlaceInv'
    BY <2>2, <2>7, SameOrder DEF PlaceInv
  <2> QED BY <2>2, <2>6, <2>8 DEF OrderInv, SortInv
<1> QED BY <1>4, <1>5, <1>6

LEMMA ColumnsKeepOrder ==
  ASSUME JoinInv, ClauseInv, OrderInv, UNCHANGED <<from, query, relation, joining>>,
         EvaluateRows \/ RowsSelected \/ EvaluateGroup
  PROVE  OrderInv'
<1>1. StatementInv /\ stage \in {"group", "select"} /\ at \in Nat /\ IsList(rows)
  BY DEF OrderInv, StatementInv, EvaluateRows, RowsSelected, EvaluateGroup
<1>2. Plain' <=> Plain
  BY SameStatement
<1>3. CASE \E x : Fail(x)
  BY <1>1, <1>3, ErrorKeepsOrder
<1>4. CASE EvaluateGroup /\ ~ \E x : Fail(x)
  <2>1. stage = "group" /\ stage' = "group" /\ at' = at + 1
    BY <1>4 DEF EvaluateGroup
  <2>2. rows' = rows \/ \E row : rows' = Append(rows, row)
    BY <1>4 DEF EvaluateGroup
  <2>3. IsList(rows')
    <3>1. ASSUME NEW row PROVE IsList(Append(rows, row))
      <4> DEFINE S == {rows[i] : i \in DOMAIN rows} \cup {row}
      <4>1. rows \in Seq(S) /\ row \in S
        BY <1>1, ListFacts
      <4>2. Append(rows, row) \in Seq(S)
        BY <4>1
      <4> QED BY <4>2, SequenceIsList
    <3> QED BY <1>1, <2>2, <3>1
  <2>4. stage' \notin {"collect", "select", "distinct", "order"} \cup AfterSort
    BY <2>1 DEF AfterSort
  <2>5. StatementInv'
    BY <1>1, <2>1, <2>3, <2>4 DEF StatementInv, AfterSort
  <2> QED BY <2>4, <2>5 DEF OrderInv, SortInv, PlaceInv
<1>5. CASE EvaluateRows /\ ~ \E x : Fail(x)
  <2>1. PICK new : /\ new = Once([r \in DOMAIN groups[at + 1].rows |->
                                    SelectedRow(groups[at + 1].rows[r], groups[at + 1])])
                   /\ at' = at + 1
                   /\ rows' = rows \o new
                   /\ UNCHANGED <<stage, groups>>
    <3>1. PICK group \in {groups[at + 1]} :
            \E selected \in {Once([r \in DOMAIN group.rows |-> SelectedRow(group.rows[r], group)])} :
              LET failed == {r \in DOMAIN selected : IsError(FirstError(selected[r].tuple))}
              IN \/ failed # {} /\ Fail(FirstError(selected[First(failed)].tuple))
                 \/ /\ failed = {}
                    /\ at' = at + 1
                    /\ rows' = rows \o selected
                    /\ UNCHANGED <<query, stage, groups, result>>
      BY <1>5, Zenon DEF EvaluateRows
    <3>2. PICK selected \in {Once([r \in DOMAIN group.rows |-> SelectedRow(group.rows[r], group)])} :
            (\E x : Fail(x)) \/ (at' = at + 1 /\ rows' = rows \o selected /\ UNCHANGED <<stage, groups>>)
      BY <3>1
    <3> QED BY <1>5, <3>2
  <2>2. stage = "select" /\ at < Len(groups) /\ Plain
    BY <1>1, <1>5 DEF EvaluateRows, StatementInv
  <2>3. GroupList(groups, TableRows)
    BY <2>2 DEF ClauseInv, SelectedSoFar, Collected
  <2> DEFINE g == groups[at + 1]
  <2>4. IsList(g.rows)
    <3>1. DOMAIN groups = 1..Len(groups) /\ Len(groups) \in Nat
      BY <2>3, ListFacts DEF GroupList
    <3>2. at + 1 \in DOMAIN groups
      BY <1>1, <2>2, <3>1
    <3>3. g.rows \in Seq(TableRows)
      BY <2>3, <3>2 DEF GroupList
    <3> QED BY <3>3, SequenceIsList
  <2>5. new = Once([r \in DOMAIN g.rows |-> SelectedRow(g.rows[r], g)])
    BY <2>1
  <2> HIDE DEF g
  <2>6. IsList(new)
    BY <2>4, <2>5, SelectedAreSources
  <2>7. IsList(rows')
    BY <1>1, <2>1, <2>6, ListsJoined
  <2>8. stage' = "select" /\ stage' \notin {"collect", "distinct", "order"} \cup AfterSort
    BY <2>1, <2>2 DEF AfterSort
  <2>9. StatementInv'
    BY <1>1, <1>2, <2>1, <2>2, <2>7, <2>8 DEF StatementInv, AfterSort
  <2>10. Ungrouped => SelectedInOrder(at', groups', rows')
    <3>1. Ungrouped => SelectedInOrder(at, groups, rows)
      BY <2>2 DEF OrderInv, PlaceInv
    <3> QED BY <1>1, <2>1, <2>2, <3>1, SelectionInOrder
  <2>11. PlaceInv'
    BY <2>8, <2>10, SameOrder DEF PlaceInv
  <2> QED BY <2>8, <2>9, <2>11 DEF OrderInv, SortInv
<1>6. CASE RowsSelected
  <2>1. stage' = "distinct" /\ at' = 0 /\ UNCHANGED <<rows, groups>>
    BY <1>6 DEF RowsSelected
  <2>2. stage' \notin {"collect", "select", "order"} \cup AfterSort
    BY <2>1 DEF AfterSort
  <2>3. StatementInv'
    BY <1>1, <2>1, <2>2 DEF StatementInv, AfterSort
  <2>4. Ungrouped => InOrder(RowCount, SourcesOf(rows'))
    <3> SUFFICES ASSUME Ungrouped PROVE InOrder(RowCount, SourcesOf(rows'))
      OBVIOUS
    <3>1. stage = "select"
      BY <1>1 DEF ClauseInv, Ungrouped
    <3> QED BY <2>1, <3>1 DEF OrderInv, PlaceInv, SelectedInOrder
  <2>5. PlaceInv'
    BY <2>2, <2>4, SameOrder DEF PlaceInv
  <2> QED BY <2>2, <2>3, <2>5 DEF OrderInv, SortInv
<1> QED BY <1>3, <1>4, <1>5, <1>6

LEMMA DistinctKeepsOrder ==
  ASSUME JoinInv, OrderInv, UNCHANGED <<from, query, relation, joining>>,
         DistinctRow \/ RowsDistinct
  PROVE  OrderInv'
<1>1. StatementInv /\ stage = "distinct" /\ at \in Nat /\ IsList(rows)
  BY DEF OrderInv, StatementInv, DistinctRow, RowsDistinct
<1>2. Ungrouped => InOrder(RowCount, SourcesOf(rows))
  BY <1>1 DEF OrderInv, PlaceInv
<1>3. RowCount \in Nat /\ Len(rows) \in Nat
  BY <1>1, TableFacts, ListFacts
<1>4. CASE \E x : Fail(x)
  BY <1>1, <1>4, ErrorKeepsOrder
<1>5. CASE DistinctRow /\ ~ \E x : Fail(x)
  <2>1. /\ at < Len(rows) /\ UNCHANGED stage
        /\ \/ at' = at + 1 /\ UNCHANGED rows
           \/ at' = at /\ rows' = RemoveAt(rows, at + 1)
    BY <1>5 DEF DistinctRow
  <2>2. at + 1 \in 1..Len(rows)
    BY <1>1, <1>3, <2>1
  <2>3. IsList(rows') /\ at' \in Nat
    BY <1>1, <2>1, <2>2, RemoveRearranges
  <2>4. Ungrouped => InOrder(RowCount, SourcesOf(rows'))
    <3>1. CASE UNCHANGED rows
      BY <1>2, <3>1
    <3>2. CASE rows' = RemoveAt(rows, at + 1)
      <4>1. SourcesOf(rows') = RemoveAt(SourcesOf(rows), at + 1) /\ IsList(SourcesOf(rows))
        BY <1>1, <2>2, <3>2, SourcesRemoved
      <4>2. Len(SourcesOf(rows)) = Len(rows)
        <5>1. DOMAIN SourcesOf(rows) = DOMAIN rows
          BY DEF SourcesOf
        <5>2. /\ DOMAIN rows = 1..Len(rows)
              /\ DOMAIN SourcesOf(rows) = 1..Len(SourcesOf(rows)) /\ Len(SourcesOf(rows)) \in Nat
          BY <1>1, <4>1, ListFacts
        <5> QED BY <1>3, <5>1, <5>2
      <4> QED BY <1>2, <1>3, <2>2, <4>1, <4>2, FewerInOrder
    <3> QED BY <2>1, <3>1, <3>2
  <2>5. stage' = "distinct" /\ stage' \notin {"collect", "select", "order"} \cup AfterSort
    BY <1>1, <2>1 DEF AfterSort
  <2>6. StatementInv'
    BY <1>1, <2>3, <2>5 DEF StatementInv, AfterSort
  <2>7. PlaceInv'
    BY <2>4, <2>5, SameOrder DEF PlaceInv
  <2> QED BY <2>5, <2>6, <2>7 DEF OrderInv, SortInv
<1>6. CASE RowsDistinct
  <2>1. stage' = "order" /\ at' = 0 /\ UNCHANGED rows
    BY <1>6 DEF RowsDistinct
  <2>2. stage' \notin {"collect", "select", "distinct"} \cup AfterSort
    BY <2>1 DEF AfterSort
  <2>3. StatementInv'
    BY <1>1, <2>1, <2>2 DEF StatementInv, AfterSort
  <2>4. Ordered(at', rows')
    BY <2>1 DEF Ordered
  <2>5. Ungrouped => Stable(at', rows')
    BY <1>1, <1>2, <2>1, InOrderIsStable
  <2> QED BY <2>2, <2>3, <2>4, <2>5, SameOrder DEF OrderInv, SortInv, PlaceInv
<1> QED BY <1>4, <1>5, <1>6

LEMMA SortKeepsOrder ==
  ASSUME JoinInv, OrderInv, UNCHANGED <<from, query, relation, joining>>, OrderRow
  PROVE  OrderInv'
<1>1. /\ StatementInv /\ IsList(query.orderBy) /\ IsList(rows)
      /\ stage = "order" /\ at \in Nat /\ at < Len(rows)
  BY DEF OrderInv, StatementInv, OrderRow
<1>2. CASE \E x : Fail(x)
  BY <1>1, <1>2, ErrorKeepsOrder
<1>3. CASE ~ \E x : Fail(x)
  <2>1. PICK key \in {OrderKey(rows[at + 1])} :
          /\ LET ahead == {i \in 1..at : ~GoesBefore(key, OrderKey(rows[i]))}
             IN rows' = InsertAt(RemoveAt(rows, at + 1), Cardinality(ahead) + 1, rows[at + 1])
          /\ at' = at + 1 /\ UNCHANGED stage
    BY <1>3 DEF OrderRow
  <2> DEFINE ahead == {i \in 1..at : ~GoesBefore(KeyAt(rows, at + 1), KeyAt(rows, i))}
  <2>2. rows' = Moved(rows, at, Cardinality(ahead)) /\ at' = at + 1 /\ UNCHANGED stage
    BY <2>1 DEF Moved, KeyAt
  <2> HIDE DEF ahead
  <2>3. Ordered(at, rows) /\ (Ungrouped => Stable(at, rows))
    BY <1>1 DEF OrderInv, SortInv, PlaceInv
  <2>4. /\ IsList(rows') /\ Ordered(at + 1, rows')
        /\ Stable(at, rows) => Stable(at + 1, rows')
    BY <1>1, <2>2, <2>3, RowGoesDown DEF ahead
  <2>5. Ordered(at', rows') /\ (Ungrouped => Stable(at', rows'))
    BY <2>2, <2>3, <2>4
  <2>6. stage' = "order" /\ stage' \notin {"collect", "select", "distinct"} \cup AfterSort
    BY <1>1, <2>2 DEF AfterSort
  <2>7. StatementInv'
    BY <1>1, <2>2, <2>4, <2>6 DEF StatementInv, AfterSort
  <2> QED BY <2>5, <2>6, <2>7, SameOrder DEF OrderInv, SortInv, PlaceInv
<1> QED BY <1>2, <1>3

LEMMA ResultKeepsOrder ==
  ASSUME OrderInv, UNCHANGED <<from, query, relation, joining>>,
         query.use.as \in AfterSort,
         TakeTop \/ MakeUnion \/ AsValue \/ AsTable
  PROVE  OrderInv'
<1>1. /\ StatementInv /\ UNCHANGED <<at, rows>>
      /\ stage' \in AfterSort \cup {"error"}
  BY DEF OrderInv, TakeTop, MakeUnion, AsValue, AsTable, AfterSort
<1>2. Ordered(Len(rows), rows) /\ (Ungrouped => Stable(Len(rows), rows))
  <2>1. CASE TakeTop
    <3>1. /\ stage = "order" /\ IsList(query.orderBy) /\ IsList(rows) /\ at \in Nat
          /\ query.orderBy = <<>> \/ Len(rows) <= 1 \/ at = Len(rows)
      <4>1. /\ stage = "order" /\ IsList(query.orderBy) /\ IsList(rows) /\ at \in Nat
            /\ query.orderBy # <<>> /\ Len(rows) > 1 => at = Len(rows)
        BY <1>1, <2>1 DEF TakeTop, StatementInv
      <4>2. Len(rows) \in Nat
        BY <4>1, ListFacts
      <4>3. Len(rows) <= 1 \/ Len(rows) > 1
        BY <4>2
      <4> QED BY <4>1, <4>3
    <3>2. Ordered(at, rows) /\ (Ungrouped => Stable(at, rows))
      BY <3>1 DEF OrderInv, SortInv, PlaceInv
    <3> QED BY <3>1, <3>2, SortEnds
  <2>2. CASE MakeUnion \/ AsValue \/ AsTable
    <3>1. stage \in AfterSort
      BY <2>2 DEF MakeUnion, AsValue, AsTable, AfterSort
    <3> QED BY <3>1 DEF OrderInv, SortInv, PlaceInv
  <2> QED BY <2>1, <2>2
<1>3. stage' \notin {"collect", "select", "distinct", "order"}
  BY <1>1 DEF AfterSort
<1>4. SortInv' /\ PlaceInv'
  BY <1>1, <1>2, <1>3, SameOrder DEF SortInv, PlaceInv
<1>5. StatementInv'
  <2>1. /\ stage' \in AfterSort \ {"done"} => query.use.as = stage'
        /\ stage' = "done" /\ query.use.as = "done" =>
             \A i \in DOMAIN result' : result'[i] = rows[i].tuple
    <3>1. CASE TakeTop
      BY <3>1 DEF TakeTop
    <3>2. CASE MakeUnion \/ AsValue \/ AsTable
      <4>1. stage \in AfterSort \ {"done"} /\ stage' \in {"done", "error"}
        BY <3>2 DEF MakeUnion, AsValue, AsTable, AfterSort
      <4> QED BY <1>1, <4>1 DEF StatementInv, AfterSort
    <3> QED BY <3>1, <3>2
  <2> QED BY <1>1, <1>3, <2>1 DEF StatementInv
<1> QED BY <1>4, <1>5 DEF OrderInv

LEMMA OrderStutter ==
  ASSUME OrderInv, UNCHANGED vars
  PROVE  OrderInv'
<1>1. /\ UNCHANGED <<from, query, relation>>
      /\ UNCHANGED <<joining, stage, at, groups, rows, result>>
  BY DEF vars, joinVars, selectVars
<1>2. StatementInv' /\ SortInv' /\ PlaceInv'
  BY <1>1, SameOrder, SameStatement DEF OrderInv, StatementInv, SortInv, PlaceInv
<1> QED BY <1>2 DEF OrderInv

LEMMA OrderStays ==
  ASSUME SelectInv, OrderInv, [Next]_vars
  PROVE  OrderInv'
<1>1. CASE EvaluateFrom
  <2>1. /\ stage = "from" /\ from.type # "none" /\ from' = from
        /\ UNCHANGED <<query, stage, at, groups, rows, result>>
    <3>1. JoinNext => from' = from
      BY DEF JoinNext, AddColumns, AddRow, BeginWalk, InnerJoin, LeftJoin, RightJoin, OuterJoin,
             Emit, PassBy, EndOfWalk, CrossJoin, OneTable
    <3> QED BY <1>1, <3>1 DEF EvaluateFrom, selectVars
  <2>2. stage' \notin {"collect", "select", "distinct", "order"} \cup AfterSort
    BY <2>1 DEF AfterSort
  <2>3. StatementInv'
    BY <2>1, <2>2 DEF OrderInv, StatementInv, AfterSort
  <2> QED BY <2>2, <2>3 DEF OrderInv, SortInv, PlaceInv
<1>2. CASE Next /\ ~EvaluateFrom
  <2>1. /\ JoinInv /\ ClauseInv /\ UNCHANGED <<from, query, relation, joining>>
        /\ query.use.as \in AfterSort
    <3>1. UNCHANGED joinVars /\ query' = query
      BY <1>2, FromIsReadOnce, StatementStays
    <3> QED BY <3>1 DEF SelectInv, AfterSort, joinVars
  <2>2. CASE FromEvaluated \/ SelectWithoutFrom
    BY <2>1, <2>2, FromKeepsOrder
  <2>3. CASE CollectRow \/ RowsCollected
    BY <2>1, <2>3, WhereKeepsOrder
  <2>4. CASE EvaluateRows \/ RowsSelected \/ EvaluateGroup
    BY <2>1, <2>4, ColumnsKeepOrder
  <2>5. CASE DistinctRow \/ RowsDistinct
    BY <2>1, <2>5, DistinctKeepsOrder
  <2>6. CASE OrderRow
    BY <2>1, <2>6, SortKeepsOrder
  <2>7. CASE TakeTop \/ MakeUnion \/ AsValue \/ AsTable
    BY <2>1, <2>7, ResultKeepsOrder
  <2>8. CASE Ended
    BY <2>8, OrderStutter DEF Ended
  <2> QED BY <1>2, <2>2, <2>3, <2>4, <2>5, <2>6, <2>7, <2>8 DEF Next
<1>3. CASE UNCHANGED vars
  BY <1>3, OrderStutter
<1> QED BY <1>1, <1>2, <1>3

LEMMA OrderStarts ==
  ASSUME Init
  PROVE  OrderInv
<1>1. PICK statement \in Statements :
        /\ JoinInit(statement.from) /\ query = statement.query
        /\ stage = "from" /\ at = 0 /\ rows = <<>>
  BY DEF Init
<1>2. IsList(query.orderBy)
  <2>1. query.orderBy \in Seq(ToSet(query.orderBy))
    BY <1>1, StatementsAssumption
  <2> QED BY <2>1, SequenceIsList
<1>3. joining = "index"
  BY <1>1 DEF JoinInit
<1>4. IsList(<<>>)
  BY DEF IsList
<1>5. StatementInv
  BY <1>1, <1>2, <1>3, <1>4 DEF StatementInv, AfterSort
<1> QED BY <1>1, <1>5 DEF OrderInv, SortInv, PlaceInv, AfterSort

LEMMA OrderIsRight ==
  ASSUME JoinInv, OrderInv
  PROVE  OrderIsStable
<1> SUFFICES ASSUME Done PROVE OrderIsStable
  BY DEF OrderIsStable
<1>1. /\ IsList(rows) /\ Ordered(Len(rows), rows) /\ (Ungrouped => Stable(Len(rows), rows))
      /\ query.use.as = "done" => \A i \in DOMAIN result : result[i] = rows[i].tuple
  BY DEF Done, OrderInv, StatementInv, SortInv, PlaceInv, AfterSort
<1>2. DOMAIN rows = 1..Len(rows) /\ Len(rows) \in Nat
  BY <1>1, ListFacts
<1>3. \A i : KeyAt(rows, i) = OrderKey(rows[i])
  BY DEF KeyAt
<1>4. ASSUME CanBeSorted(rows), NEW i \in DOMAIN rows, NEW j \in DOMAIN rows, i < j
      PROVE  ~KeyBefore(OrderKey(rows[j]), OrderKey(rows[i]))
  BY <1>1, <1>2, <1>3, <1>4 DEF Ordered
<1>5. ASSUME CanBeSorted(rows), NEW i \in DOMAIN rows, NEW j \in DOMAIN rows, i < j,
             Plain, query.groupBy = <<>>, ~KeyBefore(OrderKey(rows[i]), OrderKey(rows[j]))
      PROVE  \E p, q \in DOMAIN relation.rows :
               p < q /\ relation.rows[p] = Sources[i] /\ relation.rows[q] = Sources[j]
  <2>1. PICK o : Origins(o, Len(rows), rows)
    BY <1>1, <1>5 DEF Ungrouped, Stable
  <2>2. /\ o[i] \in 1..RowCount /\ relation.rows[o[i]] = rows[i].source
        /\ o[j] \in 1..RowCount /\ relation.rows[o[j]] = rows[j].source
        /\ o[i] < o[j]
    BY <1>3, <1>5, <2>1 DEF Origins
  <2>3. Sources[i] = rows[i].source /\ Sources[j] = rows[j].source
    BY <1>5 DEF Sources
  <2>4. DOMAIN relation.rows = 1..RowCount
    BY TableFacts
  <2> QED BY <2>2, <2>3, <2>4
<1> QED BY <1>1, <1>4, <1>5 DEF OrderIsStable

(* ORDER BY sorts the rows where their keys can be sorted, and a SELECT    *)
(* without groups keeps rows whose keys are the same, or all rows, in the  *)
(* order in which the relation has them; DISTINCT and TOP leave it as it   *)
(* is (Select::collect_rows, Select::execute, Select.cpp).                 *)
THEOREM SortIsStable == Spec => []OrderIsStable
<1>1. Init => SelectInv /\ OrderInv
  BY SelectStarts, OrderStarts
<1>2. SelectInv /\ OrderInv /\ [Next]_vars => SelectInv' /\ OrderInv'
  BY SelectStays, OrderStays
<1>3. SelectInv /\ OrderInv => OrderIsStable
  BY OrderIsRight DEF SelectInv
<1> QED BY <1>1, <1>2, <1>3, PTL DEF Spec
=============================================================================
