------------------------ MODULE TableIntegrityProofs ------------------------
(***************************************************************************)
(* Proofs about TableIntegrity, for all columns, keys, values and rules.   *)
(***************************************************************************)
EXTENDS TableIntegrity, SqlValuesProofs, Induction, FiniteSetTheorems

(***************************************************************************)
(* The types of the state and of a table in the middle of a statement.     *)
(***************************************************************************)
RulesThereAre == {NoRule} \cup Rules \cup {setup.check : setup \in Setups}
Checks == [main : RulesThereAre, constraint : RulesThereAre]

TableType ==
  [columns : Seq(Columns), key : Names \cup {NoKey}, foreignKeys : SUBSET Names,
   counter : [Names -> Nat], check : Checks, rows : Seq(Seq(Values)),
   outcome : Outcomes]

\* A column can be looked up by its name, and has a counter.
LEMMA ColumnFacts ==
  ASSUME NEW cols \in Seq(Columns)
  PROVE  /\ Len(cols) \in Nat /\ DOMAIN cols = 1..Len(cols)
         /\ \A i \in DOMAIN cols :
              /\ cols[i] \in Columns /\ cols[i].name \in Names /\ cols[i].name # NoKey
              /\ cols[i].default \in Values
         /\ Position(cols, NoKey) = {}
<1>1. Len(cols) \in Nat /\ DOMAIN cols = 1..Len(cols) /\ \A i \in DOMAIN cols : cols[i] \in Columns
  OBVIOUS
<1>2. \A c \in Columns : c.name \in Names /\ c.default \in Values
  BY DEF Columns
<1>3. NoKey \notin Names
  BY IntegrityAssumption
<1> QED BY <1>1, <1>2, <1>3 DEF Position

(***************************************************************************)
(* Table::insert.  RowFits is what its checks leave of a row that they let *)
(* pass, and Grown says of a table t that it is t0 with rows added that    *)
(* fit and differ from the rows before them where they have to.            *)
(***************************************************************************)
RowFits(t, w, supplied) ==
  /\ Len(w) = Len(t.columns)
  /\ \A i \in DOMAIN t.columns :
       /\ IsNull(w[i]) \/ w[i].type = t.columns[i].type
       /\ t.columns[i].notNull \/ i \in Position(t.columns, t.key) => ~IsNull(w[i])
       /\ t.columns[i].autoIncrement /\ w[i].v > t.counter[t.columns[i].name]
            => <<t.columns[i].name, w[i]>> \in supplied /\ ~IsNull(w[i])
  /\ \A name \in t.foreignKeys : \A i \in Position(t.columns, name) :
       IsNull(w[i]) \/ HasParent(w[i])
  /\ \A rule \in {t.check.main, t.check.constraint} : Passes(t, rule, w)

Distinguished(t, r) ==
  \A i \in DOMAIN t.columns : t.columns[i].unique \/ i \in Position(t.columns, t.key) =>
    \A q \in 1..(r - 1) : t.rows[q][i] # t.rows[r][i]

SameSchema(t, u) ==
  /\ t.columns = u.columns /\ t.key = u.key
  /\ t.foreignKeys = u.foreignKeys /\ t.check = u.check

Grown(t, t0, supplied) ==
  /\ t \in TableType /\ SameSchema(t, t0)
  /\ Len(t0.rows) <= Len(t.rows)
  /\ \A r \in DOMAIN t0.rows : t.rows[r] = t0.rows[r]
  /\ \A n \in Names : t0.counter[n] <= t.counter[n]
  /\ \A r \in DOMAIN t.rows : r > Len(t0.rows) =>
       RowFits(t, t.rows[r], supplied) /\ Distinguished(t, r)

\* A row that fits does so after the counters have grown.
LEMMA FitsStill ==
  ASSUME NEW t \in TableType, NEW u \in TableType, SameSchema(u, t),
         \A n \in Names : t.counter[n] <= u.counter[n],
         NEW w \in Seq(Values), NEW supplied, RowFits(t, w, supplied)
  PROVE  RowFits(u, w, supplied)
<1>1. /\ \A i \in DOMAIN t.columns : t.columns[i].name \in Names
      /\ DOMAIN t.columns = 1..Len(t.columns) /\ Len(t.columns) \in Nat
  BY ColumnFacts DEF TableType
<1>2. \A rule : Passes(t, rule, w) = Passes(u, rule, w)
  BY DEF Passes, SameSchema
<1>3. ASSUME NEW i \in DOMAIN t.columns,
             w[i].v > u.counter[t.columns[i].name]
      PROVE  w[i].v > t.counter[t.columns[i].name]
  <2>1. w[i] \in Values
    BY <1>1 DEF RowFits
  <2>2. /\ w[i].v \in Int
        /\ u.counter[t.columns[i].name] \in Int /\ t.counter[t.columns[i].name] \in Int
    BY <1>1, <2>1, ValueFacts DEF TableType
  <2>3. t.counter[t.columns[i].name] <= u.counter[t.columns[i].name]
    BY <1>1
  <2> QED BY <1>3, <2>2, <2>3
<1> QED BY <1>2, <1>3 DEF RowFits, SameSchema

\* The statement stops.
LEMMA StopGrows ==
  ASSUME NEW t0 \in TableType, NEW t, NEW supplied, Grown(t, t0, supplied),
         NEW how \in Outcomes
  PROVE  Grown([t EXCEPT !.outcome = how], t0, supplied)
<1> DEFINE u == [t EXCEPT !.outcome = how]
<1>1. /\ u \in TableType /\ t \in TableType /\ u.rows = t.rows /\ u.counter = t.counter
      /\ u.columns = t.columns /\ u.key = t.key /\ u.foreignKeys = t.foreignKeys
      /\ u.check = t.check
  BY DEF Grown, TableType
<1> HIDE DEF u
<1>2. SameSchema(u, t) /\ SameSchema(u, t0)
  BY <1>1 DEF SameSchema, Grown
<1>3. \A n \in Names : t.counter[n] <= u.counter[n] /\ t0.counter[n] <= u.counter[n]
  BY <1>1 DEF Grown, TableType
<1>4. ASSUME NEW r \in DOMAIN u.rows, r > Len(t0.rows)
      PROVE  RowFits(u, u.rows[r], supplied) /\ Distinguished(u, r)
  <2>1. RowFits(t, u.rows[r], supplied) /\ Distinguished(t, r)
    BY <1>1, <1>4 DEF Grown
  <2>2. u.rows[r] \in Seq(Values)
    BY <1>1 DEF TableType
  <2>3. RowFits(u, u.rows[r], supplied)
    BY <1>1, <1>2, <1>3, <2>1, <2>2, FitsStill
  <2>4. Distinguished(u, r)
    BY <1>1, <2>1 DEF Distinguished
  <2> QED BY <2>3, <2>4
<1> QED BY <1>1, <1>2, <1>3, <1>4 DEF Grown, u

\* What a row is filled with, and which counters move.
LEMMA FillFacts ==
  ASSUME NEW t \in TableType, NEW row \in Seq(Values), ~ReadsBeyond(t, row)
  PROVE  /\ Fill(t, row) \in Seq(Values) /\ Len(Fill(t, row)) = Len(row)
         /\ DOMAIN row = 1..Len(row) /\ Len(row) \in Nat
         /\ \A i \in DOMAIN row :
              /\ Fill(t, row)[i] \in Values
              /\ ~IsNull(row[i]) => Fill(t, row)[i] = row[i]
              /\ IsNull(row[i]) /\ t.columns[i].autoIncrement =>
                   /\ Fill(t, row)[i] = Int32(t.counter[t.columns[i].name] + 1)
                   /\ i \in Generated(t, row)
<1>1. /\ DOMAIN row = 1..Len(row) /\ Len(row) \in Nat
      /\ \A i \in DOMAIN row : row[i] \in Values
  OBVIOUS
<1>2. /\ Len(t.columns) \in Nat /\ DOMAIN t.columns = 1..Len(t.columns)
      /\ \A i \in DOMAIN t.columns : t.columns[i].name \in Names /\ t.columns[i].default \in Values
  BY ColumnFacts DEF TableType
<1>3. \A n \in Names : t.counter[n] \in Nat
  BY DEF TableType
<1>4. \A n \in Nat : Int32(n + 1) \in Values
  BY DEF Int32, Values
<1>5. ASSUME NEW i \in DOMAIN row
      PROVE  (IF ~IsNull(row[i]) THEN row[i]
              ELSE IF t.columns[i].autoIncrement
                   THEN Int32(t.counter[t.columns[i].name] + 1)
                   ELSE t.columns[i].default) \in Values
  <2>1. CASE ~IsNull(row[i])
    BY <1>1, <2>1
  <2>2. CASE IsNull(row[i])
    <3>1. i \in DOMAIN t.columns
      BY <1>1, <1>2, <2>2 DEF ReadsBeyond
    <3> QED BY <1>2, <1>3, <1>4, <2>2, <3>1
  <2> QED BY <2>1, <2>2
<1>6. Fill(t, row) \in [1..Len(row) -> Values]
  BY <1>1, <1>5 DEF Fill
<1>7. Fill(t, row) \in Seq(Values) /\ Len(Fill(t, row)) = Len(row)
  BY <1>1, <1>6
<1>8. ASSUME NEW i \in DOMAIN row
      PROVE  /\ ~IsNull(row[i]) => Fill(t, row)[i] = row[i]
             /\ IsNull(row[i]) /\ t.columns[i].autoIncrement =>
                  /\ Fill(t, row)[i] = Int32(t.counter[t.columns[i].name] + 1)
                  /\ i \in Generated(t, row)
  BY DEF Fill, Generated
<1> QED BY <1>1, <1>6, <1>7, <1>8

\* The counter of a column that is filled moves by one for it.
LEMMA GeneratedFacts ==
  ASSUME NEW t \in TableType, NEW row \in Seq(Values), ~ReadsBeyond(t, row)
  PROVE  /\ \A n : Increments(t, row, n) \in Nat
         /\ \A i \in Generated(t, row) :
              /\ t.columns[i].name \in Names
              /\ Increments(t, row, t.columns[i].name) >= 1
<1> DEFINE Of(n) == {i \in Generated(t, row) : t.columns[i].name = n}
<1>1. DOMAIN row = 1..Len(row) /\ Len(row) \in Nat
  OBVIOUS
<1>2. IsFiniteSet(1..Len(row))
  BY <1>1, FS_Interval
<1>3. ASSUME NEW n PROVE IsFiniteSet(Of(n))
  <2>1. Of(n) \subseteq 1..Len(row)
    BY <1>1 DEF Generated
  <2> QED BY <1>2, <2>1, FS_Subset
<1>4. ASSUME NEW n PROVE Cardinality(Of(n)) \in Nat /\ (Of(n) # {} => Cardinality(Of(n)) >= 1)
  <2> HIDE DEF Of
  <2>1. Cardinality(Of(n)) \in Nat
    BY <1>3, FS_CardinalityType
  <2>2. Of(n) # {} => Cardinality(Of(n)) # 0
    BY <1>3, FS_EmptySet
  <2> QED BY <2>1, <2>2
<1>5. ASSUME NEW i \in Generated(t, row)
      PROVE  t.columns[i].name \in Names /\ Of(t.columns[i].name) # {}
  <2>1. /\ Len(t.columns) \in Nat /\ DOMAIN t.columns = 1..Len(t.columns)
        /\ \A j \in DOMAIN t.columns : t.columns[j].name \in Names
    BY ColumnFacts DEF TableType
  <2>2. i \in DOMAIN t.columns
    BY <1>1, <2>1 DEF Generated, ReadsBeyond
  <2> QED BY <2>1, <2>2
<1> QED BY <1>4, <1>5 DEF Increments

\* A value that is not in a column differs from those that are.
LEMMA NotThereDiffers ==
  ASSUME NEW t, NEW i, NEW value \in Values, NotThere(t, i, value),
         NEW q \in DOMAIN t.rows
  PROVE  t.rows[q][i] # value
<1>1. SUFFICES ASSUME t.rows[q][i] = value PROVE FALSE
  OBVIOUS
<1>2. Equal(value, value) = No
  BY <1>1 DEF NotThere
<1>3. ~(Equal(value, value) = No)
  BY EqualIsSame
<1> QED BY <1>2, <1>3

\* A row that the checks of Table::insert let pass fits.
LEMMA CheckedFits ==
  ASSUME NEW t \in TableType, NEW row \in Seq(Values), ~ReadsBeyond(t, row),
         NEW supplied,
         \A i \in DOMAIN row \cap DOMAIN t.columns :
           IsNull(row[i]) \/ <<t.columns[i].name, row[i]>> \in supplied,
         TableChecksPass(t, Fill(t, row)), ForeignKeysPass(t, Fill(t, row)),
         CheckPasses(t, Fill(t, row)),
         NEW u \in TableType, SameSchema(u, t),
         \A i \in Generated(t, row) :
           t.counter[t.columns[i].name] + 1 <= u.counter[t.columns[i].name],
         \A n \in Names : t.counter[n] <= u.counter[n]
  PROVE  RowFits(u, Fill(t, row), supplied)
<1> DEFINE w == Fill(t, row)
<1>1. /\ w \in Seq(Values) /\ Len(w) = Len(row)
      /\ DOMAIN row = 1..Len(row) /\ Len(row) \in Nat
      /\ \A i \in DOMAIN row :
           /\ w[i] \in Values
           /\ ~IsNull(row[i]) => w[i] = row[i]
           /\ IsNull(row[i]) /\ t.columns[i].autoIncrement =>
                /\ w[i] = Int32(t.counter[t.columns[i].name] + 1)
                /\ i \in Generated(t, row)
  BY FillFacts
<1>2. /\ Len(t.columns) \in Nat /\ DOMAIN t.columns = 1..Len(t.columns)
      /\ \A i \in DOMAIN t.columns : t.columns[i].name \in Names /\ t.columns[i].name # NoKey
      /\ Position(t.columns, NoKey) = {}
  BY ColumnFacts DEF TableType
<1>3. TableChecksPass(t, w) /\ ForeignKeysPass(t, w) /\ CheckPasses(t, w)
  OBVIOUS
<1> HIDE DEF w
<1>4. Len(w) = Len(t.columns) /\ DOMAIN w = DOMAIN t.columns /\ DOMAIN row = DOMAIN t.columns
  BY <1>1, <1>2, <1>3 DEF TableChecksPass
<1>5. /\ u.columns = t.columns /\ u.key = t.key /\ u.foreignKeys = t.foreignKeys
      /\ u.check = t.check
  BY DEF SameSchema
<1>6. ASSUME NEW i \in DOMAIN t.columns
      PROVE  /\ IsNull(w[i]) \/ w[i].type = t.columns[i].type
             /\ t.columns[i].notNull => ~IsNull(w[i])
  BY <1>3, <1>4 DEF TableChecksPass, ValueIsValid
<1>7. ASSUME NEW i \in Position(t.columns, t.key)
      PROVE  ~IsNull(w[i])
  <2>1. t.key # NoKey
    BY <1>2
  <2> QED BY <1>3, <2>1 DEF TableChecksPass, KeyIsFree
<1>8. ASSUME NEW name \in t.foreignKeys, NEW i \in Position(t.columns, name)
      PROVE  IsNull(w[i]) \/ HasParent(w[i])
  BY <1>3 DEF ForeignKeysPass
<1>9. ASSUME NEW i \in DOMAIN t.columns, t.columns[i].autoIncrement,
             w[i].v > u.counter[t.columns[i].name]
      PROVE  <<t.columns[i].name, w[i]>> \in supplied /\ ~IsNull(w[i])
  <2>1. ~IsNull(row[i])
    <3>1. SUFFICES ASSUME IsNull(row[i]) PROVE FALSE
      OBVIOUS
    <3>2. /\ w[i] = Int32(t.counter[t.columns[i].name] + 1)
          /\ i \in Generated(t, row)
      BY <1>1, <1>4, <1>9, <3>1
    <3>3. t.counter[t.columns[i].name] + 1 <= u.counter[t.columns[i].name]
      BY <3>2
    <3>4. w[i].v = t.counter[t.columns[i].name] + 1
      BY <3>2 DEF Int32
    <3>5. t.counter[t.columns[i].name] \in Nat /\ u.counter[t.columns[i].name] \in Nat
      BY <1>2 DEF TableType
    <3> QED BY <1>9, <3>3, <3>4, <3>5
  <2> QED BY <1>1, <1>4, <2>1
<1>10. \A rule \in {u.check.main, u.check.constraint} : Passes(u, rule, w)
  BY <1>3, <1>5 DEF CheckPasses, Passes
<1> QED BY <1>4, <1>5, <1>6, <1>7, <1>8, <1>9, <1>10 DEF RowFits, w

\* It also differs from the rows there are, where it has to.
LEMMA CheckedDiffers ==
  ASSUME NEW t \in TableType, NEW w \in Seq(Values), TableChecksPass(t, w),
         NEW u, SameSchema(u, t), u.rows = Append(t.rows, w)
  PROVE  Distinguished(u, Len(t.rows) + 1)
<1>1. /\ Len(t.columns) \in Nat /\ DOMAIN t.columns = 1..Len(t.columns)
      /\ Position(t.columns, NoKey) = {}
  BY ColumnFacts DEF TableType
<1>2. Len(w) = Len(t.columns) /\ DOMAIN w = DOMAIN t.columns
  BY <1>1 DEF TableChecksPass
<1>3. \A i \in DOMAIN w : w[i] \in Values
  OBVIOUS
<1>4. t.rows \in Seq(Seq(Values)) /\ Len(t.rows) \in Nat
  BY DEF TableType
<1>5. /\ u.rows[Len(t.rows) + 1] = w
      /\ \A q \in 1..Len(t.rows) : u.rows[q] = t.rows[q] /\ q \in DOMAIN t.rows
  BY <1>4
<1>6. u.columns = t.columns /\ u.key = t.key
  BY DEF SameSchema
<1>7. ASSUME NEW i \in DOMAIN t.columns,
             t.columns[i].unique \/ i \in Position(t.columns, t.key)
      PROVE  NotThere(t, i, w[i])
  <2>1. CASE t.columns[i].unique
    BY <1>2, <2>1 DEF TableChecksPass, ValueIsValid
  <2>2. CASE i \in Position(t.columns, t.key)
    <3>1. t.key # NoKey
      BY <1>1, <2>2
    <3> QED BY <2>2, <3>1 DEF TableChecksPass, KeyIsFree
  <2> QED BY <1>7, <2>1, <2>2
<1>8. ASSUME NEW i \in DOMAIN u.columns, u.columns[i].unique \/ i \in Position(u.columns, u.key),
             NEW q \in 1..((Len(t.rows) + 1) - 1)
      PROVE  u.rows[q][i] # u.rows[Len(t.rows) + 1][i]
  <2>1. q \in 1..Len(t.rows)
    BY <1>4
  <2>2. NotThere(t, i, w[i]) /\ w[i] \in Values
    BY <1>2, <1>3, <1>6, <1>7, <1>8
  <2>3. t.rows[q][i] # w[i]
    BY <1>5, <2>1, <2>2, NotThereDiffers
  <2> QED BY <1>5, <2>1, <2>3
<1> QED BY <1>8 DEF Distinguished

\* Table::insert adds a row that fits, or none.
LEMMA InsertGrows ==
  ASSUME NEW t0 \in TableType, NEW t, NEW supplied, Grown(t, t0, supplied),
         NEW row \in Seq(Values),
         \A i \in DOMAIN row \cap DOMAIN t0.columns :
           IsNull(row[i]) \/ <<t0.columns[i].name, row[i]>> \in supplied
  PROVE  Grown(InsertRow(t, row), t0, supplied)
<1> DEFINE u == [t EXCEPT !.rows = Append(@, Fill(t, row)),
                          !.counter = [n \in Names |-> @[n] + Increments(t, row, n)]]
           Stops == \/ BadAutoIncrement(t, row)
                    \/ ~TableChecksPass(t, Fill(t, row))
                    \/ ~ForeignKeysPass(t, Fill(t, row))
                    \/ ~CheckPasses(t, Fill(t, row))
<1>0. {"error", "undefined"} \subseteq Outcomes
  BY DEF Outcomes
<1>1. t \in TableType
  BY DEF Grown
<1>2. CASE t.outcome # "ok"
  BY <1>2 DEF InsertRow
<1>3. CASE t.outcome = "ok" /\ ReadsBeyond(t, row)
  <2>1. Grown([t EXCEPT !.outcome = "undefined"], t0, supplied)
    BY <1>0, StopGrows
  <2> QED BY <1>3, <2>1 DEF InsertRow
<1>4. CASE t.outcome = "ok" /\ ~ReadsBeyond(t, row) /\ Stops
  <2>1. Grown([t EXCEPT !.outcome = "error"], t0, supplied)
    BY <1>0, StopGrows
  <2> QED BY <1>4, <2>1 DEF InsertRow
<1>5. CASE t.outcome = "ok" /\ ~ReadsBeyond(t, row) /\ ~Stops
  <2>1. InsertRow(t, row) = u
    BY <1>5 DEF InsertRow
  <2>2. /\ TableChecksPass(t, Fill(t, row)) /\ ForeignKeysPass(t, Fill(t, row))
        /\ CheckPasses(t, Fill(t, row)) /\ ~ReadsBeyond(t, row)
    BY <1>5
  <2> HIDE DEF Stops
  <2>3. Fill(t, row) \in Seq(Values)
    BY <2>2, <1>1, FillFacts
  <2>4. /\ u.columns = t.columns /\ u.key = t.key /\ u.foreignKeys = t.foreignKeys
        /\ u.check = t.check /\ u.outcome = t.outcome
        /\ u.rows = Append(t.rows, Fill(t, row))
        /\ u.counter = [n \in Names |-> t.counter[n] + Increments(t, row, n)]
        /\ u = [columns |-> t.columns, key |-> t.key, foreignKeys |-> t.foreignKeys,
                counter |-> u.counter, check |-> t.check, rows |-> u.rows,
                outcome |-> t.outcome]
    <3>1. t = [columns |-> t.columns, key |-> t.key, foreignKeys |-> t.foreignKeys,
               counter |-> t.counter, check |-> t.check, rows |-> t.rows,
               outcome |-> t.outcome]
      BY <1>1 DEF TableType
    <3> DEFINE newRows == Append(t.rows, Fill(t, row))
               counts == [n \in Names |-> t.counter[n] + Increments(t, row, n)]
    <3>2. u = [t EXCEPT !.rows = newRows, !.counter = counts]
      OBVIOUS
    <3> HIDE DEF newRows, counts, u
    <3>3. u = [columns |-> t.columns, key |-> t.key, foreignKeys |-> t.foreignKeys,
               counter |-> counts, check |-> t.check, rows |-> newRows,
               outcome |-> t.outcome]
      BY <3>1, <3>2
    <3> QED BY <3>3 DEF newRows, counts
  <2> HIDE DEF u
  <2>5. SameSchema(u, t) /\ SameSchema(u, t0)
    BY <2>4 DEF SameSchema, Grown
  <2>6. \A n \in Names : t.counter[n] \in Nat /\ t0.counter[n] \in Nat
    BY <1>1 DEF TableType
  <2>7. /\ \A n \in Names : u.counter[n] \in Nat /\ t.counter[n] <= u.counter[n]
        /\ \A i \in Generated(t, row) :
             t.counter[t.columns[i].name] + 1 <= u.counter[t.columns[i].name]
    <3>1. /\ \A n : Increments(t, row, n) \in Nat
          /\ \A i \in Generated(t, row) :
               /\ t.columns[i].name \in Names
               /\ Increments(t, row, t.columns[i].name) >= 1
      BY <1>1, <2>2, GeneratedFacts
    <3>2. \A n \in Names : u.counter[n] = t.counter[n] + Increments(t, row, n)
      BY <2>4
    <3>3. \A n \in Names : u.counter[n] \in Nat /\ t.counter[n] <= u.counter[n]
      <4> SUFFICES ASSUME NEW n \in Names
                   PROVE  u.counter[n] \in Nat /\ t.counter[n] <= u.counter[n]
        OBVIOUS
      <4>1. Increments(t, row, n) \in Nat /\ t.counter[n] \in Nat
        BY <2>6, <3>1
      <4> QED BY <4>1, <3>2
    <3>4. \A i \in Generated(t, row) :
             t.counter[t.columns[i].name] + 1 <= u.counter[t.columns[i].name]
      <4> SUFFICES ASSUME NEW i \in Generated(t, row)
                   PROVE  t.counter[t.columns[i].name] + 1 <= u.counter[t.columns[i].name]
        OBVIOUS
      <4> DEFINE n == t.columns[i].name
      <4>1. n \in Names /\ Increments(t, row, n) \in Nat /\ Increments(t, row, n) >= 1
        BY <3>1
      <4>2. t.counter[n] \in Nat /\ u.counter[n] = t.counter[n] + Increments(t, row, n)
        BY <4>1, <2>6, <3>2
      <4> HIDE DEF n
      <4>3. t.counter[n] + 1 <= u.counter[n]
        BY <4>1, <4>2
      <4> QED BY <4>3 DEF n
    <3> QED BY <3>3, <3>4
  <2>8. \A n \in Names : t0.counter[n] <= u.counter[n]
    <3>1. \A n \in Names : t0.counter[n] <= t.counter[n]
      BY DEF Grown
    <3> QED BY <2>6, <2>7, <3>1
  <2>9. t.rows \in Seq(Seq(Values)) /\ t0.rows \in Seq(Seq(Values))
    BY <1>1 DEF TableType
  <2>10. /\ Len(t.rows) \in Nat /\ Len(t0.rows) \in Nat /\ Len(t0.rows) <= Len(t.rows)
         /\ DOMAIN t.rows = 1..Len(t.rows) /\ DOMAIN t0.rows = 1..Len(t0.rows)
    BY <2>9 DEF Grown
  <2>11. /\ u.rows \in Seq(Seq(Values)) /\ Len(u.rows) = Len(t.rows) + 1
         /\ DOMAIN u.rows = 1..(Len(t.rows) + 1)
         /\ u.rows[Len(t.rows) + 1] = Fill(t, row)
         /\ \A r \in 1..Len(t.rows) : u.rows[r] = t.rows[r]
    BY <2>3, <2>4, <2>9
  <2>12. u \in TableType
    <3>1. u.counter \in [Names -> Nat]
      BY <2>4, <2>7
    <3>2. /\ t.columns \in Seq(Columns) /\ t.key \in Names \cup {NoKey}
          /\ t.foreignKeys \in SUBSET Names /\ t.check \in Checks /\ t.outcome \in Outcomes
      BY <1>1 DEF TableType
    <3> QED BY <2>4, <2>11, <3>1, <3>2 DEF TableType
  <2>13. RowFits(u, Fill(t, row), supplied)
    <3>1. \A i \in DOMAIN row \cap DOMAIN t.columns :
            IsNull(row[i]) \/ <<t.columns[i].name, row[i]>> \in supplied
      BY DEF Grown, SameSchema
    <3> QED BY <1>1, <2>2, <2>5, <2>7, <2>12, <3>1, CheckedFits
  <2>14. Distinguished(u, Len(t.rows) + 1)
    BY <1>1, <2>2, <2>3, <2>4, <2>5, CheckedDiffers
  <2>15. ASSUME NEW r \in 1..Len(t.rows), r > Len(t0.rows)
         PROVE  RowFits(u, u.rows[r], supplied) /\ Distinguished(u, r)
    <3>1. RowFits(t, t.rows[r], supplied) /\ Distinguished(t, r)
      BY <2>10, <2>15 DEF Grown
    <3>2. t.rows[r] \in Seq(Values)
      BY <2>9, <2>10
    <3>3. RowFits(u, t.rows[r], supplied)
      BY <1>1, <2>5, <2>7, <2>12, <3>1, <3>2, FitsStill
    <3>4. \A q \in 1..(r - 1) : q \in 1..Len(t.rows)
      BY <2>10
    <3>5. \A q \in 1..(r - 1) : u.rows[q] = t.rows[q]
      BY <3>4, <2>11
    <3>6. u.rows[r] = t.rows[r]
      BY <2>11
    <3>7. Distinguished(u, r)
      BY <2>4, <3>1, <3>5, <3>6 DEF Distinguished
    <3> QED BY <3>3, <3>6, <3>7
  <2>16. ASSUME NEW r \in DOMAIN u.rows, r > Len(t0.rows)
         PROVE  RowFits(u, u.rows[r], supplied) /\ Distinguished(u, r)
    <3>1. r \in 1..Len(t.rows) \/ r = Len(t.rows) + 1
      BY <2>10, <2>11
    <3> QED BY <2>11, <2>13, <2>14, <2>15, <2>16, <3>1
  <2>17. Len(t0.rows) <= Len(u.rows)
    BY <2>10, <2>11
  <2>18. \A r \in DOMAIN t0.rows : u.rows[r] = t0.rows[r]
    <3>1. \A r \in DOMAIN t0.rows : t.rows[r] = t0.rows[r]
      BY DEF Grown
    <3>2. \A r \in DOMAIN t0.rows : r \in 1..Len(t.rows)
      BY <2>10
    <3> QED BY <2>11, <3>1, <3>2
  <2> QED BY <2>1, <2>5, <2>8, <2>12, <2>16, <2>17, <2>18 DEF Grown
<1> QED BY <1>2, <1>3, <1>4, <1>5

(***************************************************************************)
(* A statement inserts one row after another: so do INSERT ... SELECT,     *)
(* IMPORT and the copying of ALTER TABLE.                                  *)
(***************************************************************************)
LEMMA InsertAllGrows ==
  ASSUME NEW t0 \in TableType, NEW supplied, NEW t, Grown(t, t0, supplied),
         NEW newRows \in Seq(Seq(Values)),
         \A r \in DOMAIN newRows : \A i \in DOMAIN newRows[r] \cap DOMAIN t0.columns :
           IsNull(newRows[r][i]) \/ <<t0.columns[i].name, newRows[r][i]>> \in supplied
  PROVE  Grown(InsertAll(t, newRows), t0, supplied)
<1> DEFINE N == Len(newRows)
           S == {u \in TableType : Grown(u, t0, supplied)}
           step == [p \in S \X (1..N) |-> InsertRow(p[1], newRows[p[2]])]
           At(f, T) == IF T = {} THEN t
                       ELSE InsertRow(f[T \ {Greatest(T)}], newRows[Greatest(T)])
           Is(f) == f = [T \in SUBSET (1..N) |-> At(f, T)]
           F == CHOOSE f : Is(f)
<1>1. N \in Nat /\ DOMAIN newRows = 1..N /\ \A r \in 1..N : newRows[r] \in Seq(Values)
  OBVIOUS
<1>2. t \in S
  BY DEF Grown
<1>3. \A u \in S : \A r \in 1..N : InsertRow(u, newRows[r]) \in S
  <2>1. ASSUME NEW u \in S, NEW r \in 1..N PROVE InsertRow(u, newRows[r]) \in S
    <3>1. Grown(InsertRow(u, newRows[r]), t0, supplied)
      BY <1>1, InsertGrows
    <3> QED BY <3>1 DEF Grown
  <2> QED BY <2>1
<1> HIDE DEF S, N
<1>4. \E f : Is(f)
  <2>1. step \in [S \X (1..N) -> S]
    BY <1>3
  <2> HIDE DEF step
  <2>2. PICK f \in [SUBSET (1..N) -> S] : FoldsBy(f, step, t, N)
    BY <1>1, <1>2, <2>1, FoldExists
  <2>3. \A T \in SUBSET (1..N) : f[T] = At(f, T)
    <3>1. ASSUME NEW T \in SUBSET (1..N), T # {}
          PROVE  f[T] = InsertRow(f[T \ {Greatest(T)}], newRows[Greatest(T)])
      <4>1. Greatest(T) \in 1..N
        BY <1>1, <3>1, GreatestIn
      <4>2. f[T \ {Greatest(T)}] \in S
        OBVIOUS
      <4>3. f[T] = step[<<f[T \ {Greatest(T)}], Greatest(T)>>]
        BY <2>2, <3>1 DEF FoldsBy
      <4> QED BY <4>1, <4>2, <4>3 DEF step
    <3>2. f[{}] = t
      BY <2>2 DEF FoldsBy
    <3> QED BY <3>1, <3>2
  <2> HIDE DEF At
  <2>4. f = [T \in SUBSET (1..N) |-> At(f, T)]
    BY <2>3
  <2> QED BY <2>4
<1>5. Is(F)
  <2> HIDE DEF Is
  <2> QED BY <1>4, Zenon
<1> HIDE DEF F
<1>6. \A T \in SUBSET (1..N) : F[T] = At(F, T)
  <2> HIDE DEF At
  <2> QED BY <1>5
<1>7. F[1..N] \in S
  <2>1. F[{}] \in S
    BY <1>2, <1>6
  <2>2. ASSUME NEW T \in SUBSET (1..N), T # {}, F[T \ {Greatest(T)}] \in S
        PROVE  F[T] \in S
    <3>1. Greatest(T) \in 1..N
      BY <1>1, <2>2, GreatestIn
    <3>2. F[T] = InsertRow(F[T \ {Greatest(T)}], newRows[Greatest(T)])
      BY <1>6, <2>2
    <3> QED BY <1>3, <2>2, <3>1, <3>2
  <2> HIDE DEF Is, At
  <2> QED BY <1>1, <2>1, <2>2, FoldStays
<1>8. InsertAll(t, newRows) = F[1..N]
  BY <1>1 DEF InsertAll, FoldLeft, MapThenFoldSet, Max, Greatest, F
<1> QED BY <1>7, <1>8 DEF S

(***************************************************************************)
(* UPDATE: the assignments change values in the columns they name, and     *)
(* nothing else.                                                           *)
(***************************************************************************)
Rewritten(t, t0, names) ==
  /\ t \in TableType /\ t.columns = t0.columns
  /\ Len(t.rows) = Len(t0.rows)
  /\ \A r \in 1..Len(t0.rows) :
       /\ Len(t.rows[r]) = Len(t0.rows[r])
       /\ \A i \in 1..Len(t0.rows[r]) :
            t0.columns[i].name \in names \/ t.rows[r][i] = t0.rows[r][i]

\* One assignment.
LEMMA AssignRewrites ==
  ASSUME NEW t0 \in TableType, NEW names, NEW t, Rewritten(t, t0, names),
         NEW a, a.column \in names, a.value \in Values
  PROVE  Rewritten(Assign(t, a), t0, names)
<1> DEFINE at == Position(t.columns, a.column)
           row(r) == [i \in DOMAIN t.rows[r] |->
                        IF i \in at /\ r < a.failsAt THEN a.value ELSE t.rows[r][i]]
           newRows == [r \in DOMAIN t.rows |-> row(r)]
           how == IF a.failsAt \in DOMAIN t.rows THEN "error" ELSE "ok"
<1>1. t \in TableType
  BY DEF Rewritten
<1>2. {"ok", "error", "undefined"} \subseteq Outcomes
  BY DEF Outcomes
<1>3. CASE t.outcome # "ok" \/ t.rows = <<>>
  BY <1>3 DEF Assign
<1>4. CASE ~(t.outcome # "ok" \/ t.rows = <<>>) /\ at = {}
  <2>1. Assign(t, a) = [t EXCEPT !.outcome = "undefined"]
    BY <1>4 DEF Assign
  <2>2. [t EXCEPT !.outcome = "undefined"] \in TableType
    BY <1>1, <1>2 DEF TableType
  <2>3. /\ [t EXCEPT !.outcome = "undefined"].columns = t.columns
        /\ [t EXCEPT !.outcome = "undefined"].rows = t.rows
    BY <1>1 DEF TableType
  <2> QED BY <2>1, <2>2, <2>3 DEF Rewritten
<1>5. CASE ~(t.outcome # "ok" \/ t.rows = <<>>) /\ at # {}
  <2>1. Assign(t, a) = [t EXCEPT !.rows = newRows, !.outcome = how]
    BY <1>5 DEF Assign
  <2>2. /\ t.rows \in Seq(Seq(Values)) /\ DOMAIN t.rows = 1..Len(t.rows)
        /\ Len(t.rows) \in Nat
    BY <1>1 DEF TableType
  <2>3. \A r \in 1..Len(t.rows) :
          /\ t.rows[r] \in Seq(Values) /\ DOMAIN t.rows[r] = 1..Len(t.rows[r])
          /\ Len(t.rows[r]) \in Nat
          /\ \A i \in 1..Len(t.rows[r]) : t.rows[r][i] \in Values
    BY <2>2
  <2>4. ASSUME NEW r \in 1..Len(t.rows)
        PROVE  row(r) \in Seq(Values) /\ Len(row(r)) = Len(t.rows[r])
    <3>1. row(r) \in [1..Len(t.rows[r]) -> Values]
      BY <2>3
    <3>2. Len(t.rows[r]) \in Nat
      BY <2>3
    <3> DEFINE w == row(r)
               n == Len(t.rows[r])
    <3>3. w \in [1..n -> Values] /\ n \in Nat
      BY <3>1, <3>2
    <3> HIDE DEF w, n
    <3>4. w \in Seq(Values) /\ Len(w) = n
      BY <3>3
    <3> QED BY <3>4 DEF w, n
  <2>5. ASSUME NEW r \in 1..Len(t.rows), NEW i \in 1..Len(t.rows[r])
        PROVE  t.columns[i].name = a.column \/ row(r)[i] = t.rows[r][i]
    <3>1. row(r)[i] = IF i \in at /\ r < a.failsAt THEN a.value ELSE t.rows[r][i]
      BY <2>3
    <3> HIDE DEF row
    <3> QED BY <3>1 DEF Position
  <2> HIDE DEF row
  <2>6. newRows \in [1..Len(t.rows) -> Seq(Values)]
    BY <2>2, <2>4
  <2>7. /\ newRows \in Seq(Seq(Values)) /\ Len(newRows) = Len(t.rows)
        /\ \A r \in 1..Len(t.rows) : newRows[r] = row(r)
    <3>1. \A r \in 1..Len(t.rows) : newRows[r] = row(r)
      BY <2>2
    <3> HIDE DEF newRows
    <3> QED BY <2>2, <2>6, <3>1
  <2>8. how \in Outcomes
    BY <1>2
  <2> HIDE DEF newRows, how, at
  <2> DEFINE u == [t EXCEPT !.rows = newRows, !.outcome = how]
  <2>9. u \in TableType /\ u.columns = t.columns /\ u.rows = newRows
    BY <1>1, <2>7, <2>8 DEF TableType
  <2> HIDE DEF u
  <2>10. Len(t.rows) = Len(t0.rows) /\ t.columns = t0.columns
    BY DEF Rewritten
  <2>11. ASSUME NEW r \in 1..Len(t0.rows)
         PROVE  /\ Len(u.rows[r]) = Len(t0.rows[r])
                /\ \A i \in 1..Len(t0.rows[r]) :
                     t0.columns[i].name \in names \/ u.rows[r][i] = t0.rows[r][i]
    <3>1. /\ Len(t.rows[r]) = Len(t0.rows[r])
          /\ \A i \in 1..Len(t0.rows[r]) :
               t0.columns[i].name \in names \/ t.rows[r][i] = t0.rows[r][i]
      BY DEF Rewritten
    <3>2. u.rows[r] = row(r) /\ Len(row(r)) = Len(t.rows[r])
      BY <2>4, <2>7, <2>9, <2>10
    <3>3. \A i \in 1..Len(t.rows[r]) : t.columns[i].name = a.column \/ row(r)[i] = t.rows[r][i]
      BY <2>5, <2>10
    <3> QED BY <2>10, <3>1, <3>2, <3>3
  <2>12. Rewritten(u, t0, names)
    BY <2>7, <2>9, <2>10, <2>11 DEF Rewritten
  <2> QED BY <2>1, <2>12 DEF u
<1> QED BY <1>3, <1>4, <1>5

\* One assignment after another.
LEMMA AssignmentsRewrite ==
  ASSUME NEW t0 \in TableType, NEW names, NEW t, Rewritten(t, t0, names),
         NEW A, NEW assignments \in Seq(A),
         \A a \in DOMAIN assignments :
           assignments[a].column \in names /\ assignments[a].value \in Values
  PROVE  Rewritten(FoldLeft(Assign, t, assignments), t0, names)
<1> DEFINE N == Len(assignments)
           S == {u \in TableType : Rewritten(u, t0, names)}
           step == [p \in S \X (1..N) |-> Assign(p[1], assignments[p[2]])]
           At(f, T) == IF T = {} THEN t
                       ELSE Assign(f[T \ {Greatest(T)}], assignments[Greatest(T)])
           Is(f) == f = [T \in SUBSET (1..N) |-> At(f, T)]
           F == CHOOSE f : Is(f)
<1>1. N \in Nat /\ DOMAIN assignments = 1..N
  OBVIOUS
<1>2. t \in S
  BY DEF Rewritten
<1>3. \A u \in S : \A r \in 1..N : Assign(u, assignments[r]) \in S
  <2>1. ASSUME NEW u \in S, NEW r \in 1..N PROVE Assign(u, assignments[r]) \in S
    <3>1. Rewritten(Assign(u, assignments[r]), t0, names)
      BY <1>1, AssignRewrites
    <3> QED BY <3>1 DEF Rewritten
  <2> QED BY <2>1
<1> HIDE DEF S, N
<1>4. \E f : Is(f)
  <2>1. step \in [S \X (1..N) -> S]
    BY <1>3
  <2> HIDE DEF step
  <2>2. PICK f \in [SUBSET (1..N) -> S] : FoldsBy(f, step, t, N)
    BY <1>1, <1>2, <2>1, FoldExists
  <2>3. \A T \in SUBSET (1..N) : f[T] = At(f, T)
    <3>1. ASSUME NEW T \in SUBSET (1..N), T # {}
          PROVE  f[T] = Assign(f[T \ {Greatest(T)}], assignments[Greatest(T)])
      <4>1. Greatest(T) \in 1..N
        BY <1>1, <3>1, GreatestIn
      <4>2. f[T \ {Greatest(T)}] \in S
        OBVIOUS
      <4>3. f[T] = step[<<f[T \ {Greatest(T)}], Greatest(T)>>]
        BY <2>2, <3>1 DEF FoldsBy
      <4> QED BY <4>1, <4>2, <4>3 DEF step
    <3>2. f[{}] = t
      BY <2>2 DEF FoldsBy
    <3> QED BY <3>1, <3>2
  <2> HIDE DEF At
  <2>4. f = [T \in SUBSET (1..N) |-> At(f, T)]
    BY <2>3
  <2> QED BY <2>4
<1>5. Is(F)
  <2> HIDE DEF Is
  <2> QED BY <1>4, Zenon
<1> HIDE DEF F
<1>6. \A T \in SUBSET (1..N) : F[T] = At(F, T)
  <2> HIDE DEF At
  <2> QED BY <1>5
<1>7. F[1..N] \in S
  <2>1. F[{}] \in S
    BY <1>2, <1>6
  <2>2. ASSUME NEW T \in SUBSET (1..N), T # {}, F[T \ {Greatest(T)}] \in S
        PROVE  F[T] \in S
    <3>1. Greatest(T) \in 1..N
      BY <1>1, <2>2, GreatestIn
    <3>2. F[T] = Assign(F[T \ {Greatest(T)}], assignments[Greatest(T)])
      BY <1>6, <2>2
    <3> QED BY <1>3, <2>2, <3>1, <3>2
  <2> HIDE DEF Is, At
  <2> QED BY <1>1, <2>1, <2>2, FoldStays
<1>8. FoldLeft(Assign, t, assignments) = F[1..N]
  BY <1>1 DEF FoldLeft, MapThenFoldSet, Max, Greatest, F
<1> QED BY <1>7, <1>8 DEF S

(***************************************************************************)
(* The changes of ALTER TABLE to the check leave all else as it is.        *)
(***************************************************************************)
Changes == [what : {"add", "alter", "drop"}, of : {"main", "constraint"},
            rule : RulesThereAre]

Rechecked(t, t0) ==
  /\ t \in TableType /\ t.columns = t0.columns /\ t.key = t0.key
  /\ t.counter = t0.counter /\ t.rows = t0.rows

\* One change of the check.
LEMMA ChangeRechecks ==
  ASSUME NEW t0 \in TableType, NEW t, Rechecked(t, t0), NEW change \in Changes
  PROVE  Rechecked(CheckChange(t, change), t0)
<1>1. t \in TableType /\ t.check \in Checks
  BY DEF Rechecked, TableType
<1>2. {"ok", "error", "undefined"} \subseteq Outcomes /\ NoRule \in RulesThereAre
  BY DEF Outcomes, RulesThereAre
<1>3. /\ change.what \in {"add", "alter", "drop"} /\ change.of \in {"main", "constraint"}
      /\ change.rule \in RulesThereAre
  BY DEF Changes
<1>4. ASSUME NEW how \in Outcomes PROVE Rechecked([t EXCEPT !.outcome = how], t0)
  <2>1. [t EXCEPT !.outcome = how] \in TableType
    BY <1>1 DEF TableType
  <2>2. /\ [t EXCEPT !.outcome = how].columns = t.columns
        /\ [t EXCEPT !.outcome = how].key = t.key
        /\ [t EXCEPT !.outcome = how].counter = t.counter
        /\ [t EXCEPT !.outcome = how].rows = t.rows
    BY <1>1 DEF TableType
  <2> QED BY <2>1, <2>2 DEF Rechecked
<1>5. ASSUME NEW how \in Outcomes, NEW rule \in RulesThereAre
      PROVE  Rechecked([t EXCEPT !.check[change.of] = rule, !.outcome = how], t0)
  <2> DEFINE check1 == [t.check EXCEPT ![change.of] = rule]
             u == [t EXCEPT !.check = check1, !.outcome = how]
  <2>1. check1 \in Checks
    BY <1>1, <1>3 DEF Checks
  <2>2. [t EXCEPT !.check[change.of] = rule, !.outcome = how] = u
    OBVIOUS
  <2> HIDE DEF check1
  <2>3. u \in TableType
    BY <1>1, <2>1 DEF TableType
  <2>4. u.columns = t.columns /\ u.key = t.key /\ u.counter = t.counter /\ u.rows = t.rows
    BY <1>1 DEF TableType
  <2> HIDE DEF u
  <2>5. Rechecked(u, t0)
    BY <2>3, <2>4 DEF Rechecked
  <2> QED BY <2>2, <2>5
<1>6. ASSUME NEW rule \in RulesThereAre, t.outcome = "ok"
      PROVE  Rechecked([t EXCEPT !.check[change.of] = rule], t0)
  <2>1. [t EXCEPT !.check[change.of] = rule]
          = [t EXCEPT !.check[change.of] = rule, !.outcome = "ok"]
    BY <1>1, <1>6 DEF TableType
  <2> QED BY <1>2, <1>5, <2>1
<1>7. CASE t.outcome # "ok"
  BY <1>7 DEF CheckChange
<1>8. CASE t.outcome = "ok" /\ change.what \in {"add", "alter"}
  <2>1. CheckChange(t, change) \in {[t EXCEPT !.check[change.of] = change.rule],
                                    [t EXCEPT !.outcome = "error"]}
    BY <1>8 DEF CheckChange
  <2>2. /\ Rechecked([t EXCEPT !.check[change.of] = change.rule], t0)
        /\ Rechecked([t EXCEPT !.outcome = "error"], t0)
    BY <1>2, <1>3, <1>4, <1>6, <1>8
  <2> QED BY <2>1, <2>2, Zenon
<1>9. CASE t.outcome = "ok" /\ change.what = "drop"
  <2>1. CheckChange(t, change) \in
          {[t EXCEPT !.outcome = "error"],
           [t EXCEPT !.check[change.of] = NoRule, !.outcome = "undefined"],
           [t EXCEPT !.check[change.of] = NoRule, !.outcome = "ok"]}
    BY <1>9 DEF CheckChange
  <2>2. /\ Rechecked([t EXCEPT !.outcome = "error"], t0)
        /\ Rechecked([t EXCEPT !.check[change.of] = NoRule, !.outcome = "undefined"], t0)
        /\ Rechecked([t EXCEPT !.check[change.of] = NoRule, !.outcome = "ok"], t0)
    BY <1>2, <1>4, <1>5
  <2> QED BY <2>1, <2>2, Zenon
<1> QED BY <1>3, <1>7, <1>8, <1>9

\* One change after another.
LEMMA ChangesRecheck ==
  ASSUME NEW t0 \in TableType, NEW t, Rechecked(t, t0), NEW changes \in Seq(Changes)
  PROVE  Rechecked(FoldLeft(CheckChange, t, changes), t0)
<1> DEFINE N == Len(changes)
           S == {u \in TableType : Rechecked(u, t0)}
           step == [p \in S \X (1..N) |-> CheckChange(p[1], changes[p[2]])]
           At(f, T) == IF T = {} THEN t
                       ELSE CheckChange(f[T \ {Greatest(T)}], changes[Greatest(T)])
           Is(f) == f = [T \in SUBSET (1..N) |-> At(f, T)]
           F == CHOOSE f : Is(f)
<1>1. N \in Nat /\ DOMAIN changes = 1..N
  OBVIOUS
<1>2. t \in S
  BY DEF Rechecked
<1>3. \A u \in S : \A r \in 1..N : CheckChange(u, changes[r]) \in S
  <2>1. ASSUME NEW u \in S, NEW r \in 1..N PROVE CheckChange(u, changes[r]) \in S
    <3>1. Rechecked(CheckChange(u, changes[r]), t0)
      BY <1>1, ChangeRechecks
    <3> QED BY <3>1 DEF Rechecked
  <2> QED BY <2>1
<1> HIDE DEF S, N
<1>4. \E f : Is(f)
  <2>1. step \in [S \X (1..N) -> S]
    BY <1>3
  <2> HIDE DEF step
  <2>2. PICK f \in [SUBSET (1..N) -> S] : FoldsBy(f, step, t, N)
    BY <1>1, <1>2, <2>1, FoldExists
  <2>3. \A T \in SUBSET (1..N) : f[T] = At(f, T)
    <3>1. ASSUME NEW T \in SUBSET (1..N), T # {}
          PROVE  f[T] = CheckChange(f[T \ {Greatest(T)}], changes[Greatest(T)])
      <4>1. Greatest(T) \in 1..N
        BY <1>1, <3>1, GreatestIn
      <4>2. f[T \ {Greatest(T)}] \in S
        OBVIOUS
      <4>3. f[T] = step[<<f[T \ {Greatest(T)}], Greatest(T)>>]
        BY <2>2, <3>1 DEF FoldsBy
      <4> QED BY <4>1, <4>2, <4>3 DEF step
    <3>2. f[{}] = t
      BY <2>2 DEF FoldsBy
    <3> QED BY <3>1, <3>2
  <2> HIDE DEF At
  <2>4. f = [T \in SUBSET (1..N) |-> At(f, T)]
    BY <2>3
  <2> QED BY <2>4
<1>5. Is(F)
  <2> HIDE DEF Is
  <2> QED BY <1>4, Zenon
<1> HIDE DEF F
<1>6. \A T \in SUBSET (1..N) : F[T] = At(F, T)
  <2> HIDE DEF At
  <2> QED BY <1>5
<1>7. F[1..N] \in S
  <2>1. F[{}] \in S
    BY <1>2, <1>6
  <2>2. ASSUME NEW T \in SUBSET (1..N), T # {}, F[T \ {Greatest(T)}] \in S
        PROVE  F[T] \in S
    <3>1. Greatest(T) \in 1..N
      BY <1>1, <2>2, GreatestIn
    <3>2. F[T] = CheckChange(F[T \ {Greatest(T)}], changes[Greatest(T)])
      BY <1>6, <2>2
    <3> QED BY <1>3, <2>2, <3>1, <3>2
  <2> HIDE DEF Is, At
  <2> QED BY <1>1, <2>1, <2>2, FoldStays
<1>8. FoldLeft(CheckChange, t, changes) = F[1..N]
  BY <1>1 DEF FoldLeft, MapThenFoldSet, Max, Greatest, F
<1> QED BY <1>7, <1>8 DEF S

(***************************************************************************)
(* Some places of a sequence, in their order.                              *)
(***************************************************************************)
Ascending(f) == \A i, j \in DOMAIN f : i < j => f[i] < f[j]

\* There is one order in which the places ascend, and InOrder is it.
LEMMA InOrderFacts ==
  ASSUME NEW N \in Nat, NEW places \in SUBSET (1..N)
  PROVE  /\ Cardinality(places) \in Nat
         /\ InOrder(places) \in [1..Cardinality(places) -> places]
         /\ Ascending(InOrder(places))
<1> DEFINE Has(T) == \E f \in [1..Cardinality(T) -> T] : Ascending(f)
           K == {n \in Nat : \A T \in SUBSET (1..n) : Cardinality(T) \in Nat /\ Has(T)}
<1>1. 0 \in K
  <2>1. \A T \in SUBSET (1..0) : T = {}
    OBVIOUS
  <2>2. Cardinality({}) = 0
    BY FS_EmptySet
  <2>3. [i \in 1..0 |-> i] \in [1..0 -> {}] /\ Ascending([i \in 1..0 |-> i])
    BY DEF Ascending
  <2>4. Has({})
    BY <2>2, <2>3
  <2> HIDE DEF Has
  <2>5. ASSUME NEW T \in SUBSET (1..0) PROVE Cardinality(T) \in Nat /\ Has(T)
    <3>1. T = {}
      BY <2>1
    <3> QED BY <2>2, <2>4, <3>1
  <2> QED BY <2>5
<1>2. ASSUME NEW n \in Nat, n \in K PROVE n + 1 \in K
  <2>1. ASSUME NEW T \in SUBSET (1..(n + 1)) PROVE Cardinality(T) \in Nat /\ Has(T)
    <3>1. CASE n + 1 \notin T
      <4>1. T \in SUBSET (1..n)
        BY <3>1
      <4> QED BY <1>2, <4>1
    <3>2. CASE n + 1 \in T
      <4> DEFINE T1 == T \ {n + 1}
                 c == Cardinality(T1)
      <4>1. T1 \in SUBSET (1..n)
        OBVIOUS
      <4>2. c \in Nat /\ Has(T1)
        BY <1>2, <4>1
      <4>3. IsFiniteSet(T)
        <5>1. IsFiniteSet(1..(n + 1))
          BY FS_Interval
        <5> QED BY <5>1, FS_Subset
      <4>4. Cardinality(T) = c + 1
        <5>1. Cardinality(T1) = Cardinality(T) - 1 /\ Cardinality(T) \in Nat
          BY <3>2, <4>3, FS_RemoveElement, FS_CardinalityType
        <5> QED BY <5>1
      <4>5. PICK f \in [1..c -> T1] : Ascending(f)
        BY <4>2
      <4> HIDE DEF c
      <4> DEFINE g == [i \in 1..(c + 1) |-> IF i = c + 1 THEN n + 1 ELSE f[i]]
      <4>6. g \in [1..(c + 1) -> T]
        <5>1. \A i \in 1..(c + 1) : i # c + 1 => f[i] \in T
          BY <4>2, <4>5
        <5> QED BY <3>2, <5>1
      <4>7. Ascending(g)
        <5>1. ASSUME NEW i \in 1..(c + 1), NEW j \in 1..(c + 1), i < j
              PROVE  g[i] < g[j]
          <6>1. i \in 1..c /\ g[i] = f[i] /\ f[i] \in 1..n
            <7>1. i \in 1..c /\ i # c + 1
              BY <4>2, <5>1
            <7>2. f[i] \in T1
              BY <4>5, <7>1
            <7>3. g[i] = f[i]
              BY <7>1
            <7> HIDE DEF g
            <7> QED BY <4>1, <7>1, <7>2, <7>3
          <6>2. CASE j = c + 1
            <7>1. g[j] = n + 1
              BY <6>2
            <7> HIDE DEF g
            <7> QED BY <6>1, <7>1
          <6>3. CASE j # c + 1
            <7>1. j \in 1..c /\ g[j] = f[j]
              BY <4>2, <6>3
            <7>2. f[i] < f[j]
              BY <4>5, <5>1, <6>1, <7>1 DEF Ascending
            <7> HIDE DEF g
            <7> QED BY <6>1, <7>1, <7>2
          <6> QED BY <6>2, <6>3
        <5> QED BY <5>1 DEF Ascending
      <4> HIDE DEF g
      <4> QED BY <4>2, <4>4, <4>6, <4>7
    <3> QED BY <3>1, <3>2
  <2> HIDE DEF Has
  <2> QED BY <2>1
<1>3. N \in K
  <2> HIDE DEF K
  <2> QED BY <1>1, <1>2, SetInduction
<1>4. Cardinality(places) \in Nat /\ Has(places)
  <2> HIDE DEF Has
  <2> QED BY <1>3
<1>5. /\ InOrder(places) \in [1..Cardinality(places) -> places]
      /\ Ascending(InOrder(places))
  BY <1>4, Zenon DEF InOrder, Ascending
<1> QED BY <1>4, <1>5

\* What stands at the places are elements of the sequence, each taken once.
LEMMA AtPlacesFacts ==
  ASSUME NEW S, NEW seq \in Seq(S), NEW places \in SUBSET DOMAIN seq
  PROVE  /\ AtPlaces(seq, places) \in Seq(S)
         /\ \A i \in DOMAIN AtPlaces(seq, places) :
              /\ InOrder(places)[i] \in DOMAIN seq
              /\ AtPlaces(seq, places)[i] = seq[InOrder(places)[i]]
         /\ \A i, j \in DOMAIN AtPlaces(seq, places) :
              InOrder(places)[i] = InOrder(places)[j] => i = j
         /\ Len(AtPlaces(seq, places)) <= Len(seq)
<1> DEFINE c == Cardinality(places)
           f == InOrder(places)
           a == AtPlaces(seq, places)
<1>1. Len(seq) \in Nat /\ DOMAIN seq = 1..Len(seq) /\ \A i \in DOMAIN seq : seq[i] \in S
  OBVIOUS
<1>2. c \in Nat /\ f \in [1..c -> places] /\ Ascending(f)
  BY <1>1, InOrderFacts
<1>3. c <= Len(seq)
  <2>1. IsFiniteSet(1..Len(seq)) /\ Cardinality(1..Len(seq)) = Len(seq)
    <3>1. /\ IsFiniteSet(1..Len(seq))
          /\ Cardinality(1..Len(seq)) = IF 1 > Len(seq) THEN 0 ELSE Len(seq) - 1 + 1
      BY <1>1, FS_Interval
    <3> QED BY <1>1, <3>1
  <2> QED BY <1>1, <2>1, FS_Subset
<1>4. a = [i \in 1..c |-> seq[f[i]]]
  BY DEF AtPlaces
<1> HIDE DEF c, f, a
<1>5. \A i \in 1..c : f[i] \in DOMAIN seq /\ seq[f[i]] \in S
  BY <1>1, <1>2
<1>6. a \in [1..c -> S]
  BY <1>4, <1>5
<1>7. a \in Seq(S) /\ Len(a) = c /\ DOMAIN a = 1..c
  BY <1>2, <1>6
<1>8. ASSUME NEW i \in 1..c, NEW j \in 1..c, f[i] = f[j] PROVE i = j
  <2>1. f[i] \in Int /\ f[j] \in Int /\ i \in Int /\ j \in Int
    BY <1>1, <1>2
  <2>2. ~(f[i] < f[j]) /\ ~(f[j] < f[i])
    BY <1>8, <2>1
  <2>3. ~(i < j) /\ ~(j < i)
    BY <1>2, <2>2 DEF Ascending
  <2> QED BY <2>1, <2>3
<1> QED BY <1>3, <1>4, <1>5, <1>7, <1>8 DEF a, f

(***************************************************************************)
(* A tuple of pairs: NULL, or the value of one of the pairs.               *)
(***************************************************************************)
NamedBy(pairs, t, w) ==
  \A i \in DOMAIN w :
    w[i] = Null \/ \E p \in DOMAIN pairs : pairs[p] = <<t.columns[i].name, w[i]>>

\* It has the value that a pair gives with the column's name.
LEMMA TupleFromValuesFacts ==
  ASSUME NEW t, NEW L, NEW V, NEW pairs \in Seq(L \X V), t.columns \in Seq(Columns)
  PROVE  /\ TupleFromValues(t, pairs) \in Seq(V \cup {Null})
         /\ \A i \in DOMAIN TupleFromValues(t, pairs) :
              TupleFromValues(t, pairs)[i] \in V \cup {Null}
         /\ NamedBy(pairs, t, TupleFromValues(t, pairs))
<1> DEFINE named(i) == {p \in DOMAIN pairs : i \in Position(t.columns, pairs[p][1])}
           last(i) == CHOOSE p \in named(i) : \A q \in named(i) : q <= p
           w == TupleFromValues(t, pairs)
<1>1. /\ Len(pairs) \in Nat /\ DOMAIN pairs = 1..Len(pairs)
      /\ \A p \in DOMAIN pairs : pairs[p][2] \in V /\ pairs[p] = <<pairs[p][1], pairs[p][2]>>
  OBVIOUS
<1>2. ASSUME NEW i \in DOMAIN t.columns, named(i) # {}
      PROVE  last(i) \in DOMAIN pairs /\ pairs[last(i)][1] = t.columns[i].name
  <2>1. named(i) \in SUBSET (1..Len(pairs))
    BY <1>1
  <2> HIDE DEF named
  <2>2. Greatest(named(i)) \in named(i) /\ \A q \in named(i) : Greatest(named(i)) >= q
    BY <1>1, <1>2, <2>1, GreatestIn
  <2>3. \E p \in named(i) : \A q \in named(i) : q <= p
    <3>1. \A q \in named(i) : q \in Int
      BY <1>1, <2>1
    <3> QED BY <2>2, <3>1
  <2>4. last(i) \in named(i)
    BY <2>3, Zenon
  <2>5. \A p \in named(i) : pairs[p][1] = t.columns[i].name
    BY DEF named, Position
  <2> QED BY <1>1, <2>1, <2>4, <2>5
<1>3. w = [i \in DOMAIN t.columns |-> IF named(i) = {} THEN Null ELSE pairs[last(i)][2]]
  BY DEF TupleFromValues
<1> HIDE DEF named, last, w
<1>4. \A i \in DOMAIN t.columns :
        (IF named(i) = {} THEN Null ELSE pairs[last(i)][2]) \in V \cup {Null}
  BY <1>1, <1>2
<1>5. DOMAIN t.columns = 1..Len(t.columns) /\ Len(t.columns) \in Nat
  OBVIOUS
<1>6. w \in [1..Len(t.columns) -> V \cup {Null}]
  BY <1>3, <1>4, <1>5
<1>7. w \in Seq(V \cup {Null})
  BY <1>5, <1>6
<1>8. ASSUME NEW i \in DOMAIN w
      PROVE  /\ w[i] \in V \cup {Null}
             /\ w[i] = Null \/ \E p \in DOMAIN pairs : pairs[p] = <<t.columns[i].name, w[i]>>
  <2>1. i \in DOMAIN t.columns
    BY <1>3
  <2>2. CASE named(i) = {}
    BY <1>3, <2>1, <2>2
  <2>3. CASE named(i) # {}
    <3>1. w[i] = pairs[last(i)][2]
      BY <1>3, <2>1, <2>3
    <3> QED BY <1>1, <1>2, <2>1, <2>3, <3>1
  <2> QED BY <1>6, <2>2, <2>3
<1>9. NamedBy(pairs, t, w)
  BY <1>8 DEF NamedBy
<1> QED BY <1>7, <1>8, <1>9 DEF w

-----------------------------------------------------------------------------
(***************************************************************************)
(* The inductive invariant: the properties that the runs check, and the    *)
(* types of the columns, rules and values.                                 *)
(***************************************************************************)
Inv ==
  /\ Current \in TableType
  /\ TypeOK /\ ColumnsAreLegal /\ OrphansLostTheirParent /\ OnlyGivenOrCopiedCollide

\* The state's types, as facts about its variables.
LEMMA StateFacts ==
  ASSUME Inv
  PROVE  /\ columns \in Seq(Columns) /\ primaryKey \in Names \cup {NoKey}
         /\ foreignKeys \in SUBSET Names /\ counter \in [Names -> Nat]
         /\ check \in Checks /\ rows \in Seq(Seq(Values))
         /\ Len(columns) \in Nat /\ DOMAIN columns = 1..Len(columns)
         /\ \A i \in DOMAIN columns :
              columns[i] \in Columns /\ columns[i].name \in Names /\ columns[i].name # NoKey
         /\ Len(rows) \in Nat /\ DOMAIN rows = 1..Len(rows)
         /\ \A r \in DOMAIN rows :
              /\ rows[r] \in Seq(Values) /\ Len(rows[r]) = Len(columns)
              /\ DOMAIN rows[r] = DOMAIN columns
              /\ \A i \in DOMAIN columns : rows[r][i] \in Values
         /\ Grown(Current, Current, {})
<1>1. /\ columns \in Seq(Columns) /\ primaryKey \in Names \cup {NoKey}
      /\ foreignKeys \in SUBSET Names /\ counter \in [Names -> Nat]
      /\ check \in Checks /\ rows \in Seq(Seq(Values))
  BY DEF Inv, Current, Table, TableType
<1>2. /\ Len(columns) \in Nat /\ DOMAIN columns = 1..Len(columns)
      /\ \A i \in DOMAIN columns :
           columns[i] \in Columns /\ columns[i].name \in Names /\ columns[i].name # NoKey
  BY <1>1, ColumnFacts
<1>3. Len(rows) \in Nat /\ DOMAIN rows = 1..Len(rows)
  BY <1>1
<1>4. ASSUME NEW r \in DOMAIN rows
      PROVE  /\ rows[r] \in Seq(Values) /\ Len(rows[r]) = Len(columns)
             /\ DOMAIN rows[r] = DOMAIN columns
             /\ \A i \in DOMAIN columns : rows[r][i] \in Values
  <2>1. rows[r] \in Seq(Values) /\ Len(rows[r]) = Len(columns)
    BY <1>1, <1>3 DEF Inv, TypeOK
  <2>2. DOMAIN rows[r] = DOMAIN columns
    BY <1>2, <2>1
  <2>3. \A i \in DOMAIN rows[r] : rows[r][i] \in Values
    BY <2>1
  <2> QED BY <2>1, <2>2, <2>3
<1>5. Grown(Current, Current, {})
  <2>1. /\ Current \in TableType /\ Current.rows = rows /\ Current.counter = counter
    BY DEF Inv, Current, Table
  <2>2. \A n \in Names : counter[n] <= counter[n]
    BY <1>1
  <2>3. \A r \in DOMAIN rows : ~(r > Len(rows))
    BY <1>3
  <2> QED BY <1>3, <2>1, <2>2, <2>3 DEF Grown, SameSchema
<1> QED BY <1>1, <1>2, <1>3, <1>4, <1>5

\* A statement starts from the table as it is.
LEMMA GrownFromCurrent ==
  ASSUME Inv, NEW supplied
  PROVE  Current \in TableType /\ Grown(Current, Current, supplied)
<1>1. Current \in TableType /\ Grown(Current, Current, {}) /\ Current.rows = rows
  BY StateFacts DEF Inv, Current, Table
<1>2. \A r \in DOMAIN rows : ~(r > Len(rows))
  BY StateFacts
<1> QED BY <1>1, <1>2 DEF Grown

(***************************************************************************)
(* INSERT, IMPORT and INSERT ... SELECT: a table that has grown is legal,  *)
(* and its new rows pass the rules.                                        *)
(***************************************************************************)
NewRowsPass ==
  \A r \in DOMAIN rows' : r > Len(rows) =>
    \A rule \in {check.main, check.constraint} : Passes(Current, rule, rows'[r])

\* A table that has grown by an inserting statement is legal.
LEMMA InsertedKeeps ==
  ASSUME Inv, NEW t, NEW V, Grown(t, Current, Names \X V), Inserted(t, V)
  PROVE  Inv' /\ NewRowsPass
<1> DEFINE supplied == Names \X V
<1>1. /\ rows' = t.rows /\ counter' = t.counter /\ outcome' = t.outcome
      /\ given' = given \cup
           {p \in Brought(t, Len(rows) + 1) : p[2] \in V /\ ~IsNull(p[2])}
      /\ copied' = copied
      /\ columns' = columns /\ primaryKey' = primaryKey /\ foreignKeys' = foreignKeys
      /\ check' = check /\ parent' = parent /\ updated' = updated /\ orphaned' = orphaned
      /\ \A n \in Names : t.counter[n] <= MaxCounter
  BY DEF Inserted, schema, Fits
<1>2. /\ t \in TableType
      /\ t.columns = columns /\ t.key = primaryKey /\ t.foreignKeys = foreignKeys
      /\ t.check = check
      /\ \A n \in Names : counter[n] <= t.counter[n]
      /\ Len(rows) <= Len(t.rows)
      /\ \A r \in DOMAIN rows : t.rows[r] = rows[r]
      /\ \A r \in DOMAIN t.rows : r > Len(rows) =>
           RowFits(t, t.rows[r], supplied) /\ Distinguished(t, r)
  BY DEF Grown, SameSchema, Current, Table
<1>3. /\ columns \in Seq(Columns) /\ primaryKey \in Names \cup {NoKey}
      /\ foreignKeys \in SUBSET Names /\ counter \in [Names -> Nat]
      /\ check \in Checks /\ Len(columns) \in Nat /\ DOMAIN columns = 1..Len(columns)
      /\ \A i \in DOMAIN columns : columns[i].name \in Names
      /\ Len(rows) \in Nat /\ DOMAIN rows = 1..Len(rows)
      /\ \A r \in DOMAIN rows :
           /\ Len(rows[r]) = Len(columns)
           /\ \A i \in DOMAIN columns : rows[r][i] \in Values
  BY StateFacts
<1>4. /\ t.rows \in Seq(Seq(Values)) /\ Len(t.rows) \in Nat /\ DOMAIN t.rows = 1..Len(t.rows)
      /\ t.counter \in [Names -> Nat] /\ t.outcome \in Outcomes
  BY <1>2 DEF TableType
<1>5. ASSUME NEW r \in DOMAIN rows', r > Len(rows)
      PROVE  /\ r \in DOMAIN t.rows /\ rows'[r] = t.rows[r]
             /\ RowFits(t, rows'[r], supplied) /\ Distinguished(t, r)
  BY <1>1, <1>2, <1>5
<1>6. ASSUME NEW r \in DOMAIN rows', ~(r > Len(rows))
      PROVE  r \in DOMAIN rows /\ rows'[r] = rows[r]
  BY <1>1, <1>2, <1>3, <1>4, <1>6
<1>7. Current' \in TableType
  BY <1>1, <1>2, <1>3, <1>4 DEF Current, Table, TableType, Outcomes
<1>8. TypeOK'
  <2>1. counter' \in [Names -> 0..MaxCounter]
    <3>1. \A n \in Names : t.counter[n] \in 0..MaxCounter
      BY <1>1, <1>4, IntegrityAssumption
    <3> QED BY <1>1, <1>4, <3>1
  <2>2. \A r \in DOMAIN rows' : Len(rows'[r]) = Len(columns')
    BY <1>1, <1>2, <1>3, <1>5, <1>6 DEF RowFits
  <2>3. /\ primaryKey' \in ColumnNames' \cup {NoKey} /\ foreignKeys' \subseteq ColumnNames'
        /\ parent' \subseteq ParentKeys
    BY <1>1 DEF Inv, TypeOK, ColumnNames
  <2> QED BY <1>1, <1>4, <2>1, <2>2, <2>3 DEF TypeOK
<1>9. ColumnsAreLegal'
  <2>1. ASSUME NEW i \in DOMAIN columns, columns[i].name \notin updated
        PROVE  \A r \in DOMAIN rows' :
                 /\ IsNull(rows'[r][i]) \/ rows'[r][i].type = columns[i].type
                 /\ columns[i].notNull \/ i \in Position(columns, primaryKey) => ~IsNull(rows'[r][i])
    <3>1. \A r \in DOMAIN rows :
            /\ IsNull(rows[r][i]) \/ rows[r][i].type = columns[i].type
            /\ columns[i].notNull \/ i \in Position(columns, primaryKey) => ~IsNull(rows[r][i])
      BY <2>1 DEF Inv, ColumnsAreLegal
    <3>2. ASSUME NEW r \in DOMAIN rows', r > Len(rows)
          PROVE  /\ IsNull(rows'[r][i]) \/ rows'[r][i].type = columns[i].type
                 /\ columns[i].notNull \/ i \in Position(columns, primaryKey) => ~IsNull(rows'[r][i])
      BY <1>2, <1>5, <3>2 DEF RowFits
    <3> QED BY <1>6, <3>1, <3>2
  <2>2. ASSUME NEW i \in DOMAIN columns, columns[i].name \notin updated,
               columns[i].unique \/ i \in Position(columns, primaryKey)
        PROVE  \A r, q \in DOMAIN rows' : rows'[r][i] = rows'[q][i] => r = q
    <3>1. \A r, q \in DOMAIN rows : rows[r][i] = rows[q][i] => r = q
      BY <2>2 DEF Inv, ColumnsAreLegal
    <3>2. ASSUME NEW r \in DOMAIN rows', NEW q \in DOMAIN rows', q < r
          PROVE  rows'[q][i] # rows'[r][i]
      <4>1. CASE r > Len(rows)
        <5>1. Distinguished(t, r) /\ q \in 1..(r - 1) /\ i \in DOMAIN t.columns
          BY <1>1, <1>2, <1>4, <1>5, <3>2, <4>1
        <5>2. t.columns[i].unique \/ i \in Position(t.columns, t.key)
          BY <1>2, <2>2
        <5> QED BY <1>1, <5>1, <5>2 DEF Distinguished
      <4>2. CASE ~(r > Len(rows))
        <5>1. ~(q > Len(rows))
          BY <1>1, <1>3, <1>4, <3>2, <4>2
        <5>2. r \in DOMAIN rows /\ q \in DOMAIN rows /\ r # q
          BY <1>1, <1>4, <1>6, <3>2, <4>2, <5>1
        <5> QED BY <1>6, <3>1, <4>2, <5>1, <5>2
      <4> QED BY <4>1, <4>2
    <3>3. \A r, q \in DOMAIN rows' : r < q \/ q < r \/ r = q
      BY <1>1, <1>4
    <3> QED BY <3>2, <3>3
  <2> QED BY <1>1, <2>1, <2>2 DEF ColumnsAreLegal
<1>10. OrphansLostTheirParent'
  <2>1. ASSUME NEW name \in foreignKeys \ updated, NEW i \in Position(columns, name),
               NEW r \in DOMAIN rows'
        PROVE  IsNull(rows'[r][i]) \/ HasParent(rows'[r][i]) \/ rows'[r][i] \in orphaned
    <3>1. CASE r > Len(rows)
      BY <1>2, <1>5, <2>1, <3>1 DEF RowFits
    <3>2. CASE ~(r > Len(rows))
      BY <1>6, <2>1, <3>2 DEF Inv, OrphansLostTheirParent
    <3> QED BY <3>1, <3>2
  <2>2. \A r \in DOMAIN rows' : \A i :
          HasParent(rows'[r][i]) =>
            \E p \in parent' : p.type = rows'[r][i].type /\ Equal(p, rows'[r][i]) = Yes
    BY <1>1 DEF HasParent
  <2> QED BY <1>1, <2>1, <2>2 DEF OrphansLostTheirParent, HasParent
<1>11. OnlyGivenOrCopiedCollide'
  <2>1. ASSUME NEW i \in DOMAIN columns, columns[i].autoIncrement,
               columns[i].name \notin updated, NEW r \in DOMAIN rows',
               rows'[r][i].v > counter'[columns[i].name]
        PROVE  <<columns[i].name, rows'[r][i]>> \in given' \cup copied'
    <3>1. CASE r > Len(rows)
      <4>1. rows'[r][i] \in V /\ ~IsNull(rows'[r][i])
        <5>1. /\ <<columns[i].name, rows'[r][i]>> \in supplied
              /\ ~IsNull(rows'[r][i])
          BY <1>1, <1>2, <1>5, <2>1, <3>1 DEF RowFits
        <5> QED BY <5>1
      <4>2. r \in (Len(rows) + 1)..Len(t.rows)
        BY <1>1, <1>3, <1>4, <3>1
      <4>3. <<columns[i].name, rows'[r][i]>> \in Brought(t, Len(rows) + 1)
        BY <1>1, <1>2, <2>1, <4>2 DEF Brought
      <4> QED BY <1>1, <4>1, <4>3
    <3>2. CASE ~(r > Len(rows))
      <4>1. r \in DOMAIN rows /\ rows'[r] = rows[r]
        BY <1>6, <3>2
      <4>2. /\ counter[columns[i].name] \in Nat /\ counter'[columns[i].name] \in Nat
            /\ counter[columns[i].name] <= counter'[columns[i].name]
        BY <1>1, <1>2, <1>3, <1>4
      <4>3. rows[r][i].v \in Int
        BY <1>3, <4>1, ValueFacts
      <4>4. rows[r][i].v > counter[columns[i].name]
        BY <2>1, <4>1, <4>2, <4>3
      <4>5. <<columns[i].name, rows[r][i]>> \in given \cup copied
        BY <2>1, <4>1, <4>4 DEF Inv, OnlyGivenOrCopiedCollide
      <4> QED BY <1>1, <4>1, <4>5
    <3> QED BY <3>1, <3>2
  <2> QED BY <1>1, <2>1 DEF OnlyGivenOrCopiedCollide
<1>12. NewRowsPass
  <2>1. \A rule, w : Passes(t, rule, w) = Passes(Current, rule, w)
    BY <1>2 DEF Passes, Current, Table
  <2>2. ASSUME NEW r \in DOMAIN rows', r > Len(rows), NEW rule \in {check.main, check.constraint}
        PROVE  Passes(Current, rule, rows'[r])
    BY <1>2, <1>5, <2>1, <2>2 DEF RowFits
  <2> QED BY <2>2 DEF NewRowsPass
<1> QED BY <1>7, <1>8, <1>9, <1>10, <1>11, <1>12 DEF Inv

\* The names of the columns there are.
LEMMA CurrentNames ==
  ASSUME Inv
  PROVE  \A i \in DOMAIN Current.columns : Current.columns[i].name \in Names
BY StateFacts DEF Current, Table

\* INSERT of one row.
LEMMA InsertKeeps ==
  ASSUME Inv, NEW n \in Nat, NEW row \in RowsOf(n), Insert(row)
  PROVE  Inv' /\ NewRowsPass
<1>1. row \in Seq(Values) /\ \A i \in DOMAIN row : row[i] \in Range(row)
  BY IntegrityAssumption DEF RowsOf, Range
<1>2. \A i \in DOMAIN row \cap DOMAIN Current.columns :
        <<Current.columns[i].name, row[i]>> \in Names \X Range(row)
  BY <1>1, CurrentNames
<1>3. Grown(InsertRow(Current, row), Current, Names \X Range(row))
  BY <1>1, <1>2, GrownFromCurrent, InsertGrows
<1> QED BY <1>3, InsertedKeeps DEF Insert

\* IMPORT.
LEMMA ImportKeeps ==
  ASSUME Inv, NEW n \in Nat, NEW first \in RowsOf(n), NEW second \in RowsOf(n),
         Import(<<first, second>>)
  PROVE  Inv' /\ NewRowsPass
<1> DEFINE newRows == <<first, second>>
           supplied == UNION {Range(r) : r \in Range(newRows)}
<1>1. first \in Seq(Values) /\ second \in Seq(Values)
  BY IntegrityAssumption DEF RowsOf
<1>2. newRows \in Seq(Seq(Values)) /\ DOMAIN newRows = {1, 2}
  BY <1>1
<1>3. \A r \in DOMAIN newRows : \A i \in DOMAIN newRows[r] \cap DOMAIN Current.columns :
        <<Current.columns[i].name, newRows[r][i]>> \in Names \X supplied
  <2> HIDE DEF newRows
  <2>1. \A r \in DOMAIN newRows : \A i \in DOMAIN newRows[r] : newRows[r][i] \in supplied
    BY DEF Range
  <2> HIDE DEF supplied
  <2> QED BY <2>1, CurrentNames
<1>4. Inserted(InsertAll(Current, newRows), supplied)
  BY DEF Import
<1> HIDE DEF newRows, supplied
<1>5. Grown(InsertAll(Current, newRows), Current, Names \X supplied)
  BY <1>2, <1>3, GrownFromCurrent, InsertAllGrows
<1> QED BY <1>4, <1>5, InsertedKeeps

\* A row made of the values whose columns a statement lists.
LEMMA ListedValues ==
  ASSUME Inv, NEW L, NEW list \in Seq(L), NEW row \in Seq(Given), Len(list) <= Len(row)
  PROVE  /\ ListedRow(list, row) \in Seq(Values)
         /\ \A i \in DOMAIN ListedRow(list, row) :
              IsNull(ListedRow(list, row)[i]) \/ ListedRow(list, row)[i] \in Range(row)
<1> DEFINE n == Len(list)
           V == Range(row)
           values == SubSeq(row, 1, n)
           pairs == Zip(list, values)
           w == ListedRow(list, row)
<1>1. n \in Nat /\ DOMAIN list = 1..n /\ \A i \in 1..n : list[i] \in L
  OBVIOUS
<1>2. V \subseteq Values
  <2>1. V \subseteq Given
    BY DEF Range
  <2> QED BY <2>1, IntegrityAssumption
<1>3. values \in Seq(Given) /\ Len(values) = n /\ \A i \in 1..n : values[i] \in V
  <2>1. values \in Seq(Given) /\ Len(values) = n /\ \A i \in 1..n : values[i] = row[i]
    BY <1>1
  <2>2. \A i \in 1..n : i \in DOMAIN row
    BY <1>1
  <2> HIDE DEF values, n
  <2> QED BY <2>1, <2>2 DEF Range
<1> HIDE DEF n, values, V
<1>4. pairs = [i \in 1..n |-> <<list[i], values[i]>>]
  BY <1>1, <1>3 DEF Zip, n
<1>5. pairs \in [1..n -> L \X V]
  BY <1>1, <1>3, <1>4
<1>6. pairs \in Seq(L \X V)
  BY <1>1, <1>5
<1>7. w = TupleFromValues(Current, pairs)
  BY DEF ListedRow, pairs, values, n
<1>8. Current.columns \in Seq(Columns)
  BY StateFacts DEF Current, Table
<1> HIDE DEF pairs, w
<1>9. /\ TupleFromValues(Current, pairs) \in Seq(V \cup {Null})
      /\ \A i \in DOMAIN TupleFromValues(Current, pairs) :
           TupleFromValues(Current, pairs)[i] \in V \cup {Null}
  BY <1>6, <1>8, TupleFromValuesFacts
<1>10. w \in Seq(V \cup {Null}) /\ \A i \in DOMAIN w : w[i] \in V \cup {Null}
  BY <1>7, <1>9
<1>11. Null \in Values /\ IsNull(Null)
  BY DEF Values, Null, IsNull
<1>12. w \in Seq(Values)
  BY <1>2, <1>10, <1>11
<1> QED BY <1>10, <1>11, <1>12 DEF w, V

\* INSERT with a list of columns.
LEMMA InsertListedKeeps ==
  ASSUME Inv, NEW L, NEW list \in Seq(L), NEW n \in Nat, NEW values \in RowsOf(n),
         InsertListed(list, values)
  PROVE  Inv' /\ NewRowsPass
<1> DEFINE t == IF Len(values) < Len(list) THEN [Current EXCEPT !.outcome = "undefined"]
                ELSE IF ~KnowsColumns(Current, list) THEN [Current EXCEPT !.outcome = "error"]
                ELSE InsertRow(Current, ListedRow(list, values))
           supplied == Names \X Range(values)
<1>1. values \in Seq(Given) /\ Len(values) \in Nat /\ Len(list) \in Nat
  BY DEF RowsOf
<1>2. {"undefined", "error"} \subseteq Outcomes
  BY DEF Outcomes
<1>3. Current \in TableType /\ Grown(Current, Current, supplied)
  BY GrownFromCurrent
<1> HIDE DEF supplied
<1>4. /\ Grown([Current EXCEPT !.outcome = "undefined"], Current, supplied)
      /\ Grown([Current EXCEPT !.outcome = "error"], Current, supplied)
  BY <1>2, <1>3, StopGrows
<1>5. ASSUME ~(Len(values) < Len(list))
      PROVE  Grown(InsertRow(Current, ListedRow(list, values)), Current, supplied)
  <2> DEFINE w == ListedRow(list, values)
  <2>1. /\ w \in Seq(Values)
        /\ \A i \in DOMAIN w : IsNull(w[i]) \/ w[i] \in Range(values)
    BY <1>1, <1>5, ListedValues
  <2> HIDE DEF w
  <2>2. \A i \in DOMAIN w \cap DOMAIN Current.columns :
          IsNull(w[i]) \/ <<Current.columns[i].name, w[i]>> \in supplied
    BY <2>1, CurrentNames DEF supplied
  <2>3. Grown(InsertRow(Current, w), Current, supplied)
    BY <1>3, <2>1, <2>2, InsertGrows
  <2> QED BY <2>3 DEF w
<1>6. Grown(t, Current, supplied)
  BY <1>4, <1>5
<1>7. Inserted(t, Range(values))
  BY DEF InsertListed
<1> HIDE DEF t
<1> QED BY <1>6, <1>7, InsertedKeeps DEF supplied

\* INSERT ... SELECT.
LEMMA InsertSelectKeeps ==
  ASSUME Inv, NEW L, NEW list \in Seq(L), NEW result \in Seq(Seq(Given)), result # <<>>,
         \A r \in DOMAIN result : Len(result[r]) = Len(result[1]),
         InsertSelect(list, result)
  PROVE  Inv' /\ NewRowsPass
<1> DEFINE V == UNION {Range(r) : r \in Range(result)}
           supplied == Names \X V
           newRows == [r \in DOMAIN result |-> ListedRow(list, result[r])]
<1>1. /\ DOMAIN result = 1..Len(result) /\ Len(result) \in Nat /\ 1 \in DOMAIN result
      /\ \A r \in DOMAIN result : result[r] \in Seq(Given) /\ Len(result[r]) \in Nat
      /\ Len(list) \in Nat
  OBVIOUS
<1>2. {"aborted", "error"} \subseteq Outcomes
  BY DEF Outcomes
<1>3. Current \in TableType /\ Grown(Current, Current, supplied)
  BY GrownFromCurrent
<1>4. \A r \in DOMAIN result : Range(result[r]) \subseteq V
  BY DEF Range
<1>5. Inserted(InsertSelected(list, result), V)
  BY DEF InsertSelect
<1> HIDE DEF V
<1>6. Grown(InsertSelected(list, result), Current, supplied)
  <2>1. CASE Len(list) > Len(result[1])
    <3>1. Grown([Current EXCEPT !.outcome = "aborted"], Current, supplied)
      BY <1>2, <1>3, StopGrows
    <3> QED BY <2>1, <3>1 DEF InsertSelected
  <2>2. CASE ~(Len(list) > Len(result[1])) /\ ~KnowsColumns(Current, list)
    <3>1. Grown([Current EXCEPT !.outcome = "error"], Current, supplied)
      BY <1>2, <1>3, StopGrows
    <3> QED BY <2>2, <3>1 DEF InsertSelected
  <2>3. CASE ~(Len(list) > Len(result[1])) /\ KnowsColumns(Current, list)
    <3>1. ASSUME NEW r \in DOMAIN result
          PROVE  /\ ListedRow(list, result[r]) \in Seq(Values)
                 /\ \A i \in DOMAIN ListedRow(list, result[r]) :
                      \/ IsNull(ListedRow(list, result[r])[i])
                      \/ ListedRow(list, result[r])[i] \in V
      <4>1. Len(list) <= Len(result[r]) /\ result[r] \in Seq(Given)
        BY <1>1, <2>3
      <4> QED BY <1>4, <4>1, ListedValues
    <3>2. newRows \in [1..Len(result) -> Seq(Values)]
      BY <1>1, <3>1
    <3>3. /\ DOMAIN newRows = DOMAIN result
          /\ \A r \in DOMAIN result : newRows[r] = ListedRow(list, result[r])
      OBVIOUS
    <3> HIDE DEF newRows
    <3>4. newRows \in Seq(Seq(Values))
      <4> DEFINE n == Len(result)
                 S == Seq(Values)
      <4>1. newRows \in [1..n -> S] /\ n \in Nat
        BY <1>1, <3>2
      <4> HIDE DEF n, S
      <4>2. newRows \in Seq(S)
        BY <4>1
      <4> QED BY <4>2 DEF S
    <3>5. \A r \in DOMAIN newRows : \A i \in DOMAIN newRows[r] \cap DOMAIN Current.columns :
            IsNull(newRows[r][i]) \/ <<Current.columns[i].name, newRows[r][i]>> \in supplied
      <4>1. \A r \in DOMAIN newRows : \A i \in DOMAIN newRows[r] :
              IsNull(newRows[r][i]) \/ newRows[r][i] \in V
        BY <3>1, <3>3
      <4> QED BY <4>1, CurrentNames
    <3> HIDE DEF supplied
    <3>6. Grown(InsertAll(Current, newRows), Current, supplied)
      BY <1>3, <3>4, <3>5, InsertAllGrows
    <3>7. InsertSelected(list, result) = InsertAll(Current, newRows)
      BY <2>3 DEF InsertSelected, newRows
    <3> QED BY <3>6, <3>7
  <2> QED BY <2>1, <2>2, <2>3
<1> QED BY <1>5, <1>6, InsertedKeeps

(***************************************************************************)
(* The other statements add no rows.  DELETE leaves rows that were there,  *)
(* each at one place.                                                      *)
(***************************************************************************)
NothingNew == Len(rows') <= Len(rows)

\* DELETE keeps rows that were there, and none of them twice.
LEMMA DeleteKeeps ==
  ASSUME Inv, NEW removed, Delete(removed)
  PROVE  Inv' /\ NothingNew
<1> DEFINE places == DOMAIN rows \ removed
           at == InOrder(places)
<1>1. /\ rows' = AtPlaces(rows, places) /\ outcome' = "ok"
      /\ columns' = columns /\ primaryKey' = primaryKey /\ foreignKeys' = foreignKeys
      /\ counter' = counter /\ check' = check /\ parent' = parent
      /\ given' = given /\ copied' = copied /\ updated' = updated /\ orphaned' = orphaned
  BY DEF Delete, schema, history
<1>2. rows \in Seq(Seq(Values)) /\ Len(rows) \in Nat /\ DOMAIN rows = 1..Len(rows)
  BY StateFacts
<1>3. places \in SUBSET DOMAIN rows
  OBVIOUS
<1> HIDE DEF places, at
<1>4. /\ rows' \in Seq(Seq(Values)) /\ Len(rows') <= Len(rows)
      /\ \A r \in DOMAIN rows' : at[r] \in DOMAIN rows /\ rows'[r] = rows[at[r]]
      /\ \A r, q \in DOMAIN rows' : at[r] = at[q] => r = q
  <2> DEFINE S == Seq(Values)
             kept == AtPlaces(rows, places)
  <2>1. rows \in Seq(S) /\ places \in SUBSET DOMAIN rows
    BY <1>2, <1>3
  <2> HIDE DEF S
  <2>2. /\ kept \in Seq(S) /\ Len(kept) <= Len(rows)
        /\ \A r \in DOMAIN kept : at[r] \in DOMAIN rows /\ kept[r] = rows[at[r]]
        /\ \A r, q \in DOMAIN kept : at[r] = at[q] => r = q
    BY <2>1, AtPlacesFacts, Zenon DEF at
  <2> HIDE DEF kept
  <2>3. rows' = kept
    BY <1>1 DEF kept
  <2> QED BY <2>2, <2>3 DEF S
<1>5. Current' \in TableType
  BY <1>1, <1>4 DEF Inv, Current, Table, TableType
<1>6. TypeOK'
  BY <1>1, <1>4 DEF Inv, TypeOK, ColumnNames, Outcomes
<1>7. ColumnsAreLegal'
  <2>1. ASSUME NEW i \in DOMAIN columns, columns[i].name \notin updated,
               NEW r \in DOMAIN rows'
        PROVE  /\ IsNull(rows'[r][i]) \/ rows'[r][i].type = columns[i].type
               /\ columns[i].notNull \/ i \in Position(columns, primaryKey) => ~IsNull(rows'[r][i])
    <3>1. at[r] \in DOMAIN rows /\ rows'[r] = rows[at[r]]
      BY <1>4
    <3>2. \A q \in DOMAIN rows :
            /\ IsNull(rows[q][i]) \/ rows[q][i].type = columns[i].type
            /\ columns[i].notNull \/ i \in Position(columns, primaryKey) => ~IsNull(rows[q][i])
      BY <2>1 DEF Inv, ColumnsAreLegal
    <3> QED BY <3>1, <3>2
  <2>2. ASSUME NEW i \in DOMAIN columns, columns[i].name \notin updated,
               columns[i].unique \/ i \in Position(columns, primaryKey),
               NEW r \in DOMAIN rows', NEW q \in DOMAIN rows', rows'[r][i] = rows'[q][i]
        PROVE  r = q
    <3>1. at[r] \in DOMAIN rows /\ at[q] \in DOMAIN rows /\ rows[at[r]][i] = rows[at[q]][i]
      BY <1>4, <2>2
    <3>2. at[r] = at[q]
      BY <2>2, <3>1 DEF Inv, ColumnsAreLegal
    <3> QED BY <1>4, <3>2
  <2> QED BY <1>1, <2>1, <2>2 DEF ColumnsAreLegal
<1>8. OrphansLostTheirParent'
  <2>1. ASSUME NEW name \in foreignKeys \ updated, NEW i \in Position(columns, name),
               NEW r \in DOMAIN rows'
        PROVE  IsNull(rows'[r][i]) \/ HasParent(rows'[r][i]) \/ rows'[r][i] \in orphaned
    <3>1. at[r] \in DOMAIN rows /\ rows'[r] = rows[at[r]]
      BY <1>4
    <3>2. \A q \in DOMAIN rows :
            IsNull(rows[q][i]) \/ HasParent(rows[q][i]) \/ rows[q][i] \in orphaned
      BY <2>1 DEF Inv, OrphansLostTheirParent
    <3> QED BY <3>1, <3>2
  <2> QED BY <1>1, <2>1 DEF OrphansLostTheirParent, HasParent
<1>9. OnlyGivenOrCopiedCollide'
  <2>1. ASSUME NEW i \in DOMAIN columns, columns[i].autoIncrement,
               columns[i].name \notin updated, NEW r \in DOMAIN rows',
               rows'[r][i].v > counter[columns[i].name]
        PROVE  <<columns[i].name, rows'[r][i]>> \in given \cup copied
    <3>1. at[r] \in DOMAIN rows /\ rows'[r] = rows[at[r]]
      BY <1>4
    <3>2. \A q \in DOMAIN rows : rows[q][i].v > counter[columns[i].name]
            => <<columns[i].name, rows[q][i]>> \in given \cup copied
      BY <2>1 DEF Inv, OnlyGivenOrCopiedCollide
    <3> QED BY <2>1, <3>1, <3>2
  <2> QED BY <1>1, <2>1 DEF OnlyGivenOrCopiedCollide
<1> QED BY <1>4, <1>5, <1>6, <1>7, <1>8, <1>9 DEF Inv, NothingNew

\* UPDATE changes the columns that count as updated, and no others.
LEMMA UpdateKeeps ==
  ASSUME Inv, NEW assignments \in Seq(Assignments), Update(assignments)
  PROVE  Inv' /\ NothingNew
<1> DEFINE names == {a.column : a \in Range(assignments)}
           t == FoldLeft(Assign, Current, assignments)
<1>1. /\ rows' = t.rows /\ outcome' = t.outcome
      /\ updated' = updated \cup
           {a.column : a \in {b \in Range(assignments) : b.column \in Names /\ rows # <<>>}}
      /\ columns' = columns /\ primaryKey' = primaryKey /\ foreignKeys' = foreignKeys
      /\ counter' = counter /\ check' = check /\ parent' = parent
      /\ given' = given /\ copied' = copied /\ orphaned' = orphaned
  BY DEF Update, schema
<1>2. /\ Current \in TableType /\ Current.rows = rows /\ Current.columns = columns
      /\ Len(rows) \in Nat /\ DOMAIN rows = 1..Len(rows)
      /\ Len(columns) \in Nat /\ DOMAIN columns = 1..Len(columns)
      /\ \A i \in DOMAIN columns : columns[i].name \in Names
      /\ \A r \in DOMAIN rows : Len(rows[r]) = Len(columns)
  BY StateFacts DEF Inv, Current, Table
<1>3. Rewritten(Current, Current, names)
  BY <1>2 DEF Rewritten
<1>4. \A a \in DOMAIN assignments :
        assignments[a].column \in names /\ assignments[a].value \in Values
  <2>1. ASSUME NEW a \in DOMAIN assignments
        PROVE  assignments[a].column \in names /\ assignments[a].value \in Values
    <3>1. assignments[a] \in Assignments /\ assignments[a] \in Range(assignments)
      BY DEF Range
    <3>2. assignments[a].value \in Written
      BY <3>1 DEF Assignments
    <3> QED BY <3>1, <3>2, IntegrityAssumption
  <2> QED BY <2>1
<1>5. Rewritten(t, Current, names)
  <2> HIDE DEF names
  <2> QED BY <1>2, <1>3, <1>4, AssignmentsRewrite
<1> HIDE DEF t
<1>6. /\ t \in TableType /\ Len(t.rows) = Len(rows)
      /\ \A r \in 1..Len(rows) :
           /\ Len(t.rows[r]) = Len(rows[r])
           /\ \A i \in 1..Len(rows[r]) : columns[i].name \in names \/ t.rows[r][i] = rows[r][i]
  BY <1>2, <1>5 DEF Rewritten
<1>7. t.rows \in Seq(Seq(Values)) /\ t.outcome \in Outcomes /\ DOMAIN t.rows = 1..Len(rows)
  BY <1>2, <1>6 DEF TableType
<1>8. ASSUME NEW r \in DOMAIN rows', NEW i \in DOMAIN columns, columns[i].name \notin updated'
      PROVE  r \in DOMAIN rows /\ rows'[r][i] = rows[r][i] /\ columns[i].name \notin updated
  <2>1. r \in 1..Len(rows) /\ rows # <<>>
    BY <1>1, <1>2, <1>7
  <2>2. columns[i].name \notin names
    BY <1>1, <1>2, <1>8, <2>1
  <2> HIDE DEF names
  <2>3. i \in 1..Len(rows[r])
    BY <1>2, <2>1
  <2> QED BY <1>1, <1>2, <1>6, <1>8, <2>1, <2>2, <2>3
<1> HIDE DEF names
<1>9. Current' \in TableType
  BY <1>1, <1>7 DEF Inv, Current, Table, TableType
<1>10. TypeOK'
  <2>1. \A r \in DOMAIN rows' : Len(rows'[r]) = Len(columns')
    BY <1>1, <1>2, <1>6, <1>7
  <2> QED BY <1>1, <1>7, <2>1 DEF Inv, TypeOK, ColumnNames
<1>11. ColumnsAreLegal'
  <2>1. ASSUME NEW i \in DOMAIN columns, columns[i].name \notin updated',
               NEW r \in DOMAIN rows'
        PROVE  /\ IsNull(rows'[r][i]) \/ rows'[r][i].type = columns[i].type
               /\ columns[i].notNull \/ i \in Position(columns, primaryKey) => ~IsNull(rows'[r][i])
    BY <1>8, <2>1 DEF Inv, ColumnsAreLegal
  <2>2. ASSUME NEW i \in DOMAIN columns, columns[i].name \notin updated',
               columns[i].unique \/ i \in Position(columns, primaryKey),
               NEW r \in DOMAIN rows', NEW q \in DOMAIN rows', rows'[r][i] = rows'[q][i]
        PROVE  r = q
    <3>1. /\ r \in DOMAIN rows /\ q \in DOMAIN rows /\ rows[r][i] = rows[q][i]
          /\ columns[i].name \notin updated
      BY <1>8, <2>2
    <3> QED BY <2>2, <3>1 DEF Inv, ColumnsAreLegal
  <2> QED BY <1>1, <2>1, <2>2 DEF ColumnsAreLegal
<1>12. OrphansLostTheirParent'
  <2>1. ASSUME NEW name \in foreignKeys \ updated', NEW i \in Position(columns, name),
               NEW r \in DOMAIN rows'
        PROVE  IsNull(rows'[r][i]) \/ HasParent(rows'[r][i]) \/ rows'[r][i] \in orphaned
    <3>1. /\ r \in DOMAIN rows /\ rows'[r][i] = rows[r][i]
          /\ name \in foreignKeys \ updated
      <4>1. i \in DOMAIN columns /\ columns[i].name = name
        BY DEF Position
      <4> QED BY <1>8, <2>1, <4>1
    <3> QED BY <2>1, <3>1 DEF Inv, OrphansLostTheirParent
  <2> QED BY <1>1, <2>1 DEF OrphansLostTheirParent, HasParent
<1>13. OnlyGivenOrCopiedCollide'
  <2>1. ASSUME NEW i \in DOMAIN columns, columns[i].autoIncrement,
               columns[i].name \notin updated', NEW r \in DOMAIN rows',
               rows'[r][i].v > counter[columns[i].name]
        PROVE  <<columns[i].name, rows'[r][i]>> \in given \cup copied
    BY <1>8, <2>1 DEF Inv, OnlyGivenOrCopiedCollide
  <2> QED BY <1>1, <2>1 DEF OnlyGivenOrCopiedCollide
<1>14. NothingNew
  BY <1>1, <1>2, <1>6 DEF NothingNew
<1> QED BY <1>9, <1>10, <1>11, <1>12, <1>13, <1>14 DEF Inv

\* TRUNCATE leaves no rows.
LEMMA TruncateKeeps ==
  ASSUME Inv, TruncateTable
  PROVE  Inv' /\ NothingNew
<1>1. /\ columns' = columns /\ check' = check /\ parent' = parent
      /\ primaryKey' = NoKey /\ foreignKeys' = {} /\ counter' = NoCounter
      /\ rows' = <<>> /\ outcome' = "ok"
  BY DEF TruncateTable
<1>2. NoCounter \in [Names -> 0..MaxCounter] /\ NoCounter \in [Names -> Nat]
  BY IntegrityAssumption DEF NoCounter
<1>3. DOMAIN rows' = {} /\ rows' \in Seq(Seq(Values)) /\ Len(rows') = 0
  BY <1>1
<1>4. Current' \in TableType
  BY <1>1, <1>2, <1>3 DEF Inv, Current, Table, TableType
<1>5. TypeOK'
  BY <1>1, <1>2, <1>3 DEF Inv, TypeOK, ColumnNames, Outcomes
<1>6. ColumnsAreLegal' /\ OrphansLostTheirParent' /\ OnlyGivenOrCopiedCollide'
  BY <1>3 DEF ColumnsAreLegal, OrphansLostTheirParent, OnlyGivenOrCopiedCollide
<1>7. NothingNew
  BY <1>3, StateFacts DEF NothingNew
<1> QED BY <1>4, <1>5, <1>6, <1>7 DEF Inv

\* A row whose parent goes is counted as an orphan.
LEMMA ParentKeeps ==
  ASSUME Inv, NEW value \in ParentKeys, ParentInsert(value) \/ ParentDelete(value)
  PROVE  Inv' /\ NothingNew
<1>1. /\ columns' = columns /\ primaryKey' = primaryKey /\ foreignKeys' = foreignKeys
      /\ counter' = counter /\ check' = check /\ rows' = rows
      /\ given' = given /\ copied' = copied /\ updated' = updated /\ outcome' = "ok"
      /\ parent \ {value} \subseteq parent' /\ parent' \subseteq parent \cup {value}
      /\ orphaned \subseteq orphaned' /\ (value \in orphaned' \/ parent \subseteq parent')
  BY DEF ParentInsert, ParentDelete, schema, history
<1>2. Current' \in TableType
  BY <1>1 DEF Inv, Current, Table
<1>3. TypeOK'
  BY <1>1 DEF Inv, TypeOK, ColumnNames, Outcomes
<1>4. ColumnsAreLegal' /\ OnlyGivenOrCopiedCollide'
  BY <1>1 DEF Inv, ColumnsAreLegal, OnlyGivenOrCopiedCollide
<1>5. ASSUME NEW v \in Values, HasParent(v)
      PROVE  v \in orphaned' \/ \E p \in parent' : p.type = v.type /\ Equal(p, v) = Yes
  <2>1. PICK p \in parent : p.type = v.type /\ Equal(p, v) = Yes
    BY <1>5 DEF HasParent
  <2>2. p = v
    <3>1. p \in Values
      BY IntegrityAssumption DEF Inv, TypeOK
    <3> QED BY <2>1, <3>1, EqualIsSame
  <2> QED BY <1>1, <2>1, <2>2
<1>6. OrphansLostTheirParent'
  <2>1. ASSUME NEW name \in foreignKeys \ updated, NEW i \in Position(columns, name),
               NEW r \in DOMAIN rows
        PROVE  \/ IsNull(rows[r][i]) \/ rows[r][i] \in orphaned'
               \/ \E p \in parent' : p.type = rows[r][i].type /\ Equal(p, rows[r][i]) = Yes
    <3>1. rows[r][i] \in Values
      BY StateFacts DEF Position
    <3>2. IsNull(rows[r][i]) \/ HasParent(rows[r][i]) \/ rows[r][i] \in orphaned
      BY <2>1 DEF Inv, OrphansLostTheirParent
    <3> QED BY <1>1, <1>5, <3>1, <3>2
  <2> QED BY <1>1, <2>1 DEF OrphansLostTheirParent, HasParent
<1>7. NothingNew
  BY <1>1, StateFacts DEF NothingNew
<1> QED BY <1>2, <1>3, <1>4, <1>6, <1>7 DEF Inv

(***************************************************************************)
(* ALTER TABLE: the columns, then the rows, which are inserted anew.       *)
(***************************************************************************)
ChangesColumns(stmt) ==
  /\ stmt.alter \subseteq Definitions
  /\ stmt.add = {} \/ \E d \in Definitions : stmt.add = {d}

\* The columns after ADD, ALTER and DROP are columns again.
LEMMA AlteredColumns ==
  ASSUME NEW cols \in Seq(Columns), NEW stmt, ChangesColumns(stmt)
  PROVE  AlterColumns(cols, stmt) \in Seq(Columns)
<1> DEFINE chosen(i) == CHOOSE d \in stmt.alter : d.name = cols[i].name
           altered == [i \in DOMAIN cols |->
                         IF \E d \in stmt.alter : d.name = cols[i].name
                         THEN chosen(i) ELSE cols[i]]
           new == SetToSeq(stmt.add)
           added == altered \o new
           kept == {i \in DOMAIN added : added[i].name \notin stmt.drop}
<1>1. Definitions \subseteq Columns
  BY IntegrityAssumption
<1>2. altered \in Seq(Columns)
  <2>1. /\ DOMAIN cols = 1..Len(cols) /\ Len(cols) \in Nat
        /\ \A i \in DOMAIN cols : cols[i] \in Columns
    OBVIOUS
  <2>2. ASSUME NEW i \in DOMAIN cols, \E d \in stmt.alter : d.name = cols[i].name
        PROVE  chosen(i) \in Columns
    <3>1. chosen(i) \in stmt.alter
      BY <2>2, Zenon
    <3> QED BY <1>1, <3>1 DEF ChangesColumns
  <2> HIDE DEF chosen
  <2>3. altered \in [1..Len(cols) -> Columns]
    BY <2>1, <2>2
  <2> DEFINE n == Len(cols)
  <2>4. altered \in [1..n -> Columns] /\ n \in Nat
    BY <2>1, <2>3
  <2> HIDE DEF altered, n
  <2> QED BY <2>4
<1>3. new \in Seq(Columns)
  <2>1. ASSUME NEW n \in Nat, Cardinality(stmt.add) = n,
               NEW f \in [1..n -> stmt.add], IsInjective(f)
        PROVE  new \in Seq(Columns)
    <3>1. new \in [1..n -> stmt.add]
      BY <2>1, Zenon DEF SetToSeq
    <3>2. stmt.add \subseteq Columns
      BY <1>1 DEF ChangesColumns
    <3> HIDE DEF new
    <3>3. new \in [1..n -> Columns]
      BY <3>1, <3>2
    <3> QED BY <3>3
  <2>2. CASE stmt.add = {}
    <3> DEFINE f == [i \in 1..0 |-> i]
    <3>1. Cardinality(stmt.add) = 0
      BY <2>2, FS_EmptySet
    <3>2. f \in [1..0 -> stmt.add]
      OBVIOUS
    <3>3. IsInjective(f)
      BY DEF IsInjective
    <3> HIDE DEF new, f
    <3>4. 0 \in Nat
      OBVIOUS
    <3> QED BY <2>1, <3>1, <3>2, <3>3, <3>4
  <2>3. ASSUME NEW d \in Definitions, stmt.add = {d} PROVE new \in Seq(Columns)
    <3> DEFINE f == [i \in 1..1 |-> d]
    <3>1. Cardinality(stmt.add) = 1
      BY <2>3, FS_Singleton
    <3>2. f \in [1..1 -> stmt.add]
      BY <2>3
    <3>3. IsInjective(f)
      <4>1. \A a, b \in 1..1 : a = b
        OBVIOUS
      <4> QED BY <4>1 DEF IsInjective
    <3> HIDE DEF new, f
    <3>4. 1 \in Nat
      OBVIOUS
    <3> QED BY <2>1, <3>1, <3>2, <3>3, <3>4
  <2> QED BY <2>2, <2>3 DEF ChangesColumns
<1> HIDE DEF altered, new
<1>4. added \in Seq(Columns)
  BY <1>2, <1>3
<1>5. AlterColumns(cols, stmt) = AtPlaces(added, kept)
  BY DEF AlterColumns, altered, new
<1> HIDE DEF added
<1>6. kept \in SUBSET DOMAIN added
  OBVIOUS
<1> HIDE DEF kept
<1> QED BY <1>4, <1>5, <1>6, AtPlacesFacts

\* What stands in the columns of a name when ALTER TABLE copies the rows.
OldValues == {<<columns[i].name, rows[r][i]>> : r \in DOMAIN rows, i \in DOMAIN columns}

\* The new table has the rows of the old one, as far as they pass its checks.
LEMMA RestructuredGrows ==
  ASSUME Inv, NEW cols \in Seq(Columns),
         NEW empty, empty = Table(cols, NoKey, {}, NoCounter, check, <<>>)
  PROVE  /\ empty \in TableType
         /\ Grown(Restructured(Current, cols), empty, OldValues)
<1> DEFINE named(row) == [i \in DOMAIN row |-> <<columns[i].name, row[i]>>]
           known(row) == {i \in DOMAIN row : Position(cols, columns[i].name) # {}}
           copy(row) == TupleFromValues(empty, AtPlaces(named(row), known(row)))
           newRows == [r \in DOMAIN rows |-> copy(rows[r])]
<1>1. /\ rows \in Seq(Seq(Values)) /\ Len(rows) \in Nat /\ DOMAIN rows = 1..Len(rows)
      /\ check \in Checks /\ \A i \in DOMAIN columns : columns[i].name \in Names
      /\ \A r \in DOMAIN rows :
           /\ rows[r] \in Seq(Values) /\ DOMAIN rows[r] = DOMAIN columns
           /\ \A i \in DOMAIN columns : rows[r][i] \in Values
      /\ Len(columns) \in Nat /\ DOMAIN columns = 1..Len(columns)
  BY StateFacts
<1>2. /\ empty.columns = cols /\ empty.rows = <<>> /\ empty.counter = NoCounter
      /\ empty \in TableType
  BY <1>1 DEF Table, TableType, NoCounter, Outcomes
<1>3. Grown(empty, empty, OldValues)
  <2>1. \A n \in Names : empty.counter[n] <= empty.counter[n]
    BY <1>2 DEF NoCounter
  <2>2. DOMAIN empty.rows = {} /\ Len(empty.rows) <= Len(empty.rows)
    BY <1>2
  <2> QED BY <1>2, <2>1, <2>2 DEF Grown, SameSchema
<1>4. ASSUME NEW r \in DOMAIN rows
      PROVE  /\ copy(rows[r]) \in Seq(Values)
             /\ \A i \in DOMAIN copy(rows[r]) :
                  \/ IsNull(copy(rows[r])[i])
                  \/ <<cols[i].name, copy(rows[r])[i]>> \in OldValues
  <2> DEFINE pairs == named(rows[r])
             places == known(rows[r])
             listed == AtPlaces(pairs, places)
             w == copy(rows[r])
             n == Len(columns)
             P == Names \X Values
  <2>1. pairs \in [1..n -> P] /\ n \in Nat
    BY <1>1
  <2>2. places \in SUBSET DOMAIN pairs
    OBVIOUS
  <2>3. \A i \in DOMAIN pairs : pairs[i] \in OldValues
    <3>1. DOMAIN pairs = DOMAIN columns
      BY <1>1
    <3>2. \A i \in DOMAIN columns : pairs[i] = <<columns[i].name, rows[r][i]>>
      BY <1>1
    <3>3. \A i \in DOMAIN columns : <<columns[i].name, rows[r][i]>> \in OldValues
      BY DEF OldValues
    <3> HIDE DEF pairs
    <3> QED BY <3>1, <3>2, <3>3
  <2>4. w = TupleFromValues(empty, listed)
    OBVIOUS
  <2> HIDE DEF pairs, places, n, w
  <2>5. pairs \in Seq(P)
    <3> HIDE DEF P
    <3> QED BY <2>1
  <2>6. listed \in Seq(P) /\ \A i \in DOMAIN listed : \E j \in DOMAIN pairs : listed[i] = pairs[j]
    <3> HIDE DEF P
    <3> QED BY <2>2, <2>5, AtPlacesFacts
  <2> HIDE DEF listed
  <2>7. /\ w \in Seq(Values \cup {Null})
        /\ \A i \in DOMAIN w :
             w[i] = Null \/ \E p \in DOMAIN listed : listed[p] = <<cols[i].name, w[i]>>
    <3>1. listed \in Seq(Names \X Values) /\ empty.columns \in Seq(Columns)
      BY <1>2, <2>6
    <3>2. TupleFromValues(empty, listed) \in Seq(Values \cup {Null})
      BY <3>1, TupleFromValuesFacts
    <3>3. NamedBy(listed, empty, TupleFromValues(empty, listed))
      BY <3>1, TupleFromValuesFacts
    <3>4. NamedBy(listed, empty, w)
      BY <2>4, <3>3
    <3> QED BY <1>2, <2>4, <3>2, <3>4 DEF NamedBy
  <2>8. Values \cup {Null} = Values /\ IsNull(Null)
    BY DEF Values, Null, IsNull
  <2>9. \A i \in DOMAIN w : IsNull(w[i]) \/ <<cols[i].name, w[i]>> \in OldValues
    <3> SUFFICES ASSUME NEW i \in DOMAIN w, ~IsNull(w[i])
                 PROVE  <<cols[i].name, w[i]>> \in OldValues
      OBVIOUS
    <3>0. w[i] # Null
      BY <2>8
    <3>1. PICK p \in DOMAIN listed : listed[p] = <<cols[i].name, w[i]>>
      BY <3>0, <2>7
    <3>2. PICK j \in DOMAIN pairs : listed[p] = pairs[j]
      BY <2>6
    <3>3. pairs[j] = <<cols[i].name, w[i]>>
      BY <3>1, <3>2
    <3> QED BY <3>3, <2>3
  <2>10. w \in Seq(Values)
    BY <2>7, <2>8
  <2> QED BY <2>9, <2>10 DEF w
<1>5. newRows \in Seq(Seq(Values))
  <2> DEFINE n == Len(rows)
             S == Seq(Values)
  <2> HIDE DEF copy
  <2>1. newRows \in [1..n -> S] /\ n \in Nat
    BY <1>1, <1>4
  <2> HIDE DEF n, S, newRows
  <2>2. newRows \in Seq(S)
    BY <2>1
  <2> QED BY <2>2 DEF S
<1>6. Restructured(Current, cols) = InsertAll(empty, newRows)
  BY DEF Restructured, KeyOfNewTable, Current, Table
<1>7. \A r \in DOMAIN newRows : \A i \in DOMAIN newRows[r] \cap DOMAIN empty.columns :
        IsNull(newRows[r][i]) \/ <<empty.columns[i].name, newRows[r][i]>> \in OldValues
  <2> HIDE DEF copy
  <2> QED BY <1>2, <1>4
<1> HIDE DEF newRows
<1>8. Grown(InsertAll(empty, newRows), empty, OldValues)
  BY <1>2, <1>3, <1>5, <1>7, InsertAllGrows
<1> QED BY <1>2, <1>6, <1>8

\* ALTER TABLE.
LEMMA AlterKeeps ==
  ASSUME Inv, NEW stmt, ChangesColumns(stmt), NEW changes \in Seq(Changes),
         AlterTable(stmt, changes)
  PROVE  Inv' /\ (columns' = columns => NewRowsPass)
<1> DEFINE cols == AlterColumns(columns, stmt)
           empty == Table(cols, NoKey, {}, NoCounter, check, <<>>)
           u == Restructured(Current, cols)
           t == FoldLeft(CheckChange, u, changes)
<1>1. cols \in Seq(Columns)
  BY StateFacts, AlteredColumns
<1>2. /\ columns' = t.columns /\ primaryKey' = t.key /\ foreignKeys' = {}
      /\ counter' = t.counter /\ check' = t.check
      /\ rows' = t.rows /\ outcome' = t.outcome /\ parent' = parent
      /\ copied' = Copied(t) /\ updated' = {}
      /\ \A n \in Names : t.counter[n] <= MaxCounter
  BY DEF AlterTable, Fits
<1> HIDE DEF cols
<1>3. empty \in TableType /\ Grown(u, empty, OldValues)
  BY <1>1, RestructuredGrows
<1>4. empty.rows = <<>> /\ empty.columns = cols /\ empty.key = NoKey /\ empty.check = check
  BY DEF Table
<1> HIDE DEF u, empty
<1>5. Rechecked(t, u)
  <2>1. u \in TableType /\ Rechecked(u, u)
    BY <1>3 DEF Grown, Rechecked
  <2> QED BY <2>1, ChangesRecheck
<1> HIDE DEF t
<1>6. /\ t \in TableType /\ t.columns = cols /\ t.key = NoKey /\ t.rows = u.rows
      /\ t.counter = u.counter
      /\ u.columns = cols /\ u.key = NoKey /\ u.check = check
  BY <1>3, <1>4, <1>5 DEF Rechecked, Grown, SameSchema
<1>7. /\ t.rows \in Seq(Seq(Values)) /\ Len(t.rows) \in Nat /\ DOMAIN t.rows = 1..Len(t.rows)
      /\ t.counter \in [Names -> Nat] /\ t.outcome \in Outcomes /\ t.check \in Checks
      /\ Len(cols) \in Nat /\ DOMAIN cols = 1..Len(cols)
      /\ \A i \in DOMAIN cols : cols[i].name \in Names /\ cols[i].name # NoKey
  BY <1>1, <1>6, ColumnFacts DEF TableType
<1>8. \A r \in DOMAIN t.rows : RowFits(u, t.rows[r], OldValues) /\ Distinguished(u, r)
  <2>1. \A r \in 1..Len(t.rows) : r > 0
    BY <1>7
  <2>2. Len(empty.rows) = 0
    BY <1>4
  <2> QED BY <1>3, <1>6, <1>7, <2>1, <2>2 DEF Grown
<1>9. Current' \in TableType
  BY <1>1, <1>2, <1>6, <1>7 DEF Current, Table, TableType, Outcomes
<1>10. TypeOK'
  <2>1. \A n \in Names : t.counter[n] \in 0..MaxCounter
    BY <1>2, <1>7, IntegrityAssumption
  <2>2. counter' \in [Names -> 0..MaxCounter]
    BY <1>2, <1>7, <2>1
  <2>3. \A r \in DOMAIN rows' : Len(rows'[r]) = Len(columns')
    BY <1>2, <1>6, <1>8 DEF RowFits
  <2> QED BY <1>2, <1>6, <1>7, <2>2, <2>3 DEF Inv, TypeOK, ColumnNames
<1>11. ColumnsAreLegal'
  <2>1. ASSUME NEW i \in DOMAIN cols, NEW r \in DOMAIN t.rows
        PROVE  /\ IsNull(t.rows[r][i]) \/ t.rows[r][i].type = cols[i].type
               /\ cols[i].notNull \/ i \in Position(cols, NoKey) => ~IsNull(t.rows[r][i])
    BY <1>6, <1>8 DEF RowFits
  <2>2. ASSUME NEW i \in DOMAIN cols, cols[i].unique \/ i \in Position(cols, NoKey),
               NEW r \in DOMAIN t.rows, NEW q \in DOMAIN t.rows, q < r
        PROVE  t.rows[q][i] # t.rows[r][i]
    <3>1. q \in 1..(r - 1) /\ Distinguished(u, r)
      BY <1>7, <1>8, <2>2
    <3> QED BY <1>6, <2>2, <3>1 DEF Distinguished
  <2>3. \A r, q \in DOMAIN t.rows : r < q \/ q < r \/ r = q
    BY <1>7
  <2> QED BY <1>2, <1>6, <2>1, <2>2, <2>3 DEF ColumnsAreLegal
<1>12. OrphansLostTheirParent'
  BY <1>2 DEF OrphansLostTheirParent
<1>13. OnlyGivenOrCopiedCollide'
  <2>1. ASSUME NEW i \in DOMAIN cols, cols[i].autoIncrement, NEW r \in DOMAIN t.rows,
               t.rows[r][i].v > t.counter[cols[i].name]
        PROVE  <<cols[i].name, t.rows[r][i]>> \in given' \cup copied'
    <3>1. <<cols[i].name, t.rows[r][i]>> \in OldValues
      BY <1>6, <1>8, <2>1 DEF RowFits
    <3>2. PICK q \in DOMAIN rows, j \in DOMAIN columns :
            <<cols[i].name, t.rows[r][i]>> = <<columns[j].name, rows[q][j]>>
      BY <3>1 DEF OldValues
    <3>3. cols[i] \in {d \in Range(t.columns) : d.autoIncrement}
      BY <1>6, <2>1 DEF Range
    <3> QED BY <1>2, <3>2, <3>3 DEF Copied
  <2> QED BY <1>2, <1>6, <2>1 DEF OnlyGivenOrCopiedCollide
<1>14. ASSUME columns' = columns PROVE NewRowsPass
  <2>1. \A rule, w : Passes(u, rule, w) = Passes(Current, rule, w)
    BY <1>2, <1>6, <1>14 DEF Passes, Current, Table
  <2>2. ASSUME NEW r \in DOMAIN rows', NEW rule \in {check.main, check.constraint}
        PROVE  Passes(Current, rule, rows'[r])
    BY <1>2, <1>6, <1>8, <2>1, <2>2 DEF RowFits
  <2> QED BY <2>2 DEF NewRowsPass
<1> QED BY <1>9, <1>10, <1>11, <1>12, <1>13, <1>14 DEF Inv

-----------------------------------------------------------------------------
(***************************************************************************)
(* The invariant holds at first and after every statement.                 *)
(***************************************************************************)
LEMMA InitInv == Init => Inv
<1> SUFFICES ASSUME Init PROVE Inv
  OBVIOUS
<1>1. PICK setup \in Setups :
        /\ columns = setup.columns /\ primaryKey = setup.key
        /\ foreignKeys = setup.foreignKeys
        /\ check = [main |-> setup.check, constraint |-> NoRule]
        /\ counter = NoCounter /\ rows = <<>> /\ parent = {} /\ outcome = "ok"
  BY DEF Init
<1>2. columns \in Seq(Columns)
  BY <1>1, IntegrityAssumption
<1>3. NamesOf(ColumnsOf(setup)) = ColumnNames
  BY <1>1 DEF NamesOf, ColumnsOf, ColumnNames, Range
<1>4. primaryKey \in ColumnNames \cup {NoKey} /\ foreignKeys \subseteq ColumnNames
  BY <1>1, <1>3, IntegrityAssumption
<1>5. ColumnNames \subseteq Names
  BY <1>2, ColumnFacts DEF ColumnNames
<1>6. check \in Checks
  BY <1>1 DEF Checks, RulesThereAre
<1>7. NoCounter \in [Names -> 0..MaxCounter] /\ NoCounter \in [Names -> Nat]
  BY IntegrityAssumption DEF NoCounter
<1>8. rows \in Seq(Seq(Values)) /\ DOMAIN rows = {}
  BY <1>1
<1>9. Current \in TableType
  BY <1>1, <1>2, <1>4, <1>5, <1>6, <1>7, <1>8 DEF Current, Table, TableType, Outcomes
<1>10. TypeOK
  BY <1>1, <1>4, <1>7, <1>8 DEF TypeOK, Outcomes
<1>11. ColumnsAreLegal /\ OrphansLostTheirParent /\ OnlyGivenOrCopiedCollide
  BY <1>8 DEF ColumnsAreLegal, OrphansLostTheirParent, OnlyGivenOrCopiedCollide
<1> QED BY <1>9, <1>10, <1>11 DEF Inv

\* What the inputs of the statements are.
LEMMA ListedColumns ==
  ASSUME Inv, NEW list \in ColumnLists
  PROVE  list \in Seq(Names \cup {Missing})
<1>1. \A i \in DOMAIN columns : columns[i].name \in Names
  BY StateFacts
<1>2. \A i \in 2..Len(columns) : i \in DOMAIN columns /\ 1 \in DOMAIN columns
  BY StateFacts
<1> DEFINE N == Names \cup {Missing}
<1>3. \A x \in N : <<x>> \in Seq(N) /\ \A y \in N : <<x, y>> \in Seq(N)
  <2> HIDE DEF N
  <2> QED OBVIOUS
<1>4. CASE list = <<Missing>>
  BY <1>3, <1>4
<1>5. ASSUME NEW i \in DOMAIN columns, list = <<columns[i].name>>
      PROVE  list \in Seq(N)
  <2>1. columns[i].name \in N
    BY <1>1
  <2> HIDE DEF N
  <2> QED BY <1>3, <1>5, <2>1
<1>6. ASSUME NEW i \in 2..Len(columns), list = <<columns[i].name, columns[1].name>>
      PROVE  list \in Seq(N)
  <2>1. columns[i].name \in N /\ columns[1].name \in N
    BY <1>1, <1>2
  <2> HIDE DEF N
  <2> QED BY <1>3, <1>6, <2>1
<1> HIDE DEF N
<1>7. list \in Seq(N)
  BY <1>4, <1>5, <1>6 DEF ColumnLists, N
<1> QED BY <1>7 DEF N

\* The rows of a result.
LEMMA ResultRows ==
  ASSUME NEW result \in Results
  PROVE  /\ result \in Seq(Seq(Given)) /\ result # <<>>
         /\ \A r \in DOMAIN result : Len(result[r]) = Len(result[1])
<1>1. \A n \in Nat : \A row \in RowsOf(n) : row \in Seq(Given) /\ Len(row) = n
  BY DEF RowsOf
<1>2. CASE result \in {<<row>> : row \in RowsOf(2)}
  <2>1. PICK row \in RowsOf(2) : result = <<row>>
    BY <1>2
  <2>2. row \in Seq(Given)
    BY <1>1
  <2> QED BY <2>1, <2>2
<1>3. CASE result \in [1..2 -> RowsOf(1)]
  <2>1. \A r \in 1..2 : result[r] \in Seq(Given) /\ Len(result[r]) = 1
    BY <1>1, <1>3
  <2>2. DOMAIN result = 1..2 /\ 1 \in 1..2
    BY <1>3
  <2> DEFINE S == Seq(Given)
  <2>3. result \in [1..2 -> S]
    BY <1>3, <2>1, <2>2
  <2> DEFINE n == 2
  <2> HIDE DEF S
  <2>4. result \in Seq(S) /\ Len(result) = n
    <3>1. n \in Nat /\ result \in [1..n -> S]
      BY <2>3
    <3> HIDE DEF n
    <3> QED BY <3>1
  <2>5. result # <<>>
    BY <2>4
  <2> QED BY <2>1, <2>2, <2>4, <2>5 DEF S
<1> QED BY <1>2, <1>3 DEF Results

\* Every statement keeps the invariant, and adds only rows that pass the rules.
LEMMA InvStep ==
  ASSUME Inv, [Next]_vars
  PROVE  Inv' /\ (columns' = columns => NewRowsPass)
<1>1. ASSUME NothingNew PROVE NewRowsPass
  <2>1. Len(rows') <= Len(rows)
    BY <1>1 DEF NothingNew
  <2> QED BY <2>1 DEF NewRowsPass
<1>2. ASSUME NEW n \in 1..(Len(columns) + 1), NEW row \in RowsOf(n), Insert(row)
      PROVE  Inv' /\ NewRowsPass
  <2>1. n \in Nat
    BY StateFacts
  <2> QED BY <1>2, <2>1, InsertKeeps
<1>3. ASSUME NEW first \in RowsOf(Len(columns)), NEW second \in RowsOf(Len(columns)),
             Import(<<first, second>>)
      PROVE  Inv' /\ NewRowsPass
  BY <1>3, StateFacts, ImportKeeps
<1>4. ASSUME NEW list \in ColumnLists, NEW result \in Results, InsertSelect(list, result)
      PROVE  Inv' /\ NewRowsPass
  BY <1>4, ListedColumns, ResultRows, InsertSelectKeeps
<1>4a. ASSUME NEW list \in ColumnLists, NEW n \in 1..2, NEW values \in RowsOf(n),
              InsertListed(list, values)
       PROVE  Inv' /\ NewRowsPass
  BY <1>4a, ListedColumns, InsertListedKeeps
<1>5. ASSUME NEW removed \in SUBSET DOMAIN rows, Delete(removed)
      PROVE  Inv' /\ NewRowsPass
  BY <1>1, <1>5, DeleteKeeps
<1>6. ASSUME UNCHANGED <<schema, counter, check, rows, parent, history>>,
             outcome' \in Outcomes
      PROVE  Inv' /\ NewRowsPass
  <2>1. /\ columns' = columns /\ primaryKey' = primaryKey /\ foreignKeys' = foreignKeys
        /\ counter' = counter /\ check' = check /\ rows' = rows /\ parent' = parent
        /\ given' = given /\ copied' = copied /\ updated' = updated /\ orphaned' = orphaned
    BY <1>6 DEF schema, history
  <2>2. Inv'
    BY <1>6, <2>1 DEF Inv, Current, Table, TypeOK, ColumnNames, ColumnsAreLegal,
       OrphansLostTheirParent, HasParent, OnlyGivenOrCopiedCollide
  <2>3. NothingNew
    BY <2>1, StateFacts DEF NothingNew
  <2> QED BY <1>1, <2>2, <2>3
<1>7. ASSUME DeleteFails PROVE Inv' /\ NewRowsPass
  BY <1>6, <1>7 DEF DeleteFails, Outcomes
<1>8. ASSUME NEW a \in Assignments, Update(<<a>>) PROVE Inv' /\ NewRowsPass
  <2>1. <<a>> \in Seq(Assignments)
    OBVIOUS
  <2> QED BY <1>1, <1>8, <2>1, UpdateKeeps
<1>9. ASSUME NEW a \in Assignments, NEW b \in Assignments, Update(<<a, b>>)
      PROVE  Inv' /\ NewRowsPass
  <2>1. <<a, b>> \in Seq(Assignments)
    OBVIOUS
  <2> QED BY <1>1, <1>9, <2>1, UpdateKeeps
<1>10. ASSUME NEW stmt \in ColumnChanges, AlterTable(stmt, <<>>)
       PROVE  Inv' /\ (columns' = columns => NewRowsPass)
  <2>1. ChangesColumns(stmt)
    BY IntegrityAssumption DEF ColumnChanges, ColumnChange, ChangesColumns
  <2>2. <<>> \in Seq(Changes)
    OBVIOUS
  <2> QED BY <1>10, <2>1, <2>2, AlterKeeps
<1>11. ASSUME NEW c \in CheckChanges, AlterTable(NoColumnChange, <<c>>)
       PROVE  Inv' /\ (columns' = columns => NewRowsPass)
  <2>1. ChangesColumns(NoColumnChange)
    BY DEF NoColumnChange, ColumnChange, ChangesColumns
  <2>2. c \in Changes
    BY DEF CheckChanges, Changes, RulesThereAre
  <2>3. <<c>> \in Seq(Changes)
    BY <2>2
  <2> QED BY <1>11, <2>1, <2>3, AlterKeeps
<1>12. ASSUME TruncateTable PROVE Inv' /\ NewRowsPass
  BY <1>1, <1>12, TruncateKeeps
<1>13. ASSUME NEW v \in ParentKeys, ParentInsert(v) \/ ParentDelete(v)
       PROVE  Inv' /\ NewRowsPass
  BY <1>1, <1>13, ParentKeeps
<1>14. CASE UNCHANGED vars
  <2>1. UNCHANGED <<schema, counter, check, rows, parent, history>> /\ outcome' = outcome
    BY <1>14 DEF vars
  <2> QED BY <1>6, <2>1 DEF Inv, TypeOK
<1>15. CASE Next
  BY <1>2, <1>3, <1>4, <1>5, <1>7, <1>8, <1>9, <1>10, <1>11, <1>12, <1>13, <1>15, <1>4a
  DEF Next
<1> QED BY <1>14, <1>15

\* The invariant holds in every state.
LEMMA InvAlways == Spec => []Inv
<1>1. Inv /\ [Next]_vars => Inv'
  BY InvStep
<1> QED BY <1>1, InitInv, PTL DEF Spec

(***************************************************************************)
(* For all tables, also with columns of one name, and all values, foreign  *)
(* keys and rules: whatever statements run and wherever they stop, a row   *)
(* is as wide as the table, and in a column whose name no UPDATE wrote     *)
(* every value has the column's type, is NULL only where it may be, occurs *)
(* once where the column is UNIQUE or the first with the key's name, and   *)
(* refers, in the first column with a foreign key's name, to a value that  *)
(* the parent table has or that was removed there (Table.cpp:25-118).      *)
(***************************************************************************)
THEOREM RowsStayLegal == Spec => []RowsAreLegal
<1>1. Inv => RowsAreLegal
  BY DEF Inv, RowsAreLegal
<1> QED BY <1>1, InvAlways, PTL

(***************************************************************************)
(* A value that the counter of an AUTO_INCREMENT column will generate a    *)
(* second time was supplied since the last ALTER or TRUNCATE, or was there *)
(* when the last ALTER copied the rows and began to count anew: nothing    *)
(* else makes generated values collide (Table.cpp:127-150, Database.cpp:99 *)
(* and Table.hpp:93).                                                      *)
(***************************************************************************)
THEOREM CollisionsAreExplained == Spec => []OnlyGivenOrCopiedCollide
<1>1. Inv => OnlyGivenOrCopiedCollide
  BY DEF Inv
<1> QED BY <1>1, InvAlways, PTL

(***************************************************************************)
(* A statement that leaves the columns as they are adds only rows that     *)
(* pass the main rule and the constraint of the table, INSERT of many rows *)
(* and ALTER TABLE, which copies the old rows, included (Table.cpp:172-212 *)
(* and Database::restructure_table).                                       *)
(***************************************************************************)
THEOREM InsertedRowsPass == Spec => NewRowsPassChecks
<1>1. Inv /\ [Next]_vars =>
        [UNCHANGED columns =>
           \A r \in DOMAIN rows' : r > Len(rows) =>
             \A rule \in {check.main, check.constraint} :
               Passes(Current, rule, rows'[r])]_vars
  BY InvStep DEF NewRowsPass
<1> QED BY <1>1, InvAlways, PTL DEF Spec, NewRowsPassChecks
=============================================================================
