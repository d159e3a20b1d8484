--------------------------- MODULE TableIntegrity ---------------------------
(***************************************************************************)
(* What keeps the rows of a table legal: Table::insert and the checks it   *)
(* makes (db/core/Table.cpp), the statements that insert, update, delete   *)
(* and alter (db/sql/ast/Statement.cpp, db/sql/ast/Select.cpp), and the    *)
(* CHECK rules (db/sql/ast/Expression.cpp), for one table in memory, whose *)
(* foreign keys refer to the one column of a second table.                 *)
(*                                                                         *)
(* One action is one statement; a statement that stops at an error leaves  *)
(* what it did before.  Conditions and expressions are abstracted: which   *)
(* rows a WHERE selects and where an expression fails is chosen freely.    *)
(* What happens to the renamed old table when ALTER fails is in Catalog.   *)
(***************************************************************************)
EXTENDS SqlValues, SequencesExt

CONSTANTS
  Given,       \* values an INSERT can supply
  Written,     \* values an UPDATE can write
  ParentKeys,  \* values there can be in the referenced column
  Setups,      \* the tables CREATE TABLE makes: columns, key, foreignKeys
  Definitions, \* the columns ALTER TABLE can put in the place of others
  Added,       \* those of them that it can also add
  Rules,       \* CHECK rules: a column's name and the value it must exceed
  Missing,     \* a name no column has
  MaxRows,     \* bound: rows in the table
  MaxCounter,  \* bound: generated values
  MaxAlters    \* bound: ALTER and TRUNCATE statements

VARIABLES
  columns,     \* Table::columns
  primaryKey,  \* IndexedRelation::m_primary_key: a column's name, or NoKey
  foreignKeys, \* IndexedRelation::m_foreign_keys: names of local columns
  counter,     \* MemoryBackedTable::m_auto_increment_values
  check,       \* Check: the main rule and the one constraint there can be
  rows,        \* MemoryBackedTable::m_rows
  parent,      \* the values in the referenced column
  alters,      \* bound: ALTER and TRUNCATE statements so far
  outcome,     \* how the last statement ended
  given,       \* history: values in AUTO_INCREMENT columns that were supplied
  copied,      \* history: what the columns held when the last ALTER copied it
  updated,     \* history: columns UPDATE has written
  orphaned     \* history: values removed from the referenced column

schema == <<columns, primaryKey, foreignKeys>>
history == <<given, copied, updated, orphaned>>
vars == <<schema, counter, check, rows, parent, alters, outcome, history>>

NoKey == "no key"
NoRule == <<>>
ColumnsOf(setup) == Range(setup.columns)
NamesOf(cols) == {c.name : c \in cols}
Names == NamesOf(Definitions) \cup UNION {NamesOf(ColumnsOf(setup)) : setup \in Setups}
NoCounter == [n \in Names |-> 0]

Columns ==
  [name : Names, type : Types, autoIncrement : BOOLEAN, unique : BOOLEAN,
   notNull : BOOLEAN, default : Values]

ASSUME IntegrityAssumption ==
  /\ Given \cup Written \cup ParentKeys \subseteq Values
  /\ Definitions \subseteq Columns /\ Added \subseteq Definitions
  /\ \A setup \in Setups :
       /\ setup.columns \in Seq(Columns)
       /\ setup.key \in NamesOf(ColumnsOf(setup)) \cup {NoKey}
       /\ setup.foreignKeys \subseteq NamesOf(ColumnsOf(setup))
  /\ NoKey \notin Names /\ Missing \notin Names
  /\ MaxRows \in Nat /\ MaxCounter \in Nat

(* What stands in a sequence at some places, in their order *)
InOrder(places) ==
  CHOOSE f \in [1..Cardinality(places) -> places] :
    \A i, j \in DOMAIN f : i < j => f[i] < f[j]
AtPlaces(seq, places) ==
  [i \in 1..Cardinality(places) |-> seq[InOrder(places)[i]]]

(* A table in the middle of a statement *)
Table(cols, key, keys, counts, rule, old) ==
  [columns |-> cols, key |-> key, foreignKeys |-> keys, counter |-> counts,
   check |-> rule, rows |-> old, outcome |-> "ok"]
Current == Table(columns, primaryKey, foreignKeys, counter, check, rows)

Init ==
  \E setup \in Setups :
    /\ columns = setup.columns
    /\ primaryKey = setup.key
    /\ foreignKeys = setup.foreignKeys
    /\ check = [main |-> setup.check, constraint |-> NoRule]
    /\ counter = NoCounter
    /\ rows = <<>> /\ parent = {}
    /\ alters = 0 /\ outcome = "ok"
    /\ given = {} /\ copied = {} /\ updated = {} /\ orphaned = {}

(***************************************************************************)
(* Table::insert: filling, then the checks, then the counters and the row. *)
(***************************************************************************)
(* get_column: the first column with the name, if there is one.  CREATE    *)
(* and ALTER TABLE let two columns have the same name.                     *)
Position(cols, name) ==
  {i \in DOMAIN cols : cols[i].name = name /\ \A j \in 1..(i - 1) : cols[j].name # name}

Fill(t, row) ==
  [i \in DOMAIN row |->
     IF ~IsNull(row[i]) THEN row[i]
     ELSE IF t.columns[i].autoIncrement
          THEN Int32(t.counter[t.columns[i].name] + 1)
          ELSE t.columns[i].default]

NothingGenerated(t, row) == {}               \* the counter is not moved

Generated(t, row) == {i \in DOMAIN row : IsNull(row[i]) /\ t.columns[i].autoIncrement}

Increments(t, row, name) ==
  Cardinality({i \in Generated(t, row) : t.columns[i].name = name})

NotThere(t, i, value) == \A r \in DOMAIN t.rows : Equal(t.rows[r][i], value) = No

ValueIsValid(t, i, value) ==                 \* check_value_validity
  /\ IsNull(value) \/ value.type = t.columns[i].type
  /\ t.columns[i].notNull => ~IsNull(value)
  /\ t.columns[i].unique => NotThere(t, i, value)

KeyNotNull(t, row) ==                        \* the duplicates not looked for
  \A i \in Position(t.columns, t.key) : ~IsNull(row[i])

KeyIsFree(t, row) ==
  t.key # NoKey =>
    /\ Position(t.columns, t.key) # {}
    /\ \A i \in Position(t.columns, t.key) : ~IsNull(row[i]) /\ NotThere(t, i, row[i])

TableChecksPass(t, row) ==
  /\ Len(row) = Len(t.columns)
  /\ KeyIsFree(t, row)
  /\ \A i \in DOMAIN row : ValueIsValid(t, i, row[i])

(* find_first_matching_tuple wants the same type and equality. *)
HasParent(value) == \E p \in parent : p.type = value.type /\ Equal(p, value) = Yes

ForeignKeysPass(t, row) ==
  \A name \in t.foreignKeys :
    /\ Position(t.columns, name) # {}
    /\ \A i \in Position(t.columns, name) : IsNull(row[i]) \/ HasParent(row[i])

Passes(t, rule, row) ==
  rule # NoRule =>
    \E i \in Position(t.columns, rule[1]) : ToBool(Greater(row[i], rule[2])) = Yes

MainRulePasses(t, row) == Passes(t, t.check.main, row)

CheckPasses(t, row) ==
  Passes(t, t.check.main, row) /\ Passes(t, t.check.constraint, row)

(* A NULL beyond the last column reads columns[s] out of range. *)
ReadsBeyond(t, row) ==
  \E i \in DOMAIN row : i > Len(t.columns) /\ IsNull(row[i])

BadAutoIncrement(t, row) ==
  \E i \in DOMAIN row : /\ i <= Len(t.columns) /\ IsNull(row[i])
                        /\ t.columns[i].autoIncrement
                        /\ t.columns[i].type # "int"

InsertRow(t, row) ==
  LET filled == Fill(t, row) IN
  IF t.outcome # "ok" THEN t
  ELSE IF ReadsBeyond(t, row) THEN [t EXCEPT !.outcome = "undefined"]
  ELSE IF \/ BadAutoIncrement(t, row)
          \/ ~TableChecksPass(t, filled)
          \/ ~ForeignKeysPass(t, filled)
          \/ ~CheckPasses(t, filled)
  THEN [t EXCEPT !.outcome = "error"]
  ELSE [t EXCEPT !.rows = Append(@, filled),
                 !.counter = [n \in Names |-> @[n] + Increments(t, row, n)]]

(* create_tuple_from_values, of pairs of a column's name and a value *)
TupleFromValues(t, pairs) ==
  LET named(i) == {p \in DOMAIN pairs : i \in Position(t.columns, pairs[p][1])}
  IN [i \in DOMAIN t.columns |->
        IF named(i) = {} THEN Null
        ELSE pairs[CHOOSE p \in named(i) : \A q \in named(i) : q <= p][2]]

KnowsColumns(t, names) == \A n \in Range(names) : Position(t.columns, n) # {}

(***************************************************************************)
(* INSERT and IMPORT                                                       *)
(***************************************************************************)
Running == outcome \notin {"aborted", "undefined"}

Fits(t) == Len(t.rows) <= MaxRows /\ \A n \in Names : t.counter[n] <= MaxCounter

(* values in AUTO_INCREMENT columns, of the rows from the first-th on *)
Brought(t, first) ==
  {<<t.columns[i].name, t.rows[r][i]>> :
     r \in first..Len(t.rows), i \in {j \in DOMAIN t.columns : t.columns[j].autoIncrement}}

InsertAll(t, newRows) == FoldLeft(InsertRow, t, newRows)

Inserted(t, supplied) ==
  /\ Fits(t)
  /\ rows' = t.rows /\ counter' = t.counter /\ outcome' = t.outcome
  /\ given' = given \cup
       {p \in Brought(t, Len(rows) + 1) : p[2] \in supplied /\ ~IsNull(p[2])}
  /\ UNCHANGED <<schema, check, parent, alters, copied, updated, orphaned>>

RowsOf(n) == [1..n -> Given]

Insert(row) ==
  /\ Running
  /\ Inserted(InsertRow(Current, row), Range(row))

(* import_from_csv; the file's rows have as many values as the table columns *)
Import(newRows) ==
  /\ Running
  /\ Inserted(InsertAll(Current, newRows), UNION {Range(r) : r \in Range(newRows)})

(* INSERT with a list of columns: the values are read by the places of the *)
(* list, m_values[i], past their end if there are fewer; more are ignored. *)
ListedRow(list, values) ==
  TupleFromValues(Current, Zip(list, SubSeq(values, 1, Len(list))))

InsertListed(list, values) ==
  LET t == IF Len(values) < Len(list) THEN [Current EXCEPT !.outcome = "undefined"]
           ELSE IF ~KnowsColumns(Current, list) THEN [Current EXCEPT !.outcome = "error"]
           ELSE InsertRow(Current, ListedRow(list, values))
  IN /\ Running
     /\ Inserted(t, Range(values))

(* INSERT ... SELECT, to which the parser always gives a list of columns;  *)
(* Tuple::value asserts that a row has as many values as the list names.   *)
(* The rows of a result are of one length, so the first tells of them all. *)
InsertSelected(list, result) ==
  IF Len(list) > Len(result[1]) THEN [Current EXCEPT !.outcome = "aborted"]
  ELSE IF ~KnowsColumns(Current, list) THEN [Current EXCEPT !.outcome = "error"]
  ELSE InsertAll(Current, [r \in DOMAIN result |-> ListedRow(list, result[r])])

InsertSelect(list, result) ==
  /\ Running
  /\ Inserted(InsertSelected(list, result), UNION {Range(r) : r \in Range(result)})

(***************************************************************************)
(* DELETE, and UPDATE of one column: the rows before the failing one keep  *)
(* what was written, and no check is made ("FIXME: Integrity").            *)
(***************************************************************************)
Delete(removed) ==
  /\ Running
  /\ rows' = AtPlaces(rows, DOMAIN rows \ removed)
  /\ outcome' = "ok"
  /\ UNCHANGED <<schema, counter, check, parent, alters, history>>

DeleteFails ==                               \* WHERE is evaluated before any removal
  /\ Running /\ rows # <<>>
  /\ outcome' = "error"
  /\ UNCHANGED <<schema, counter, check, rows, parent, alters, history>>

(* One of the assignments: a column's name, the value its expression gives *)
(* and the row at which that fails, if there is such a row.                *)
Assign(t, a) ==
  LET at == Position(t.columns, a.column) IN
  IF t.outcome # "ok" \/ t.rows = <<>> THEN t
  ELSE IF at = {} THEN [t EXCEPT !.outcome = "undefined"]
  ELSE [t EXCEPT
          !.rows = [r \in DOMAIN t.rows |->
                      [i \in DOMAIN t.rows[r] |->
                         IF i \in at /\ r < a.failsAt THEN a.value ELSE t.rows[r][i]]],
          !.outcome = IF a.failsAt \in DOMAIN t.rows THEN "error" ELSE "ok"]

Update(assignments) ==
  LET t == FoldLeft(Assign, Current, assignments) IN
  /\ Running
  /\ rows' = t.rows /\ outcome' = t.outcome
  /\ updated' = updated \cup
       {a.column : a \in {b \in Range(assignments) : b.column \in Names /\ rows # <<>>}}
  /\ UNCHANGED <<schema, counter, check, parent, alters, given, copied, orphaned>>

(***************************************************************************)
(* ALTER TABLE.  The keys it declares are set on the old table; the new    *)
(* one is made of the columns and the check alone, and the rows are        *)
(* inserted into it one by one (Database::restructure_table).              *)
(***************************************************************************)
AlterColumns(cols, stmt) ==
  LET altered == [i \in DOMAIN cols |->
                    IF \E d \in stmt.alter : d.name = cols[i].name
                    THEN CHOOSE d \in stmt.alter : d.name = cols[i].name
                    ELSE cols[i]]
      added == altered \o SetToSeq(stmt.add)
  IN AtPlaces(added, {i \in DOMAIN added : added[i].name \notin stmt.drop})

KeyOfNewTable(t) == NoKey

Restructured(t, cols) ==
  LET empty == Table(cols, KeyOfNewTable(t), {}, NoCounter, t.check, <<>>)
      named(row) == [i \in DOMAIN row |-> <<t.columns[i].name, row[i]>>]
      known(row) == {i \in DOMAIN row : Position(cols, t.columns[i].name) # {}}
      copy(row) == TupleFromValues(empty, AtPlaces(named(row), known(row)))
  IN InsertAll(empty, [r \in DOMAIN t.rows |-> copy(t.rows[r])])

(* Check::add_check, alter_check, drop_check and the same for constraints; *)
(* drop_check deletes what a shared_ptr owns, which is then deleted again. *)
CheckChange(t, change) ==
  IF t.outcome # "ok" THEN t
  ELSE CASE change.what = "add" ->
              IF t.check[change.of] = NoRule
              THEN [t EXCEPT !.check[change.of] = change.rule]
              ELSE [t EXCEPT !.outcome = "error"]
         [] change.what = "alter" ->
              IF t.check[change.of] # NoRule
              THEN [t EXCEPT !.check[change.of] = change.rule]
              ELSE [t EXCEPT !.outcome = "error"]
         [] change.what = "drop" ->
              IF t.check[change.of] = NoRule THEN [t EXCEPT !.outcome = "error"]
              ELSE [t EXCEPT !.check[change.of] = NoRule,
                             !.outcome = IF change.of = "main" THEN "undefined" ELSE "ok"]

(* What the table had in columns of t that are AUTO_INCREMENT *)
Copied(t) ==
  LET counted == {c.name : c \in {d \in Range(t.columns) : d.autoIncrement}}
  IN {<<columns[i].name, rows[r][i]>> :
        r \in DOMAIN rows, i \in {j \in DOMAIN columns : columns[j].name \in counted}}

AlterTable(stmt, changes) ==
  LET restructured == Restructured(Current, AlterColumns(columns, stmt))
      t == FoldLeft(CheckChange, restructured, changes)
  IN /\ Running /\ Fits(t)
     /\ alters < MaxAlters /\ alters' = alters + 1
     /\ columns' = t.columns /\ primaryKey' = t.key /\ foreignKeys' = {}
     /\ counter' = t.counter /\ check' = t.check
     /\ rows' = t.rows /\ outcome' = t.outcome
     /\ copied' = Copied(t)
     /\ given' = {} /\ updated' = {} /\ orphaned' = {}
     /\ UNCHANGED parent

(* TRUNCATE: dropped and made anew ("FIXME: Handle primary and foreign keys") *)
TruncateTable ==
  /\ Running
  /\ alters < MaxAlters /\ alters' = alters + 1
  /\ primaryKey' = NoKey /\ foreignKeys' = {} /\ counter' = NoCounter
  /\ rows' = <<>> /\ outcome' = "ok"
  /\ given' = {} /\ copied' = {} /\ updated' = {} /\ orphaned' = {}
  /\ UNCHANGED <<columns, check, parent>>

(* The referenced table: no statement looks for the rows that refer to it. *)
ParentInsert(value) ==
  /\ Running
  /\ parent' = parent \cup {value}
  /\ outcome' = "ok"
  /\ UNCHANGED <<schema, counter, check, rows, alters, history>>

ParentDelete(value) ==
  /\ Running
  /\ parent' = parent \ {value}
  /\ orphaned' = orphaned \cup {value}
  /\ outcome' = "ok"
  /\ UNCHANGED <<schema, counter, check, rows, alters, given, copied, updated>>

Assignments ==
  [column : Names \cup {Missing}, value : Written, failsAt : 1..(MaxRows + 1)]
ColumnLists == {<<Missing>>}
                 \cup {<<columns[i].name>> : i \in DOMAIN columns}
                 \cup {<<columns[i].name, columns[1].name>> : i \in 2..Len(columns)}
Results == {<<row>> : row \in RowsOf(2)} \cup [1..2 -> RowsOf(1)]
ColumnChange(add, alter, drop) == [add |-> add, alter |-> alter, drop |-> drop]
NoColumnChange == ColumnChange({}, {}, {})
ColumnChanges ==
  {ColumnChange({d}, {}, {}) : d \in Added}
     \cup {ColumnChange({}, {d}, {}) : d \in Definitions}
     \cup {ColumnChange({}, {}, {n}) : n \in Names}
CheckChanges ==
  [what : {"add", "alter"}, of : {"main", "constraint"}, rule : Rules]
    \cup [what : {"drop"}, of : {"main", "constraint"}, rule : {NoRule}]

Next ==
  \/ \E n \in 1..(Len(columns) + 1) : \E row \in RowsOf(n) : Insert(row)
  \/ \E list \in ColumnLists, n \in 1..2 : \E values \in RowsOf(n) : InsertListed(list, values)
  \/ \E first, second \in RowsOf(Len(columns)) : Import(<<first, second>>)
  \/ \E list \in ColumnLists, result \in Results : InsertSelect(list, result)
  \/ \E removed \in SUBSET DOMAIN rows : Delete(removed)
  \/ DeleteFails
  \/ \E a \in Assignments : Update(<<a>>)
  \/ \E a, b \in Assignments :
       /\ a.column # b.column /\ a.failsAt > MaxRows
       /\ Update(<<a, b>>)
  \/ \E stmt \in ColumnChanges : AlterTable(stmt, <<>>)
  \/ \E c \in CheckChanges : AlterTable(NoColumnChange, <<c>>)
  \/ TruncateTable
  \/ \E v \in ParentKeys : ParentInsert(v) \/ ParentDelete(v)

Spec == Init /\ [][Next]_vars

(***************************************************************************)
(* Properties                                                              *)
(***************************************************************************)
Outcomes == {"ok", "error", "aborted", "undefined"}
ColumnNames == {columns[i].name : i \in DOMAIN columns}

(* The keys of the table are columns it has, also after ALTER TABLE        *)
(* dropped one (Statement.cpp:217-225).                                    *)
TypeOK ==
  /\ primaryKey \in ColumnNames \cup {NoKey}
  /\ foreignKeys \subseteq ColumnNames
  /\ counter \in [Names -> 0..MaxCounter]
  /\ \A r \in DOMAIN rows : Len(rows[r]) = Len(columns)
  /\ parent \subseteq ParentKeys
  /\ outcome \in Outcomes

ColumnsAreLegal ==
  \A i \in DOMAIN columns : columns[i].name \notin updated =>
    /\ \A r \in DOMAIN rows :
         /\ IsNull(rows[r][i]) \/ rows[r][i].type = columns[i].type
         /\ columns[i].notNull \/ i \in Position(columns, primaryKey) => ~IsNull(rows[r][i])
    /\ columns[i].unique \/ i \in Position(columns, primaryKey) =>
         \A r, q \in DOMAIN rows : rows[r][i] = rows[q][i] => r = q

OrphansLostTheirParent ==
  \A name \in foreignKeys \ updated : \A i \in Position(columns, name) :
    \A r \in DOMAIN rows : \/ IsNull(rows[r][i]) \/ HasParent(rows[r][i])
                            \/ rows[r][i] \in orphaned

(* Whatever the order of INSERT, IMPORT, INSERT ... SELECT, DELETE and     *)
(* ALTER, and wherever they stop: the rows are as wide as the table, and   *)
(* in a column whose name no UPDATE wrote every value has the column's     *)
(* type, is NULL only where it may be, occurs once where the column is     *)
(* UNIQUE or the key, and refers to a value that the parent table has or   *)
(* that was removed there (Table.cpp:25-118).  Of columns of one name the  *)
(* first is the key: get_column finds no other.                            *)
RowsAreLegal == TypeOK /\ ColumnsAreLegal /\ OrphansLostTheirParent

(* A value above the counter of an AUTO_INCREMENT column is one that an    *)
(* INSERT will generate a second time.  It comes from one of two places:   *)
(* a statement supplied it since the last ALTER or TRUNCATE, for such a    *)
(* value does not move the counter (Table.cpp:127-150), or the last ALTER  *)
(* copied it, for the new table counts from 0 again (Database.cpp:99,      *)
(* Table.hpp:93), also where the old table had generated it.  Between two  *)
(* ALTERs generated values do not collide with each other.                 *)
OnlyGivenOrCopiedCollide ==
  \A i \in DOMAIN columns : columns[i].autoIncrement /\ columns[i].name \notin updated =>
    \A r \in DOMAIN rows :
      rows[r][i].v > counter[columns[i].name]
        => <<columns[i].name, rows[r][i]>> \in given \cup copied

(* A statement that adds rows to a table adds only rows that pass its main *)
(* rule and its constraint (Table.cpp:172-212).                            *)
NewRowsPassChecks ==
  [][UNCHANGED columns =>
       \A r \in DOMAIN rows' : r > Len(rows) =>
         \A rule \in {check.main, check.constraint} : Passes(Current, rule, rows'[r])]_vars

-----------------------------------------------------------------------------
(* The instance of the runs *)
MCStrings ==
  LET digit(i) == [text |-> ToString(i), number |-> <<2 * i>>, digits |-> TRUE]
      word(text) == [text |-> text, number |-> <<>>, digits |-> FALSE]
  IN << digit(0), digit(1), digit(2), digit(3), digit(4), digit(5), word("a"), word("null") >>
Column(name, autoIncrement, unique, notNull, default) ==
  [name |-> name, type |-> "int", autoIncrement |-> autoIncrement,
   unique |-> unique, notNull |-> notNull, default |-> default]
Id == Column("id", TRUE, FALSE, FALSE, Null)
Ref == Column("ref", FALSE, TRUE, FALSE, Int32(1))
MCSetups ==
  { [columns |-> <<Id, Ref>>, key |-> "id", foreignKeys |-> {"ref"}, check |-> NoRule],
    [columns |-> <<Id, Id>>, key |-> "id", foreignKeys |-> {}, check |-> NoRule],
    [columns |-> <<Id, Column("ref", FALSE, FALSE, TRUE, Null)>>, key |-> NoKey,
     foreignKeys |-> {}, check |-> <<"ref", Int32(0)>>] }
MCDefinitions == {[Id EXCEPT !.unique = TRUE], Column("ref", FALSE, FALSE, FALSE, Null)}
MCAdded == {[Id EXCEPT !.unique = TRUE]}
MCRules == {<<"id", Int32(1)>>}
MCGiven == {Null, Int32(1)}
MCWritten == {Varchar("a")}
MCParentKeys == {Int32(1)}

=============================================================================
