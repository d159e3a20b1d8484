------------------------------ MODULE Catalog ------------------------------
(***************************************************************************)
(* A database: the map from names to tables (db/core/Database.cpp), the    *)
(* files of its directory (db/storage/FileBackedTable.cpp, EDBFile::open,  *)
(* initialize, rename, ~EDBFile) and the statements that change either     *)
(* (db/sql/ast/Statement.cpp, SELECT INTO of db/sql/Select.cpp).           *)
(*                                                                         *)
(* A file-backed table has three names: its key in m_tables, its stem,     *)
(* which is the name of its file, and its label, the table name in its     *)
(* header.  The label in memory reaches the file when a row is inserted    *)
(* and when the table is destroyed.  A directory is opened by the labels   *)
(* of its files.                                                           *)
(*                                                                         *)
(* Inside a file only the set of its rows is kept (EDBTable has the rest). *)
(* A crash is the end of the process: what was written is in the file.     *)
(***************************************************************************)
EXTENDS Integers

CONSTANTS
  Names,    \* the names users give to tables
  Rows,     \* the values a row can have
  MaxTime   \* bound: seconds that time(nullptr) can count

ASSUME CatalogAssumption ==
  /\ MaxTime \in Nat /\ MaxTime > 0
  /\ "nameless" \notin Names /\ "SelectResult" \notin Names

(***************************************************************************)
(* A name is a base and the second of its backup: <<"t", 0>> is t, and     *)
(* <<"t", 7>> is t__BACKUP7.  Users name tables without a backup suffix.   *)
(***************************************************************************)
Bases == Names \cup {"nameless", "SelectResult"}
AllNames == Bases \X (0..MaxTime)
Plain(base) == <<base, 0>>
PlainNames == {Plain(base) : base \in Names}
Backup(name, second) == <<name[1], second>>
Nameless == Plain("nameless")          \* the empty string
SelectResult == Plain("SelectResult")

NoTable == [engine |-> "none", stem |-> Nameless, label |-> Nameless, rows |-> {}]
EDB(stem, label) == [engine |-> "EDB", stem |-> stem, label |-> label, rows |-> {}]
Memory(label, rows) ==
  [engine |-> "Memory", stem |-> Nameless, label |-> label, rows |-> rows]

NoFile == [state |-> "absent", label |-> Nameless, rows |-> {}]
Unfinished == [state |-> "unfinished", label |-> Nameless, rows |-> {}]
File(label, rows) == [state |-> "whole", label |-> label, rows |-> rows]

Idle == [op |-> "idle", name |-> Nameless, backup |-> Nameless, todo |-> {}]

VARIABLES
  tables,   \* Database::m_tables, by key
  files,    \* the directory, by stem
  job,      \* the running statement, between two of its steps
  now,      \* time(nullptr)
  phase,    \* "up", "down", or "broken": the directory cannot be opened
  \* history, for the properties:
  kept,      \* kept[b]: rows that were put into file-backed tables of base b
             \*   and did not go with one (GivenUp)
  twins,     \* names that two files had when the directory was opened
  lostLabel, \* whether the process ended with a label not in its file
  midCreate  \* ... and while a file was being made

history == <<kept, twins, lostLabel, midCreate>>
vars == <<tables, files, job, now, phase, history>>

Init ==
  /\ tables = [n \in AllNames |-> NoTable]
  /\ files = [n \in AllNames |-> NoFile]
  /\ job = Idle
  /\ now = 1
  /\ phase = "up"
  /\ kept = [b \in Names |-> {}]
  /\ twins = {} /\ lostLabel = FALSE /\ midCreate = FALSE

Ready == phase = "up" /\ job = Idle
Exists(n) == tables[n] # NoTable
IsEDB(n) == tables[n].engine = "EDB"
RowsOf(n) == IF IsEDB(n) THEN files[tables[n].stem].rows ELSE tables[n].rows

(***************************************************************************)
(* ~EDBFile writes the header of a table that is destroyed.                *)
(***************************************************************************)
NotFlushed(n) == files

Flushed(n) ==
  IF IsEDB(n) THEN [files EXCEPT ![tables[n].stem] = File(tables[n].label, @.rows)]
              ELSE files

LabelInMemory(names) ==                \* ... and only there
  \E n \in names : IsEDB(n) /\ files[tables[n].stem].label # tables[n].label

(***************************************************************************)
(* The rows of file-backed tables of a base, and the history when n goes:  *)
(* rows are given up unless another table, a backup say, has them too.     *)
(***************************************************************************)
OpenOf(base) == {n \in AllNames : n[1] = base /\ IsEDB(n)}
RowsIn(set) == UNION {RowsOf(n) : n \in set}

GivenUp(n) ==
  [b \in Names |->
     IF n \in OpenOf(b)
       THEN kept[b] \ (RowsOf(n) \ RowsIn(OpenOf(b) \ {n})) ELSE kept[b]]

(***************************************************************************)
(* FileBackedTable::initialize opens the file with O_TRUNC; the header is  *)
(* written when the blocks are there.  Two tables on one file are left     *)
(* out where the first is the one without a name (FileOfNameless).         *)
(***************************************************************************)
FileOfNameless(n) == IsEDB(Nameless) /\ tables[Nameless].stem = n

TruncatingLater(n) ==                  \* open without O_TRUNC
  /\ ~FileOfNameless(n)
  /\ files' = [files EXCEPT ![n].state = "unfinished"]

Truncating(n) ==
  /\ ~FileOfNameless(n)
  /\ files' = [files EXCEPT ![n] = Unfinished]

StartCreate(n) ==                      \* CREATE TABLE ... ENGINE = EDB
  /\ Ready /\ ~Exists(n)
  /\ Truncating(n)
  /\ job' = [Idle EXCEPT !.op = "create", !.name = n]
  /\ UNCHANGED <<tables, now, phase, history>>

CreateMemory(n) ==                     \* CREATE TABLE ... ENGINE = MEMORY
  /\ Ready /\ ~Exists(n)
  /\ tables' = [tables EXCEPT ![n] = Memory(n, {})]
  /\ UNCHANGED <<files, job, now, phase, history>>

AfterCreate ==                         \* where the statement goes on
  IF job.op = "alter-file"
    THEN [job EXCEPT !.op = "copy", !.todo = RowsOf(job.backup)] ELSE Idle

Creating == {"create", "recreate", "alter-file"}

FinishCreate ==
  /\ job.op \in Creating
  /\ files' = [files EXCEPT ![job.name] = File(job.name, {})]
  /\ tables' = [tables EXCEPT ![job.name] = EDB(job.name, job.name)]
  /\ job' = AfterCreate
  /\ UNCHANGED <<now, phase, history>>

(***************************************************************************)
(* More than 255 columns: write_header returns an error before it has a    *)
(* header, and ~EDBFile writes the one of the first pass, without a name.  *)
(***************************************************************************)
TooManyColumnsNoFlush ==               \* ~EDBFile without flush_header
  /\ job.op \in {"create", "alter-file"}
  /\ job' = Idle
  /\ UNCHANGED <<tables, files, now, phase, history>>

TooManyColumns ==
  /\ job.op \in {"create", "alter-file"}
  /\ files' = [files EXCEPT ![job.name] = File(Nameless, {})]
  /\ job' = Idle
  /\ UNCHANGED <<tables, now, phase, history>>

Insert(n, r) ==
  /\ Ready /\ Exists(n) /\ n[1] \in Names
  /\ \/ /\ IsEDB(n)
        /\ files' = [files EXCEPT ![tables[n].stem] =
                                    File(tables[n].label, @.rows \cup {r})]
        /\ kept' = [kept EXCEPT ![n[1]] = @ \cup {r}]
        /\ UNCHANGED tables
     \/ /\ ~IsEDB(n)
        /\ tables' = [tables EXCEPT ![n] = Memory(@.label, @.rows \cup {r})]
        /\ UNCHANGED <<files, kept>>
  /\ UNCHANGED <<job, now, phase, twins, lostLabel, midCreate>>

Drop(n) ==                             \* the file stays in the directory
  /\ Ready /\ Exists(n)
  /\ tables' = [tables EXCEPT ![n] = NoTable]
  /\ files' = Flushed(n)
  /\ kept' = GivenUp(n)
  /\ UNCHANGED <<job, now, phase, twins, lostLabel, midCreate>>

(***************************************************************************)
(* TRUNCATE drops the table n and creates one with the name the table says *)
(* it has, which fails if there is one.                                    *)
(***************************************************************************)
Truncate(n) ==
  LET name == tables[n].label
      rest == [tables EXCEPT ![n] = NoTable]
  IN /\ Ready /\ Exists(n)
     /\ kept' = GivenUp(n)
     /\ IF rest[name] # NoTable
          THEN tables' = rest /\ files' = Flushed(n) /\ UNCHANGED job
          ELSE IF IsEDB(n)
            THEN /\ ~FileOfNameless(name)
                 /\ tables' = rest
                 /\ files' = [Flushed(n) EXCEPT ![name] = Unfinished]
                 /\ job' = [Idle EXCEPT !.op = "recreate", !.name = name]
            ELSE /\ tables' = [rest EXCEPT ![name] = Memory(name, {})]
                 /\ UNCHANGED <<files, job>>
     /\ UNCHANGED <<now, phase, twins, lostLabel, midCreate>>

(***************************************************************************)
(* SELECT * INTO n FROM m.  The new table is in memory and is named        *)
(* "SelectResult".  Of an empty result the code reads rows[0] when n was   *)
(* dropped already: the process dies.                                      *)
(***************************************************************************)
SelectInto(n, m) ==
  /\ Ready /\ Exists(m) /\ RowsOf(m) # {}
  /\ tables' = [tables EXCEPT ![n] = Memory(SelectResult, RowsOf(m))]
  /\ files' = Flushed(n)
  /\ kept' = GivenUp(n)
  /\ UNCHANGED <<job, now, phase, twins, lostLabel, midCreate>>

SelectNothingInto(n, m) ==
  /\ Ready /\ Exists(m) /\ RowsOf(m) = {}
  /\ tables' = [k \in AllNames |-> NoTable]
  /\ files' = Flushed(n)
  /\ kept' = GivenUp(n)
  /\ phase' = "down"
  /\ lostLabel' = (lostLabel \/ LabelInMemory(AllNames \ {n}))
  /\ UNCHANGED <<job, now, twins, midCreate>>

(***************************************************************************)
(* ALTER TABLE n: restructure_table.  rename gives the table the name of   *)
(* the backup and moves its file; ::rename takes the place of a file that  *)
(* no table has open.                                                      *)
(***************************************************************************)
Moved(dir, from, to) == [dir EXCEPT ![from] = NoFile, ![to] = dir[from]]

Renamed(table, name) ==
  IF table.engine = "EDB" THEN EDB(name, name) ELSE Memory(name, table.rows)

Altered(n) == [op |-> "alter", name |-> n, backup |-> Backup(n, now), todo |-> {}]

AlterRename(n) ==
  LET backup == Backup(n, now)
  IN /\ Ready /\ Exists(n) /\ ~Exists(backup)
     /\ tables' = [tables EXCEPT ![n] = NoTable, ![backup] = Renamed(tables[n], backup)]
     /\ files' = IF IsEDB(n) THEN Moved(files, tables[n].stem, backup) ELSE files
     /\ job' = Altered(n)
     /\ UNCHANGED <<now, phase, history>>

(***************************************************************************)
(* "This hopes that table of this name doesn't exist": a table whose ALTER *)
(* failed or was cut short in the same second still has the name of the    *)
(* backup.  m_tables.insert then keeps that one and destroys n; it is the  *)
(* earlier backup that is renamed, to the name it has, and copied.         *)
(***************************************************************************)
AlterAssigns(n) ==                     \* n put in the place of the earlier one
  LET backup == Backup(n, now)
  IN /\ Ready /\ Exists(n) /\ Exists(backup)
     /\ tables' = [tables EXCEPT ![n] = NoTable, ![backup] = Renamed(tables[n], backup)]
     /\ files' = IF IsEDB(n) THEN Moved(files, tables[n].stem, backup) ELSE files
     /\ job' = Altered(n)
     /\ kept' = GivenUp(n)
     /\ UNCHANGED <<now, phase, twins, lostLabel, midCreate>>

AlterCollides(n) ==
  LET backup == Backup(n, now)
  IN /\ Ready /\ Exists(n) /\ Exists(backup)
     /\ tables' = [tables EXCEPT ![n] = NoTable,
                                 ![backup] = Renamed(tables[backup], backup)]
     /\ files' = IF IsEDB(backup) THEN Moved(Flushed(n), tables[backup].stem, backup)
                                  ELSE Flushed(n)
     /\ job' = Altered(n)
     /\ kept' = GivenUp(n)
     /\ UNCHANGED <<now, phase, twins, lostLabel, midCreate>>

AlterCreate ==
  /\ job.op = "alter"
  /\ \/ /\ IsEDB(job.backup)
        /\ Truncating(job.name)
        /\ job' = [job EXCEPT !.op = "alter-file"]
        /\ UNCHANGED tables
     \/ /\ ~IsEDB(job.backup)
        /\ tables' = [tables EXCEPT ![job.name] = Memory(job.name, {})]
        /\ job' = [job EXCEPT !.op = "copy", !.todo = RowsOf(job.backup)]
        /\ UNCHANGED files
  /\ UNCHANGED <<now, phase, history>>

CopyRow(r) ==
  /\ job.op = "copy" /\ r \in job.todo
  /\ IF IsEDB(job.name)
       THEN /\ files' = [files EXCEPT ![tables[job.name].stem] =
                                        File(tables[job.name].label, @.rows \cup {r})]
            /\ UNCHANGED tables
       ELSE /\ tables' = [tables EXCEPT ![job.name] = Memory(@.label, @.rows \cup {r})]
            /\ UNCHANGED files
  /\ job' = [job EXCEPT !.todo = @ \ {r}]
  /\ UNCHANGED <<now, phase, history>>

CopyFails ==                           \* the new columns do not take a row
  /\ job.op = "copy" /\ job.todo # {}
  /\ job' = Idle
  /\ UNCHANGED <<tables, files, now, phase, history>>

AlterEndEarly ==                       \* an error of the copy ignored
  /\ job.op = "copy"
  /\ tables' = [tables EXCEPT ![job.backup] = NoTable]
  /\ files' = Flushed(job.backup)
  /\ job' = Idle
  /\ UNCHANGED <<now, phase, history>>

AlterEnd ==                            \* m_tables.erase(backup_name)
  /\ job.op = "copy" /\ job.todo = {}
  /\ tables' = [tables EXCEPT ![job.backup] = NoTable]
  /\ files' = Flushed(job.backup)
  /\ job' = Idle
  /\ UNCHANGED <<now, phase, history>>

Tick ==
  /\ job = Idle /\ now < MaxTime
  /\ now' = now + 1
  /\ UNCHANGED <<tables, files, job, phase, history>>

(***************************************************************************)
(* The end of the process, in order or not.  ~Database destroys the        *)
(* tables, so each of them writes its header.                              *)
(***************************************************************************)
Close ==
  /\ Ready
  /\ files' = [f \in AllNames |->
       IF \E n \in AllNames : IsEDB(n) /\ tables[n].stem = f
         THEN File(tables[CHOOSE n \in AllNames : IsEDB(n) /\ tables[n].stem = f].label,
                   files[f].rows)
         ELSE files[f]]
  /\ tables' = [n \in AllNames |-> NoTable]
  /\ phase' = "down"
  /\ UNCHANGED <<job, now, history>>

Crash ==
  /\ phase = "up"
  /\ tables' = [n \in AllNames |-> NoTable]
  /\ job' = Idle
  /\ phase' = "down"
  /\ lostLabel' = (lostLabel \/ LabelInMemory(AllNames))
  /\ midCreate' = (midCreate \/ job.op \in Creating)
  /\ UNCHANGED <<files, now, kept, twins>>

(***************************************************************************)
(* create_or_open_file_backed: every file of the directory is opened and   *)
(* takes the name of its label, unless an earlier one has it.  The order   *)
(* is the directory's.  A file without a header has a block_size of zero,  *)
(* by which read_header divides.                                           *)
(***************************************************************************)
Labelled(label) ==
  {f \in AllNames : files[f].state = "whole" /\ files[f].label = label}

FirstOfEach(chosen) ==                 \* one file for every label there is
  \A n \in AllNames : Labelled(n) # {} =>
    \E f \in Labelled(n) : Labelled(n) \cap chosen = {f}

OpenedByStem(chosen) ==                \* m_tables keyed by the file's name
  [n \in AllNames |->
     IF n \in chosen THEN EDB(n, files[n].label) ELSE NoTable]

Opened(chosen) ==
  [n \in AllNames |->
     IF Labelled(n) = {} THEN NoTable
     ELSE EDB(CHOOSE f \in chosen : files[f].label = n, n)]

Open ==
  /\ phase \in {"down", "broken"}
  /\ IF \E f \in AllNames : files[f].state = "unfinished"
       THEN phase' = "broken" /\ UNCHANGED <<tables, twins>>
       ELSE /\ phase' = "up"
            /\ \E chosen \in SUBSET {f \in AllNames : files[f].state = "whole"} :
                 FirstOfEach(chosen) /\ tables' = Opened(chosen)
            /\ twins' = twins \cup {n \in AllNames : \E f, g \in Labelled(n) : f # g}
  /\ UNCHANGED <<files, job, now, kept, lostLabel, midCreate>>

UserNames == {n \in AllNames : n[1] # "nameless"}

Next ==
  \/ \E n \in PlainNames : StartCreate(n) \/ CreateMemory(n)
  \/ \E n \in PlainNames : AlterRename(n) \/ AlterCollides(n)
  \/ \E n \in UserNames : Drop(n) \/ Truncate(n) \/ \E r \in Rows : Insert(n, r)
  \/ \E n \in PlainNames, m \in UserNames : SelectInto(n, m) \/ SelectNothingInto(n, m)
  \/ \E r \in Rows : CopyRow(r)
  \/ FinishCreate \/ TooManyColumns \/ AlterCreate \/ CopyFails \/ AlterEnd
  \/ Tick \/ Close \/ Crash \/ Open

Spec == Init /\ [][Next]_vars

-----------------------------------------------------------------------------
(***************************************************************************)
(* The values the variables can have.                                      *)
(***************************************************************************)
AnyTable == {NoTable} \cup {EDB(stem, label) : stem, label \in AllNames}
                      \cup {Memory(label, rows) : label \in AllNames, rows \in SUBSET Rows}
AnyFile == {NoFile, Unfinished}
             \cup {File(label, rows) : label \in AllNames, rows \in SUBSET Rows}
Job == [op : {"idle", "alter", "copy"} \cup Creating, name : AllNames,
        backup : AllNames, todo : SUBSET Rows]

TypeOK ==
  /\ tables \in [AllNames -> AnyTable]
  /\ files \in [AllNames -> AnyFile]
  /\ job \in Job
  /\ now \in 1..MaxTime
  /\ phase \in {"up", "down", "broken"}
  /\ kept \in [Names -> SUBSET Rows]
  /\ twins \subseteq AllNames
  /\ lostLabel \in BOOLEAN /\ midCreate \in BOOLEAN

(***************************************************************************)
(* A file-backed table has a file with a header, no other table has that   *)
(* file, and the table is known by the name its header in memory has.      *)
(* m_tables is keyed by one name and files are made under another, so      *)
(* nothing in Database checks this.                                        *)
(***************************************************************************)
OneFilePerTable ==
  \A n \in AllNames : IsEDB(n) =>
    /\ tables[n].label = n
    /\ files[tables[n].stem].state = "whole"
    /\ \A m \in AllNames \ {n} : IsEDB(m) => tables[m].stem # tables[n].stem

(***************************************************************************)
(* Whatever is interrupted or fails, some file of a table or of one of its *)
(* backups has every row that was inserted, except those of a table that   *)
(* was dropped, truncated or replaced and, the one loss nobody asked for,  *)
(* of a table whose ALTER finds the name of its backup taken: the rows     *)
(* that the earlier backup has stay.  No longer if two files had the same  *)
(* name at an opening: the one that is not opened is truncated by the next *)
(* ALTER of the other.                                                     *)
(***************************************************************************)
Twinned(base) == \E n \in twins : n[1] = base

NoRowLost ==
  \A b \in Names : ~Twinned(b) =>
    kept[b] \subseteq UNION {files[f].rows : f \in {g \in AllNames : g[1] = b}}

(***************************************************************************)
(* Between statements these rows (kept: see NoRowLost for the exceptions,  *)
(* an ALTER that collides with its backup among them) can be read: they    *)
(* are in open tables.                                                     *)
(***************************************************************************)
RowsCanBeRead ==
  Ready => \A b \in Names : ~Twinned(b) => kept[b] \subseteq RowsIn(OpenOf(b))

(***************************************************************************)
(* Two files have the same name only after the process ended while a       *)
(* rename was in memory only.  Files without a name are left out: each     *)
(* CREATE TABLE with too many columns makes one.                           *)
(***************************************************************************)
TwinsNeedALostLabel == twins \ {Nameless} # {} => lostLabel

(***************************************************************************)
(* The directory can be opened again, unless the process ended while a     *)
(* file was being made.  A CREATE TABLE that fails leaves a file too.      *)
(***************************************************************************)
OpensAgain == phase = "broken" => midCreate

(***************************************************************************)
(* Database.hpp:33: restructure_table changes the structure "of a table,   *)
(* keeping all the rows".  When ALTER ends, the table has the rows that    *)
(* the backup had.                                                         *)
(***************************************************************************)
RestructureKeepsRows ==
  [][job.op \in {"alter-file", "copy"} /\ job' = Idle /\ phase' = "up"
       => RowsOf(job.backup) \subseteq RowsOf(job.name)']_vars

=============================================================================
