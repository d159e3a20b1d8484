--------------------------- MODULE CatalogProofs ---------------------------
(***************************************************************************)
(* The invariants of Catalog for all names, rows and times.                *)
(***************************************************************************)
EXTENDS Catalog, TLAPS

(***************************************************************************)
(* The labels a file can have, in its header or in memory: its own name,   *)
(* none if its creation failed, or, for a backup, the name of the table it *)
(* is the backup of, because rename does not write the header.             *)
(***************************************************************************)
MayLabel(file, label) ==
  \/ label = file
  \/ label = Nameless /\ file[2] = 0
  \/ label = Plain(file[1]) /\ file[2] # 0

FilesLabelled ==
  \A f \in AllNames : files[f].state = "whole" => MayLabel(f, files[f].label)

TablesLabelled ==
  \A n \in AllNames : IsEDB(n) =>
    /\ MayLabel(tables[n].stem, n)
    /\ files[tables[n].stem].label \in {n, Plain(n[1])}

(***************************************************************************)
(* What the running statement relies on at each of its places.             *)
(***************************************************************************)
Altering == {"alter", "alter-file", "copy"}

JobInv ==
  /\ phase # "up" => job = Idle /\ \A n \in AllNames : tables[n] = NoTable
  /\ job.op \in Creating =>
       /\ ~Exists(job.name) /\ job.name # Nameless
       /\ files[job.name] = Unfinished
       /\ \A n \in AllNames : IsEDB(n) => tables[n].stem # job.name
  /\ job.op \in Altering =>
       /\ job.name \in PlainNames
       /\ Exists(job.backup) /\ job.backup[1] = job.name[1] /\ job.backup[2] # 0
  /\ job.op = "create" => job.name[2] = 0
  /\ job.op = "alter" => ~Exists(job.name)
  /\ job.op = "alter-file" => IsEDB(job.backup)
  /\ job.op = "copy" =>
       /\ Exists(job.name)
       /\ IsEDB(job.backup) => IsEDB(job.name)
       /\ RowsOf(job.backup) \subseteq RowsOf(job.name) \cup job.todo

(***************************************************************************)
(* A file is unfinished only while it is being made, or after a crash.     *)
(***************************************************************************)
UnfinishedInv ==
  \A f \in AllNames : files[f].state = "unfinished" =>
    midCreate \/ (job.op \in Creating /\ f = job.name)

(***************************************************************************)
(* As long as no label was lost, a file with another name than its own has *)
(* its table open.                                                         *)
(***************************************************************************)
LabelsInv ==
  ~lostLabel =>
    /\ twins \subseteq {Nameless}
    /\ \A n \in AllNames : IsEDB(n) => n = Nameless \/ tables[n].stem = n
    /\ \A f \in AllNames : files[f].state = "whole" =>
         \/ files[f].label \in {f, Nameless}
         \/ IsEDB(f) /\ tables[f].stem = f

(***************************************************************************)
(* The rows of a base that were not given up are in its open tables and,   *)
(* when no table is open, in the files that open as one of them.           *)
(***************************************************************************)
RowsInv ==
  \A b \in Names : ~Twinned(b) => \A r \in kept[b] :
    IF phase = "up"
      THEN \E n \in AllNames : n[1] = b /\ IsEDB(n) /\ r \in files[tables[n].stem].rows
      ELSE \E f \in AllNames : /\ files[f].state = "whole"
                               /\ files[f].label[1] = b
                               /\ r \in files[f].rows

Inv ==
  /\ TypeOK /\ FilesLabelled /\ OneFilePerTable /\ TablesLabelled /\ JobInv
  /\ UnfinishedInv /\ LabelsInv /\ RowsInv /\ OpensAgain

-----------------------------------------------------------------------------
(***************************************************************************)
(* Names, tables and files.                                                *)
(***************************************************************************)

\* A name is its base and its second.
LEMMA NameFacts ==
  /\ \A b \in Bases : Plain(b) \in AllNames /\ Plain(b)[1] = b /\ Plain(b)[2] = 0
  /\ Nameless \in AllNames /\ Nameless[1] = "nameless" /\ Nameless[2] = 0
  /\ SelectResult \in AllNames
  /\ \A n \in PlainNames : n \in AllNames /\ n[1] \in Names /\ n[2] = 0 /\ n = Plain(n[1])
  /\ \A f \in AllNames : f[1] \in Bases /\ f[2] \in 0..MaxTime /\ f = <<f[1], f[2]>>
  /\ \A f, g \in AllNames : f[1] = g[1] /\ f[2] = g[2] => f = g
  /\ \A n \in PlainNames : n # Nameless
<1>1. \A f \in AllNames : f[1] \in Bases /\ f[2] \in 0..MaxTime /\ f = <<f[1], f[2]>>
  BY DEF AllNames
<1>2. \A b \in Bases : Plain(b) \in AllNames /\ Plain(b)[1] = b /\ Plain(b)[2] = 0
  <2>1. 0 \in 0..MaxTime
    BY CatalogAssumption
  <2>2. QED
    BY <2>1 DEF AllNames, Plain
<1>3. "nameless" \in Bases /\ "SelectResult" \in Bases /\ Names \subseteq Bases /\ "nameless" \notin Names
  BY CatalogAssumption DEF Bases
<1>4. Nameless \in AllNames /\ Nameless[1] = "nameless" /\ Nameless[2] = 0
  BY <1>2, <1>3 DEF Nameless
<1>5. SelectResult \in AllNames
  BY <1>2, <1>3 DEF SelectResult
<1>6. ASSUME NEW n \in PlainNames
      PROVE  /\ n \in AllNames /\ n[1] \in Names /\ n[2] = 0
             /\ n = Plain(n[1]) /\ n # Nameless
  <2>1. PICK b \in Names : n = Plain(b)
    BY DEF PlainNames
  <2>2. b \in Bases /\ b # "nameless"
    BY <1>3
  <2>3. QED
    BY <2>1, <2>2, <1>2, <1>4
<1>7. \A f, g \in AllNames : f[1] = g[1] /\ f[2] = g[2] => f = g
  BY <1>1
<1>8. QED
  BY <1>1, <1>2, <1>4, <1>5, <1>6, <1>7

\* The backup of a name is a name of the same base.
LEMMA BackupFacts ==
  ASSUME NEW n \in AllNames, NEW t \in 1..MaxTime
  PROVE  Backup(n, t) \in AllNames /\ Backup(n, t)[1] = n[1] /\ Backup(n, t)[2] # 0
BY DEF Backup, AllNames

\* The fields of the tables there can be.
LEMMA TableFacts ==
  /\ NoTable \in AnyTable /\ NoTable.engine = "none"
  /\ \A s, l \in AllNames : /\ EDB(s, l) \in AnyTable /\ EDB(s, l).engine = "EDB"
                           /\ EDB(s, l).stem = s /\ EDB(s, l).label = l
  /\ \A l \in AllNames, r \in SUBSET Rows :
       /\ Memory(l, r) \in AnyTable /\ Memory(l, r).engine = "Memory"
       /\ Memory(l, r).rows = r
  /\ \A t \in AnyTable : /\ t.stem \in AllNames /\ t.label \in AllNames
                         /\ t.rows \in SUBSET Rows
                         /\ t.engine \in {"none", "EDB", "Memory"}
                         /\ t.engine = "none" <=> t = NoTable
<1>1. /\ NoTable \in AnyTable /\ NoTable.engine = "none"
  BY DEF AnyTable, NoTable
<1>2. ASSUME NEW s \in AllNames, NEW l \in AllNames
      PROVE  /\ EDB(s, l) \in AnyTable /\ EDB(s, l).engine = "EDB"
             /\ EDB(s, l).stem = s /\ EDB(s, l).label = l
  <2>1. EDB(s, l) \in AnyTable
    BY DEF AnyTable
  <2>2. QED
    BY <2>1 DEF EDB
<1>3. ASSUME NEW l \in AllNames, NEW r \in SUBSET Rows
      PROVE  /\ Memory(l, r) \in AnyTable /\ Memory(l, r).engine = "Memory"
             /\ Memory(l, r).rows = r
  <2>1. Memory(l, r) \in AnyTable
    BY DEF AnyTable
  <2>2. QED
    BY <2>1 DEF Memory
<1>4. ASSUME NEW t \in AnyTable
      PROVE  /\ t.stem \in AllNames /\ t.label \in AllNames
             /\ t.rows \in SUBSET Rows
             /\ t.engine \in {"none", "EDB", "Memory"}
             /\ t.engine = "none" <=> t = NoTable
  <2>1. CASE t = NoTable
    BY <2>1, NameFacts DEF NoTable
  <2>2. ASSUME NEW s \in AllNames, NEW l \in AllNames, t = EDB(s, l)
        PROVE  /\ t.stem \in AllNames /\ t.label \in AllNames /\ t.rows = {}
               /\ t.engine = "EDB"
    BY <2>2 DEF EDB
  <2>3. ASSUME NEW l \in AllNames, NEW r \in SUBSET Rows, t = Memory(l, r)
        PROVE  /\ t.stem \in AllNames /\ t.label \in AllNames /\ t.rows \in SUBSET Rows
               /\ t.engine = "Memory"
    BY <2>3, NameFacts DEF Memory
  <2>4. \/ t = NoTable
        \/ \E s, l \in AllNames : t = EDB(s, l)
        \/ \E l \in AllNames, r \in SUBSET Rows : t = Memory(l, r)
    BY DEF AnyTable
  <2>5. QED
    BY <2>1, <2>2, <2>3, <2>4, <1>1
<1>5. QED
  BY <1>1, <1>2, <1>3, <1>4

\* The fields of the files there can be.
LEMMA FileFacts ==
  /\ NoFile \in AnyFile /\ NoFile.state = "absent"
  /\ Unfinished \in AnyFile /\ Unfinished.state = "unfinished"
  /\ \A l \in AllNames, r \in SUBSET Rows :
       /\ File(l, r) \in AnyFile /\ File(l, r).state = "whole"
       /\ File(l, r).label = l /\ File(l, r).rows = r
  /\ \A f \in AnyFile : /\ f.label \in AllNames /\ f.rows \in SUBSET Rows
                        /\ f.state = "unfinished" => f = Unfinished
<1>1. /\ NoFile \in AnyFile /\ NoFile.state = "absent"
      /\ Unfinished \in AnyFile /\ Unfinished.state = "unfinished"
  BY DEF AnyFile, NoFile, Unfinished
<1>2. ASSUME NEW l \in AllNames, NEW r \in SUBSET Rows
      PROVE  /\ File(l, r) \in AnyFile /\ File(l, r).state = "whole"
             /\ File(l, r).label = l /\ File(l, r).rows = r
  <2>1. File(l, r) \in AnyFile
    BY DEF AnyFile
  <2>2. QED
    BY <2>1 DEF File
<1>3. ASSUME NEW f \in AnyFile
      PROVE  /\ f.label \in AllNames /\ f.rows \in SUBSET Rows
             /\ f.state = "unfinished" => f = Unfinished
  <2>1. ASSUME f \in {NoFile, Unfinished}
        PROVE  f.label = Nameless /\ f.rows = {} /\ (f.state = "unfinished" => f = Unfinished)
    <3>1. CASE f = NoFile
      BY <3>1 DEF NoFile
    <3>2. CASE f = Unfinished
      BY <3>2 DEF Unfinished
    <3>3. QED
      BY <2>1, <3>1, <3>2
  <2>2. ASSUME NEW l \in AllNames, NEW r \in SUBSET Rows, f = File(l, r)
        PROVE  f.label \in AllNames /\ f.rows \in SUBSET Rows /\ f.state = "whole"
    BY <2>2 DEF File
  <2>3. f \in {NoFile, Unfinished} \/ \E l \in AllNames, r \in SUBSET Rows : f = File(l, r)
    BY DEF AnyFile
  <2>4. QED
    BY <2>1, <2>2, <2>3, NameFacts
<1>4. QED
  BY <1>1, <1>2, <1>3

\* What the types say of a table or a file.
LEMMA StateFacts ==
  ASSUME TypeOK
  PROVE  /\ \A n \in AllNames :
              /\ tables[n] \in AnyTable
              /\ tables[n].stem \in AllNames /\ tables[n].label \in AllNames
              /\ tables[n].rows \in SUBSET Rows
              /\ IsEDB(n) => Exists(n)
              /\ RowsOf(n) \in SUBSET Rows
              /\ Flushed(n) \in [AllNames -> AnyFile]
         /\ \A f \in AllNames : /\ files[f] \in AnyFile
                                /\ files[f].label \in AllNames
                                /\ files[f].rows \in SUBSET Rows
<1>1. \A f \in AllNames : /\ files[f] \in AnyFile
                          /\ files[f].label \in AllNames
                          /\ files[f].rows \in SUBSET Rows
  BY FileFacts DEF TypeOK
<1>2. \A n \in AllNames : /\ tables[n] \in AnyTable
                          /\ tables[n].stem \in AllNames /\ tables[n].label \in AllNames
                          /\ tables[n].rows \in SUBSET Rows
                          /\ IsEDB(n) => Exists(n)
  BY TableFacts DEF TypeOK, IsEDB, Exists
<1>3. \A n \in AllNames : RowsOf(n) \in SUBSET Rows
  BY <1>1, <1>2 DEF RowsOf
<1>4. \A n \in AllNames : Flushed(n) \in [AllNames -> AnyFile]
  BY <1>1, <1>2, FileFacts DEF Flushed, TypeOK
<1>5. QED
  BY <1>1, <1>2, <1>3, <1>4

\* Giving up a table leaves sets of rows.
LEMMA GivenUpType ==
  ASSUME TypeOK, NEW n \in AllNames
  PROVE  GivenUp(n) \in [Names -> SUBSET Rows]
BY DEF TypeOK, GivenUp

\* No statement runs.
LEMMA IdleType == Idle \in Job /\ Idle.op = "idle"
BY NameFacts DEF Idle, Job

\* A table that is renamed is known by the new name.
LEMMA RenamedFacts ==
  ASSUME NEW t \in AnyTable, NEW b \in AllNames
  PROVE  /\ Renamed(t, b) \in AnyTable /\ Renamed(t, b) # NoTable
         /\ t.engine = "EDB" => Renamed(t, b) = EDB(b, b)
         /\ t.engine # "EDB" => Renamed(t, b) = Memory(b, t.rows)
<1>1. t.rows \in SUBSET Rows
  BY TableFacts
<1>2. EDB(b, b) \in AnyTable /\ EDB(b, b) # NoTable
  BY TableFacts
<1>3. Memory(b, t.rows) \in AnyTable /\ Memory(b, t.rows) # NoTable
  BY <1>1, TableFacts
<1>4. QED
  BY <1>2, <1>3 DEF Renamed

\* ALTER renames the table, and moves the file it has.
LEMMA AlterRenameFacts ==
  ASSUME TypeOK, NEW n \in PlainNames, AlterRename(n), NEW b, b = Backup(n, now)
  PROVE  /\ ~Exists(b)
         /\ IsEDB(n) =>
               /\ tables' = [tables EXCEPT ![n] = NoTable, ![b] = EDB(b, b)]
               /\ files' = [files EXCEPT ![tables[n].stem] = NoFile,
                                         ![b] = files[tables[n].stem]]
         /\ ~IsEDB(n) =>
               /\ tables' = [tables EXCEPT ![n] = NoTable,
                                           ![b] = Memory(b, tables[n].rows)]
               /\ files' = files
<1>1. n \in AllNames /\ b \in AllNames /\ tables[n] \in AnyTable
  BY NameFacts, BackupFacts, StateFacts DEF TypeOK
<1>2. /\ IsEDB(n) => Renamed(tables[n], b) = EDB(b, b)
      /\ ~IsEDB(n) => Renamed(tables[n], b) = Memory(b, tables[n].rows)
  BY <1>1, RenamedFacts DEF IsEDB
<1>3. QED
  BY <1>2 DEF AlterRename, Moved

\* A file that is moved to its place stays.
LEMMA MovedToItself ==
  ASSUME NEW dir \in [AllNames -> AnyFile], NEW b \in AllNames
  PROVE  Moved(dir, b, b) = dir
BY DEF Moved

\* ALTER finds the name of its backup taken: the types.
LEMMA AlterCollidesType ==
  ASSUME TypeOK, NEW n \in PlainNames, AlterCollides(n), NEW b, b = Backup(n, now)
  PROVE  /\ n \in AllNames /\ b \in AllNames /\ b[1] = n[1] /\ b[2] # 0 /\ b # n
         /\ tables' \in [AllNames -> AnyTable] /\ files' \in [AllNames -> AnyFile]
         /\ tables'[n] = NoTable /\ tables'[b] = Renamed(tables[b], b)
         /\ tables'[b] # NoTable
         /\ \A k \in AllNames : k # n /\ k # b => tables'[k] = tables[k]
         /\ job' = [op |-> "alter", name |-> n, backup |-> b, todo |-> {}]
         /\ phase = "up" /\ phase' = "up" /\ job = Idle /\ kept' = GivenUp(n)
         /\ UNCHANGED <<now, twins, lostLabel, midCreate>>
<1>1. n \in AllNames /\ b \in AllNames /\ b[1] = n[1] /\ b[2] # 0 /\ b # n
  BY NameFacts, BackupFacts DEF TypeOK
<1>2. /\ tables[b] \in AnyTable /\ tables[b].stem \in AllNames
      /\ Flushed(n) \in [AllNames -> AnyFile]
  BY <1>1, StateFacts
<1>3. Renamed(tables[b], b) \in AnyTable /\ Renamed(tables[b], b) # NoTable
      /\ NoTable \in AnyTable
  BY <1>1, <1>2, RenamedFacts, TableFacts
<1>4. tables' = [tables EXCEPT ![n] = NoTable, ![b] = Renamed(tables[b], b)]
  BY DEF AlterCollides
<1>5. /\ tables' \in [AllNames -> AnyTable]
      /\ tables'[n] = NoTable /\ tables'[b] = Renamed(tables[b], b)
      /\ \A k \in AllNames : k # n /\ k # b => tables'[k] = tables[k]
  BY <1>1, <1>3, <1>4 DEF TypeOK
<1>6. files' \in [AllNames -> AnyFile]
  <2>1. \/ files' = Flushed(n)
        \/ files' = [Flushed(n) EXCEPT ![tables[b].stem] = NoFile,
                                       ![b] = Flushed(n)[tables[b].stem]]
    BY DEF AlterCollides, Moved
  <2>2. NoFile \in AnyFile /\ Flushed(n)[tables[b].stem] \in AnyFile
    BY <1>2, FileFacts
  <2>3. QED
    BY <1>1, <1>2, <2>1, <2>2
<1>7. QED
  BY <1>1, <1>3, <1>5, <1>6 DEF AlterCollides, Altered, Ready

\* ALTER finds the name of its backup taken: the earlier backup is as it was, and
\* the table is gone.
LEMMA AlterCollidesFacts ==
  ASSUME TypeOK, FilesLabelled, OneFilePerTable, TablesLabelled,
         NEW n \in PlainNames, AlterCollides(n)
  PROVE  /\ files' = Flushed(n)
         /\ \A k \in AllNames : IsEDB(k)' => tables'[k] = tables[k]
         /\ \A k \in AllNames \ {n} : IsEDB(k) => tables'[k] = tables[k]
<1>1. PICK b \in AllNames : b = Backup(n, now)
  BY NameFacts, BackupFacts DEF TypeOK
<1>2. /\ n \in AllNames /\ b[2] # 0 /\ b # n /\ tables'[n] = NoTable
      /\ tables'[b] = Renamed(tables[b], b)
      /\ \A k \in AllNames : k # n /\ k # b => tables'[k] = tables[k]
  BY <1>1, AlterCollidesType
<1>3. tables[b] \in AnyTable /\ Flushed(n) \in [AllNames -> AnyFile]
  BY <1>1, <1>2, StateFacts
<1>4. CASE ~IsEDB(b)
  <2>1. tables'[b] = Memory(b, tables[b].rows)
    BY <1>2, <1>3, <1>4, RenamedFacts DEF IsEDB
  <2>2. ~IsEDB(b)' /\ ~IsEDB(n)'
    BY <1>2, <1>3, <2>1, TableFacts DEF IsEDB
  <2>3. files' = Flushed(n)
    BY <1>1, <1>4 DEF AlterCollides
  <2>4. QED
    BY <1>2, <1>4, <2>2, <2>3
<1>5. CASE IsEDB(b)
  <2>1. tables[b].label = b /\ MayLabel(tables[b].stem, b)
    BY <1>1, <1>5 DEF OneFilePerTable, TablesLabelled
  <2>2. tables[b].stem = b
    BY <1>2, <1>3, <2>1, TableFacts, NameFacts DEF MayLabel
  <2>3. tables[b] = EDB(b, b)
    <3>1. PICK s, l \in AllNames : tables[b] = EDB(s, l)
      BY <1>3, <1>5, TableFacts DEF AnyTable, IsEDB
    <3>2. QED
      BY <3>1, <2>1, <2>2, TableFacts
  <2>4. tables'[b] = tables[b]
    BY <1>2, <1>3, <1>5, <2>3, RenamedFacts DEF IsEDB
  <2>5. files' = Moved(Flushed(n), b, b)
    BY <1>1, <1>5, <2>2 DEF AlterCollides
  <2>6. files' = Flushed(n)
    BY <1>3, <2>5, MovedToItself
  <2>7. ~IsEDB(n)'
    BY <1>2, TableFacts DEF IsEDB
  <2>8. QED
    BY <1>2, <2>4, <2>6, <2>7
<1>6. QED
  BY <1>4, <1>5

-----------------------------------------------------------------------------
(***************************************************************************)
(* The types.                                                              *)
(***************************************************************************)

\* The types hold at first.
LEMMA InitType == Init => TypeOK
<1> SUFFICES ASSUME Init PROVE TypeOK
  OBVIOUS
<1>1. tables \in [AllNames -> AnyTable] /\ files \in [AllNames -> AnyFile]
  BY TableFacts, FileFacts DEF Init
<1>2. kept \in [Names -> SUBSET Rows]
  BY DEF Init
<1>3. job \in Job /\ now \in 1..MaxTime
  BY IdleType, CatalogAssumption DEF Init
<1>4. QED
  BY <1>1, <1>2, <1>3 DEF Init, TypeOK

\* What is opened is a table for every label.
LEMMA OpenedFacts ==
  ASSUME TypeOK,
         NEW chosen \in SUBSET {f \in AllNames : files[f].state = "whole"},
         FirstOfEach(chosen), NEW n \in AllNames
  PROVE  /\ Opened(chosen) \in [AllNames -> AnyTable]
         /\ Labelled(n) = {} => Opened(chosen)[n] = NoTable
         /\ Labelled(n) # {} => \E f \in chosen : /\ files[f].label = n
                                                /\ Opened(chosen)[n] = EDB(f, n)
<1>1. ASSUME NEW m \in AllNames, Labelled(m) # {}
      PROVE  \E f \in chosen : files[f].label = m
  <2>2. Labelled(m) \cap chosen # {}
    BY <1>1 DEF FirstOfEach
  <2>3. QED
    BY <2>2 DEF Labelled
<1>2. ASSUME NEW m \in AllNames, Labelled(m) # {}
      PROVE  (CHOOSE f \in chosen : files[f].label = m) \in AllNames
  BY <1>1, <1>2
<1>3. Opened(chosen) \in [AllNames -> AnyTable]
  BY <1>2, TableFacts DEF Opened
<1>4. QED
  BY <1>1, <1>3 DEF Opened

\* No step leaves the types.
LEMMA TypeStep ==
  ASSUME TypeOK, [Next]_vars
  PROVE  TypeOK'
<1> USE StateFacts
<1>1. ASSUME NEW n \in PlainNames, StartCreate(n) PROVE TypeOK'
  BY <1>1, NameFacts, FileFacts, IdleType
     DEF StartCreate, Truncating, TypeOK, history, Job, Idle, Creating
<1>2. ASSUME NEW n \in PlainNames, CreateMemory(n) PROVE TypeOK'
  BY <1>2, NameFacts, TableFacts DEF CreateMemory, TypeOK, history
<1>3. ASSUME NEW n \in PlainNames, AlterRename(n) PROVE TypeOK'
  <2>1. n \in AllNames /\ Backup(n, now) \in AllNames
    BY NameFacts, BackupFacts DEF TypeOK
  <2> DEFINE b == Backup(n, now)
  <2>a. /\ EDB(b, b) \in AnyTable /\ Memory(b, tables[n].rows) \in AnyTable
        /\ NoTable \in AnyTable
    BY <2>1, TableFacts
  <2>b. tables \in [AllNames -> AnyTable] /\ files \in [AllNames -> AnyFile]
    BY DEF TypeOK
  <2>c. \/ tables' = [tables EXCEPT ![n] = NoTable, ![b] = EDB(b, b)]
        \/ tables' = [tables EXCEPT ![n] = NoTable, ![b] = Memory(b, tables[n].rows)]
    BY <1>3, AlterRenameFacts
  <2>d. \/ files' = [files EXCEPT ![tables[n].stem] = NoFile, ![b] = files[tables[n].stem]]
        \/ files' = files
    BY <1>3, AlterRenameFacts
  <2> HIDE DEF b
  <2>2. tables' \in [AllNames -> AnyTable]
    BY <2>a, <2>b, <2>c
  <2>e. files[tables[n].stem] \in AnyFile /\ NoFile \in AnyFile
    BY <2>1, FileFacts
  <2>3. files' \in [AllNames -> AnyFile]
    BY <2>b, <2>d, <2>e
  <2>4. job' \in Job
    BY <1>3, <2>1 DEF AlterRename, Altered, Job
  <2>5. QED
    BY <1>3, <2>2, <2>3, <2>4 DEF AlterRename, TypeOK, history
<1>4. ASSUME NEW n \in UserNames, Drop(n) PROVE TypeOK'
  BY <1>4, TableFacts, GivenUpType DEF Drop, TypeOK, UserNames
<1>5. ASSUME NEW n \in UserNames, Truncate(n) PROVE TypeOK'
  <2>1. n \in AllNames /\ tables[n].label \in AllNames
    BY DEF UserNames
  <2>2. kept' \in [Names -> SUBSET Rows]
    BY <1>5, <2>1, GivenUpType DEF Truncate
  <2> DEFINE name == tables[n].label
             rest == [tables EXCEPT ![n] = NoTable]
  <2>a. \/ tables' = rest
        \/ tables' = [rest EXCEPT ![name] = Memory(name, {})]
    BY <1>5 DEF Truncate
  <2>b. \/ files' = Flushed(n) \/ files' = files
        \/ files' = [Flushed(n) EXCEPT ![name] = Unfinished]
    BY <1>5 DEF Truncate
  <2>c. rest \in [AllNames -> AnyTable] /\ Memory(name, {}) \in AnyTable
    BY <2>1, TableFacts DEF TypeOK
  <2>d. Flushed(n) \in [AllNames -> AnyFile] /\ Unfinished \in AnyFile
    BY <2>1, FileFacts
  <2> HIDE DEF name, rest
  <2>3. tables' \in [AllNames -> AnyTable]
    BY <2>a, <2>c
  <2>4. files' \in [AllNames -> AnyFile]
    BY <2>b, <2>d DEF TypeOK
  <2>5. job' \in Job
    <3>1. job' = job \/ job' = [Idle EXCEPT !.op = "recreate", !.name = tables[n].label]
      BY <1>5 DEF Truncate
    <3>2. Idle \in Job
      BY IdleType
    <3> QED BY <2>1, <3>1, <3>2 DEF TypeOK, Job, Creating
  <2>6. QED
    BY <1>5, <2>2, <2>3, <2>4, <2>5 DEF Truncate, TypeOK
<1>6. ASSUME NEW n \in UserNames, NEW r \in Rows, Insert(n, r) PROVE TypeOK'
  <2>1. n \in AllNames
    BY DEF UserNames
  <2>2. CASE IsEDB(n)
    <3>a. File(tables[n].label, files[tables[n].stem].rows \cup {r}) \in AnyFile
      BY <2>1, FileFacts
    <3>b. files' = [files EXCEPT ![tables[n].stem] =
                      File(tables[n].label, files[tables[n].stem].rows \cup {r})]
      BY <1>6, <2>1, <2>2 DEF Insert, TypeOK
    <3>1. files' \in [AllNames -> AnyFile]
      BY <3>a, <3>b DEF TypeOK
    <3>2. kept' \in [Names -> SUBSET Rows]
      BY <1>6, <2>2 DEF Insert, TypeOK
    <3>3. QED
      BY <1>6, <2>2, <3>1, <3>2 DEF Insert, TypeOK
  <2>3. CASE ~IsEDB(n)
    <3>1. Memory(tables[n].label, tables[n].rows \cup {r}) \in AnyTable
      BY <2>1, TableFacts
    <3>2. tables' = [tables EXCEPT ![n] = Memory(tables[n].label, tables[n].rows \cup {r})]
      BY <1>6, <2>1, <2>3 DEF Insert, TypeOK
    <3>3. tables' \in [AllNames -> AnyTable]
      BY <3>1, <3>2 DEF TypeOK
    <3>4. QED
      BY <1>6, <2>3, <3>3 DEF Insert, TypeOK
  <2>4. QED
    BY <2>2, <2>3
<1>7. ASSUME NEW n \in PlainNames, NEW m \in UserNames, SelectInto(n, m) PROVE TypeOK'
  BY <1>7, NameFacts, TableFacts, GivenUpType DEF SelectInto, TypeOK, UserNames
<1>8. ASSUME NEW n \in PlainNames, NEW m \in UserNames, SelectNothingInto(n, m)
      PROVE  TypeOK'
  BY <1>8, NameFacts, TableFacts, GivenUpType
     DEF SelectNothingInto, LabelInMemory, TypeOK, UserNames
<1>9. ASSUME NEW r \in Rows, CopyRow(r) PROVE TypeOK'
  <2>1. job.name \in AllNames
    BY DEF TypeOK, Job
  <2>2. job' \in Job
    BY <1>9 DEF CopyRow, TypeOK, Job
  <2> DEFINE n == job.name
  <2>z. ASSUME NEW k \in AllNames
        PROVE  /\ File(tables[k].label, files[tables[k].stem].rows \cup {r}) \in AnyFile
               /\ Memory(tables[k].label, tables[k].rows \cup {r}) \in AnyTable
    <3>1. tables[k] \in AnyTable
      BY DEF TypeOK
    <3>2. /\ tables[k].stem \in AllNames /\ tables[k].label \in AllNames
          /\ tables[k].rows \cup {r} \in SUBSET Rows
      BY <3>1, TableFacts
    <3>3. files[tables[k].stem] \in AnyFile
      BY <3>2 DEF TypeOK
    <3>4. files[tables[k].stem].rows \cup {r} \in SUBSET Rows
      BY <3>3, FileFacts
    <3>5. File(tables[k].label, files[tables[k].stem].rows \cup {r}) \in AnyFile
      BY <3>2, <3>4, FileFacts
    <3>6. Memory(tables[k].label, tables[k].rows \cup {r}) \in AnyTable
      BY <3>2, TableFacts
    <3>7. QED
      BY <3>5, <3>6
  <2>a. /\ File(tables[n].label, files[tables[n].stem].rows \cup {r}) \in AnyFile
        /\ Memory(tables[n].label, tables[n].rows \cup {r}) \in AnyTable
    BY <2>1, <2>z
  <2>b. \/ UNCHANGED tables
        \/ tables' = [tables EXCEPT ![n] = Memory(tables[n].label, tables[n].rows \cup {r})]
    BY <1>9, <2>1 DEF CopyRow, TypeOK
  <2>c. \/ UNCHANGED files
        \/ files' = [files EXCEPT ![tables[n].stem] =
                       File(tables[n].label, files[tables[n].stem].rows \cup {r})]
    BY <1>9, <2>1 DEF CopyRow, TypeOK
  <2> HIDE DEF n
  <2>3. tables' \in [AllNames -> AnyTable] /\ files' \in [AllNames -> AnyFile]
    BY <2>a, <2>b, <2>c DEF TypeOK
  <2>4. QED
    BY <1>9, <2>2, <2>3 DEF CopyRow, TypeOK, history
<1>10. ASSUME FinishCreate PROVE TypeOK'
  <2>1. job.name \in AllNames /\ job.backup \in AllNames
    BY DEF TypeOK, Job
  <2>2. job' \in Job
    BY <1>10, <2>1, IdleType DEF FinishCreate, AfterCreate, TypeOK, Job
  <2>3. tables' \in [AllNames -> AnyTable] /\ files' \in [AllNames -> AnyFile]
    BY <1>10, <2>1, TableFacts, FileFacts DEF FinishCreate, TypeOK
  <2>4. QED
    BY <1>10, <2>2, <2>3 DEF FinishCreate, TypeOK, history
<1>11. ASSUME TooManyColumns PROVE TypeOK'
  <2>1. job.name \in AllNames
    BY DEF TypeOK, Job
  <2>2. File(Nameless, {}) \in AnyFile
    BY NameFacts, FileFacts
  <2>3. files' \in [AllNames -> AnyFile]
    BY <1>11, <2>1, <2>2 DEF TooManyColumns, TypeOK
  <2>4. job' \in Job
    BY <1>11, IdleType DEF TooManyColumns
  <2>5. UNCHANGED <<tables, now, phase, history>>
    BY <1>11 DEF TooManyColumns
  <2>6. QED
    BY <2>3, <2>4, <2>5 DEF TypeOK, history
<1>12. ASSUME AlterCreate PROVE TypeOK'
  <2>1. job.name \in AllNames /\ job.backup \in AllNames
    BY DEF TypeOK, Job
  <2>a. \/ job' = [job EXCEPT !.op = "alter-file"]
        \/ job' = [job EXCEPT !.op = "copy", !.todo = RowsOf(job.backup)]
    BY <1>12 DEF AlterCreate
  <2>2. job' \in Job
    <3>1. job \in Job /\ RowsOf(job.backup) \in SUBSET Rows
      BY <2>1 DEF TypeOK
    <3>2. [job EXCEPT !.op = "alter-file"] \in Job
      BY <3>1 DEF Job, Creating
    <3>3. [job EXCEPT !.op = "copy", !.todo = RowsOf(job.backup)] \in Job
      BY <3>1 DEF Job
    <3> QED BY <2>a, <3>2, <3>3
  <2>b. Memory(job.name, {}) \in AnyTable /\ Unfinished \in AnyFile
    BY <2>1, TableFacts, FileFacts
  <2>c. \/ UNCHANGED tables
        \/ tables' = [tables EXCEPT ![job.name] = Memory(job.name, {})]
    BY <1>12 DEF AlterCreate
  <2>d. \/ UNCHANGED files
        \/ files' = [files EXCEPT ![job.name] = Unfinished]
    BY <1>12 DEF AlterCreate, Truncating
  <2>3. tables' \in [AllNames -> AnyTable] /\ files' \in [AllNames -> AnyFile]
    BY <2>b, <2>c, <2>d DEF TypeOK
  <2>4. QED
    BY <1>12, <2>2, <2>3 DEF AlterCreate, TypeOK, history
<1>13. ASSUME CopyFails PROVE TypeOK'
  BY <1>13, IdleType DEF CopyFails, TypeOK, history
<1>14. ASSUME AlterEnd PROVE TypeOK'
  <2>1. job.backup \in AllNames
    BY DEF TypeOK, Job
  <2>2. QED
    BY <1>14, <2>1, IdleType, TableFacts DEF AlterEnd, TypeOK, history
<1>15. ASSUME Tick PROVE TypeOK'
  BY <1>15, CatalogAssumption DEF Tick, TypeOK, history
<1>16. ASSUME Close PROVE TypeOK'
  <2>a. ASSUME NEW f \in AllNames, \E n \in AllNames : IsEDB(n) /\ tables[n].stem = f
        PROVE  File(tables[CHOOSE n \in AllNames : IsEDB(n) /\ tables[n].stem = f].label,
                    files[f].rows) \in AnyFile
    <3> DEFINE k == CHOOSE n \in AllNames : IsEDB(n) /\ tables[n].stem = f
    <3>1. k \in AllNames
      BY <2>a
    <3> HIDE DEF k
    <3>2. File(tables[k].label, files[f].rows) \in AnyFile
      BY <3>1, FileFacts
    <3>3. QED
      BY <3>2 DEF k
  <2>1. files' \in [AllNames -> AnyFile]
    BY <1>16, <2>a DEF Close, TypeOK
  <2>2. QED
    BY <1>16, <2>1, TableFacts DEF Close, TypeOK, history
<1>17. ASSUME Crash PROVE TypeOK'
  BY <1>17, IdleType, TableFacts DEF Crash, TypeOK, LabelInMemory
<1>18. ASSUME Open PROVE TypeOK'
  <2>a. ASSUME NEW chosen \in SUBSET {f \in AllNames : files[f].state = "whole"},
               FirstOfEach(chosen)
        PROVE  Opened(chosen) \in [AllNames -> AnyTable]
    BY <2>a, OpenedFacts, NameFacts
  <2>1. tables' \in [AllNames -> AnyTable]
    BY <1>18, <2>a DEF Open, TypeOK
  <2>2. QED
    BY <1>18, <2>1 DEF Open, TypeOK
<1>19. CASE UNCHANGED vars
  BY <1>19 DEF vars, history, TypeOK
<1>20. ASSUME NEW n \in PlainNames, AlterCollides(n) PROVE TypeOK'
  <2>1. PICK b \in AllNames : b = Backup(n, now)
    BY NameFacts, BackupFacts DEF TypeOK
  <2>2. job' \in Job
    BY <1>20, <2>1, AlterCollidesType DEF Job
  <2>3. kept' \in [Names -> SUBSET Rows]
    BY <1>20, <2>1, AlterCollidesType, GivenUpType
  <2>4. QED
    BY <1>20, <2>1, <2>2, <2>3, AlterCollidesType DEF TypeOK
<1>21. QED
  BY <1>1, <1>2, <1>3, <1>4, <1>5, <1>6, <1>7, <1>8, <1>9, <1>10, <1>11, <1>12, <1>13,
     <1>14, <1>15, <1>16, <1>17, <1>18, <1>19, <1>20 DEF Next

-----------------------------------------------------------------------------
(***************************************************************************)
(* Names, files and labels.                                                *)
(***************************************************************************)
Shape == FilesLabelled /\ OneFilePerTable /\ TablesLabelled

\* Steps that open no file: file-backed tables stay as they are or go, and a
\* file stays as it is, gets the label of its table, or belongs to no table.
LEMMA LabelsKept ==
  ASSUME TypeOK, Shape, LabelsInv, twins' = twins, lostLabel => lostLabel',
         \A k \in AllNames : IsEDB(k)' => tables'[k] = tables[k],
         \A f \in AllNames :
           \/ /\ files'[f] = files[f]
              /\ ~lostLabel' /\ IsEDB(f) /\ tables[f].stem = f
                   => tables'[f] = tables[f] \/ files[f].label = f
           \/ \E k \in AllNames : /\ IsEDB(k) /\ tables[k].stem = f
                                  /\ files'[f].state = "whole" /\ files'[f].label = k
           \/ /\ \A k \in AllNames : IsEDB(k)' => tables[k].stem # f
              /\ files'[f].state = "whole" => files'[f].label = Nameless /\ f[2] = 0
  PROVE  Shape' /\ LabelsInv'
<1>1. \A k \in AllNames : IsEDB(k)' => IsEDB(k)
  BY DEF IsEDB
<1>2. \A k \in AllNames : IsEDB(k) => tables[k].stem \in AllNames
  BY StateFacts
<1>3. FilesLabelled'
  BY DEF FilesLabelled, TablesLabelled, Shape, MayLabel
<1>4. OneFilePerTable'
  BY <1>1, <1>2 DEF OneFilePerTable, Shape
<1>5. TablesLabelled'
  BY <1>1, <1>2 DEF OneFilePerTable, TablesLabelled, Shape
<1>6. ASSUME ~lostLabel' PROVE LabelsInv'
  <2>1. ~lostLabel
    BY <1>6
  <2>2. \A n \in AllNames : IsEDB(n)' => n = Nameless \/ tables'[n].stem = n
    BY <2>1, <1>1 DEF LabelsInv
  <2>3. ASSUME NEW f \in AllNames, files'[f].state = "whole"
        PROVE  files'[f].label \in {f, Nameless} \/ (IsEDB(f)' /\ tables'[f].stem = f)
    <3>1. CASE /\ files'[f] = files[f]
               /\ ~lostLabel' /\ IsEDB(f) /\ tables[f].stem = f
                    => tables'[f] = tables[f] \/ files[f].label = f
      BY <1>6, <2>1, <2>3, <3>1 DEF LabelsInv, IsEDB
    <3>2. CASE \E k \in AllNames : /\ IsEDB(k) /\ tables[k].stem = f
                                   /\ files'[f].state = "whole" /\ files'[f].label = k
      BY <2>1, <3>2 DEF LabelsInv
    <3>3. CASE files'[f].state = "whole" => files'[f].label = Nameless /\ f[2] = 0
      BY <2>3, <3>3
    <3>4. QED
      BY <3>1, <3>2, <3>3
  <2>4. twins' \subseteq {Nameless}
    BY <2>1 DEF LabelsInv
  <2>5. QED
    BY <2>2, <2>3, <2>4 DEF LabelsInv
<1>7. QED
  BY <1>3, <1>4, <1>5, <1>6 DEF Shape, LabelsInv

\* Flushing writes the name of the table into its file.
LEMMA FlushedFacts ==
  ASSUME TypeOK, OneFilePerTable, NEW n \in AllNames, NEW f \in AllNames
  PROVE  Flushed(n)[f] = IF IsEDB(n) /\ tables[n].stem = f
                           THEN File(n, files[f].rows) ELSE files[f]
<1>1. IsEDB(n) => tables[n].label = n
  BY DEF OneFilePerTable
<1>2. tables[n].stem \in AllNames /\ files \in [AllNames -> AnyFile]
  BY StateFacts DEF TypeOK
<1>3. QED
  BY <1>1, <1>2 DEF Flushed

\* A table goes, or another one in memory takes its place.
LEMMA LabelsKeptWithout ==
  ASSUME TypeOK, Shape, LabelsInv, NEW n \in AllNames,
         twins' = twins, lostLabel' = lostLabel, files' = Flushed(n),
         \A k \in AllNames : IsEDB(k)' => tables'[k] = tables[k],
         \A k \in AllNames \ {n} : IsEDB(k) => tables'[k] = tables[k]
  PROVE  Shape' /\ LabelsInv'
<1>1. ASSUME NEW f \in AllNames
      PROVE  \/ /\ files'[f] = files[f]
                /\ ~lostLabel' /\ IsEDB(f) /\ tables[f].stem = f
                     => tables'[f] = tables[f] \/ files[f].label = f
             \/ \E k \in AllNames : /\ IsEDB(k) /\ tables[k].stem = f
                                    /\ files'[f].state = "whole" /\ files'[f].label = k
  <2>1. OneFilePerTable
    BY DEF Shape
  <2>2. CASE IsEDB(n) /\ tables[n].stem = f
    <3>1. files'[f] = File(n, files[f].rows)
      BY <2>1, <2>2, FlushedFacts
    <3>2. files[f].rows \in SUBSET Rows
      BY StateFacts
    <3>3. files'[f].state = "whole" /\ files'[f].label = n
      BY <3>1, <3>2, FileFacts
    <3>4. QED
      BY <2>2, <3>3
  <2>3. CASE ~(IsEDB(n) /\ tables[n].stem = f)
    <3>1. files'[f] = files[f]
      BY <2>1, <2>3, FlushedFacts
    <3>2. QED
      BY <2>3, <3>1
  <2>4. QED
    BY <2>2, <2>3
<1>2. QED
  BY <1>1, LabelsKept

\* A table is opened on a new file of its name.
LEMMA LabelsKeptWithNew ==
  ASSUME TypeOK, Shape, LabelsInv, NEW n \in AllNames,
         twins' = twins, lostLabel' = lostLabel,
         tables' = [tables EXCEPT ![n] = EDB(n, n)],
         files' = [files EXCEPT ![n] = File(n, {})],
         \A k \in AllNames : IsEDB(k) => tables[k].stem # n
  PROVE  Shape' /\ LabelsInv'
<1>1. /\ \A k \in AllNames : tables'[k] = IF k = n THEN EDB(n, n) ELSE tables[k]
      /\ \A f \in AllNames : files'[f] = IF f = n THEN File(n, {}) ELSE files[f]
  BY DEF TypeOK
<1>2. EDB(n, n).engine = "EDB" /\ EDB(n, n).stem = n /\ EDB(n, n).label = n
  BY TableFacts
<1>3. File(n, {}).state = "whole" /\ File(n, {}).label = n
  BY FileFacts
<1>4. \A k \in AllNames : IsEDB(k) => tables[k].stem \in AllNames
  BY StateFacts
<1>5. \A k \in AllNames : IsEDB(k)' => k = n \/ (k # n /\ IsEDB(k))
  BY <1>1 DEF IsEDB
<1>6. FilesLabelled'
  BY <1>1, <1>3 DEF FilesLabelled, Shape, MayLabel
<1>7. OneFilePerTable'
  BY <1>1, <1>2, <1>3, <1>4, <1>5 DEF OneFilePerTable, Shape
<1>8. TablesLabelled'
  BY <1>1, <1>2, <1>3, <1>4, <1>5 DEF TablesLabelled, Shape, MayLabel
<1>9. LabelsInv'
  BY <1>1, <1>2, <1>3, <1>5 DEF LabelsInv, IsEDB
<1>10. QED
  BY <1>6, <1>7, <1>8, <1>9 DEF Shape

\* ALTER moves a file to the name of the backup.
LEMMA LabelsKeptAtRename ==
  ASSUME TypeOK, Shape, LabelsInv, NEW n \in PlainNames, IsEDB(n), AlterRename(n)
  PROVE  Shape' /\ LabelsInv'
<1> DEFINE b == Backup(n, now)
           s == tables[n].stem
<1>1. /\ n \in AllNames /\ n # Nameless /\ n[1] \in Names /\ n = Plain(n[1])
      /\ b \in AllNames /\ b[1] = n[1] /\ b[2] # 0 /\ b # n
      /\ s \in AllNames
  BY NameFacts, BackupFacts, StateFacts DEF TypeOK
<1>2. ~Exists(b) /\ ~IsEDB(b)
  BY <1>1, StateFacts, AlterRenameFacts
<1>3. /\ tables' = [tables EXCEPT ![n] = NoTable, ![b] = EDB(b, b)]
      /\ files' = [files EXCEPT ![s] = NoFile, ![b] = files[s]]
      /\ twins' = twins /\ lostLabel' = lostLabel
  BY AlterRenameFacts DEF AlterRename, history
<1> HIDE DEF b, s
<1>4. /\ \A k \in AllNames : tables'[k] = IF k = b THEN EDB(b, b)
                                          ELSE IF k = n THEN NoTable ELSE tables[k]
      /\ \A f \in AllNames : files'[f] = IF f = b THEN files[s]
                                         ELSE IF f = s THEN NoFile ELSE files[f]
  BY <1>1, <1>3 DEF TypeOK
<1>5. /\ EDB(b, b).engine = "EDB" /\ EDB(b, b).stem = b /\ EDB(b, b).label = b
      /\ NoTable.engine = "none" /\ NoFile.state = "absent"
  BY <1>1, TableFacts, FileFacts
<1>6. \A k \in AllNames : IsEDB(k)' => k = b \/ (k # b /\ k # n /\ IsEDB(k))
  BY <1>4, <1>5 DEF IsEDB
<1>7. files[s].state = "whole" /\ files[s].label = n
  BY <1>1 DEF Shape, OneFilePerTable, TablesLabelled, s
<1>8. ASSUME NEW k \in AllNames, IsEDB(k), k # n
      PROVE  tables[k].stem \in AllNames /\ tables[k].stem # s /\ tables[k].stem # b
  <2>1. tables[k].stem \in AllNames
    BY StateFacts
  <2>2. tables[k].stem # s
    BY <1>1, <1>8 DEF Shape, OneFilePerTable, s
  <2>3. MayLabel(tables[k].stem, k) /\ k # b
    BY <1>2, <1>8 DEF Shape, TablesLabelled
  <2>4. QED
    BY <1>1, <1>8, <2>1, <2>2, <2>3 DEF MayLabel
<1>9. FilesLabelled'
  BY <1>1, <1>4, <1>5, <1>7 DEF FilesLabelled, Shape, MayLabel
<1>10. OneFilePerTable'
  BY <1>1, <1>4, <1>5, <1>6, <1>7, <1>8 DEF OneFilePerTable, Shape
<1>11. TablesLabelled'
  BY <1>1, <1>4, <1>5, <1>6, <1>7, <1>8 DEF TablesLabelled, Shape, MayLabel
<1>12. LabelsInv'
  <2>1. SUFFICES ASSUME ~lostLabel PROVE LabelsInv'
    BY <1>3 DEF LabelsInv
  <2>2. s = n
    BY <1>1, <2>1 DEF LabelsInv, s
  <2>3. \A k \in AllNames : IsEDB(k)' => k = Nameless \/ tables'[k].stem = k
    BY <1>4, <1>5, <1>6, <2>1 DEF LabelsInv
  <2>4. ASSUME NEW f \in AllNames, files'[f].state = "whole"
        PROVE  files'[f].label \in {f, Nameless} \/ (IsEDB(f)' /\ tables'[f].stem = f)
    <3>1. CASE f = b
      BY <1>4, <1>5, <3>1 DEF IsEDB
    <3>2. CASE f # b /\ f # n
      BY <1>4, <2>1, <2>2, <2>4, <3>2 DEF LabelsInv, IsEDB
    <3>3. CASE f # b /\ f = n
      BY <1>4, <1>5, <2>2, <2>4, <3>3
    <3>4. QED
      BY <3>1, <3>2, <3>3
  <2>5. QED
    BY <1>3, <2>1, <2>3, <2>4 DEF LabelsInv
<1>13. QED
  BY <1>9, <1>10, <1>11, <1>12 DEF Shape

\* The tables of a directory that is opened are known by the labels.
LEMMA LabelsOpened ==
  ASSUME TypeOK, Shape, LabelsInv, Open, phase # "up" => \A n \in AllNames : tables[n] = NoTable
  PROVE  Shape' /\ LabelsInv'
<1>1. files' = files /\ lostLabel' = lostLabel /\ phase # "up"
  BY DEF Open
<1>2. \A n \in AllNames : ~IsEDB(n)
  BY <1>1, TableFacts DEF IsEDB
<1>3. CASE tables' = tables /\ twins' = twins
  BY <1>1, <1>3, LabelsKept
<1>4. ASSUME NEW chosen \in SUBSET {f \in AllNames : files[f].state = "whole"},
             FirstOfEach(chosen), tables' = Opened(chosen),
             twins' = twins \cup {n \in AllNames : \E f, g \in Labelled(n) : f # g}
      PROVE  Shape' /\ LabelsInv'
  <2>1. ASSUME NEW n \in AllNames, IsEDB(n)'
        PROVE  /\ tables'[n].stem \in AllNames /\ tables'[n].label = n
               /\ files[tables'[n].stem].state = "whole"
               /\ files[tables'[n].stem].label = n
    <3>1. Labelled(n) # {}
      BY <1>4, <2>1, OpenedFacts, TableFacts DEF IsEDB
    <3>2. PICK f \in chosen : files[f].label = n /\ tables'[n] = EDB(f, n)
      BY <1>4, <3>1, OpenedFacts
    <3>3. QED
      BY <3>2, TableFacts
  <2>2. FilesLabelled' /\ OneFilePerTable' /\ TablesLabelled'
    BY <1>1, <2>1 DEF FilesLabelled, OneFilePerTable, TablesLabelled, Shape
  <2>3. LabelsInv'
    <3>1. SUFFICES ASSUME ~lostLabel PROVE LabelsInv'
      BY <1>1 DEF LabelsInv
    <3>2. \A f \in AllNames : files[f].state = "whole" => files[f].label \in {f, Nameless}
      BY <1>2, <3>1 DEF LabelsInv
    <3>3. twins' \subseteq {Nameless}
      BY <1>4, <3>1, <3>2 DEF LabelsInv, Labelled
    <3>4. QED
      BY <1>1, <2>1, <3>2, <3>3 DEF LabelsInv
  <2>4. QED
    BY <2>2, <2>3 DEF Shape
<1>5. QED
  BY <1>3, <1>4 DEF Open

\* Only tables in memory come, go or change.
LEMMA LabelsKeptInMemory ==
  ASSUME TypeOK, Shape, LabelsInv, twins' = twins, lostLabel' = lostLabel, files' = files,
         \A k \in AllNames : IsEDB(k) \/ IsEDB(k)' => tables'[k] = tables[k]
  PROVE  Shape' /\ LabelsInv'
BY LabelsKept

\* A row is put into a file.
LEMMA LabelsKeptByRow ==
  ASSUME TypeOK, Shape, LabelsInv, twins' = twins, lostLabel' = lostLabel, tables' = tables,
         NEW n \in AllNames, IsEDB(n), NEW rows \in SUBSET Rows,
         files' = [files EXCEPT ![tables[n].stem] = File(tables[n].label, rows)]
  PROVE  Shape' /\ LabelsInv'
<1>1. tables[n].label = n /\ tables[n].stem \in AllNames
  BY StateFacts DEF Shape, OneFilePerTable
<1>2. File(n, rows).state = "whole" /\ File(n, rows).label = n
  BY FileFacts
<1>3. \A f \in AllNames : files'[f] = IF f = tables[n].stem THEN File(n, rows) ELSE files[f]
  BY <1>1 DEF TypeOK
<1>4. QED
  BY <1>2, <1>3, LabelsKept

\* A file that no table has is truncated, or is left without a name.
LEMMA LabelsKeptByFile ==
  ASSUME TypeOK, Shape, LabelsInv, twins' = twins, lostLabel' = lostLabel, tables' = tables,
         NEW n \in AllNames, \A k \in AllNames : IsEDB(k) => tables[k].stem # n,
         \/ files' = [files EXCEPT ![n] = Unfinished]
         \/ n[2] = 0 /\ files' = [files EXCEPT ![n] = File(Nameless, {})]
  PROVE  Shape' /\ LabelsInv'
<1>1. /\ Unfinished.state = "unfinished"
      /\ File(Nameless, {}).state = "whole" /\ File(Nameless, {}).label = Nameless
  BY FileFacts, NameFacts
<1>2. \A f \in AllNames \ {n} : files'[f] = files[f]
  BY DEF TypeOK
<1>3. files'[n].state = "whole" => files'[n].label = Nameless /\ n[2] = 0
  BY <1>1 DEF TypeOK
<1>4. \A k \in AllNames : IsEDB(k)' = IsEDB(k)
  BY DEF IsEDB
<1>5. QED
  BY <1>2, <1>3, <1>4, LabelsKept

\* Where a table may be created no other table has its file.
LEMMA StemIsFree ==
  ASSUME TypeOK, Shape, NEW n \in AllNames, n # Nameless, ~FileOfNameless(n),
         IsEDB(n) \/ n[2] = 0
  PROVE  \A k \in AllNames \ {n} : IsEDB(k) => tables[k].stem # n
<1> SUFFICES ASSUME NEW k \in AllNames \ {n}, IsEDB(k), tables[k].stem = n PROVE FALSE
  OBVIOUS
<1>1. MayLabel(n, k)
  BY DEF Shape, TablesLabelled
<1>2. k # Nameless
  BY DEF FileOfNameless
<1>3. IsEDB(n) /\ n[2] # 0
  BY <1>1, <1>2 DEF MayLabel
<1>4. tables[n].stem \in AllNames /\ tables[n].stem # n
  BY <1>3, StateFacts DEF Shape, OneFilePerTable
<1>5. MayLabel(tables[n].stem, n)
  BY <1>3 DEF Shape, TablesLabelled
<1>6. tables[n].stem[1] \in Bases
  BY <1>4, NameFacts
<1>7. QED
  BY <1>3, <1>4, <1>5, <1>6, NameFacts DEF MayLabel

\* Every step keeps names, files and labels in order.
LEMMA LabelsStep ==
  ASSUME TypeOK, Shape, LabelsInv, JobInv, [Next]_vars
  PROVE  Shape' /\ LabelsInv'
<1>1. ASSUME NEW n \in PlainNames, StartCreate(n) PROVE Shape' /\ LabelsInv'
  <2>1. n \in AllNames /\ n # Nameless /\ n[2] = 0
    BY NameFacts
  <2>2. ~FileOfNameless(n) /\ ~IsEDB(n)
    BY <1>1, <2>1, StateFacts DEF StartCreate, Truncating
  <2>3. \A k \in AllNames : IsEDB(k) => tables[k].stem # n
    BY <2>1, <2>2, StemIsFree
  <2>4. QED
    BY <1>1, <2>1, <2>3, LabelsKeptByFile DEF StartCreate, Truncating, history
<1>2. ASSUME NEW n \in PlainNames, CreateMemory(n) PROVE Shape' /\ LabelsInv'
  <2>1. n \in AllNames /\ ~IsEDB(n)
    BY <1>2, NameFacts, StateFacts DEF CreateMemory
  <2>2. \A k \in AllNames : IsEDB(k) \/ IsEDB(k)' => tables'[k] = tables[k]
    BY <1>2, <2>1, TableFacts DEF CreateMemory, IsEDB, TypeOK
  <2>3. QED
    BY <1>2, <2>2, LabelsKeptInMemory DEF CreateMemory, history
<1>3. ASSUME NEW n \in PlainNames, AlterRename(n) PROVE Shape' /\ LabelsInv'
  <2>1. CASE IsEDB(n)
    BY <1>3, <2>1, LabelsKeptAtRename
  <2>2. CASE ~IsEDB(n)
    <3> DEFINE b == Backup(n, now)
    <3>1. n \in AllNames /\ b \in AllNames
      BY NameFacts, BackupFacts DEF TypeOK
    <3>2. ~IsEDB(b)
      BY <1>3, <3>1, StateFacts, AlterRenameFacts
    <3>3. tables' = [tables EXCEPT ![n] = NoTable, ![b] = Memory(b, tables[n].rows)]
      BY <1>3, <2>2, AlterRenameFacts
    <3>4. files' = files /\ twins' = twins /\ lostLabel' = lostLabel
      BY <1>3, <2>2, AlterRenameFacts DEF AlterRename, history
    <3>5. NoTable.engine = "none" /\ Memory(b, tables[n].rows).engine = "Memory"
      BY <3>1, TableFacts, StateFacts
    <3> HIDE DEF b
    <3>6. \A k \in AllNames : IsEDB(k) \/ IsEDB(k)' => tables'[k] = tables[k]
      BY <2>2, <3>1, <3>2, <3>3, <3>5 DEF IsEDB, TypeOK
    <3>7. QED
      BY <3>4, <3>6, LabelsKeptInMemory
  <2>3. QED
    BY <2>1, <2>2
<1>4. ASSUME NEW n \in UserNames, Drop(n) PROVE Shape' /\ LabelsInv'
  <2>1. n \in AllNames
    BY DEF UserNames
  <2>2. /\ \A k \in AllNames : IsEDB(k)' => tables'[k] = tables[k]
        /\ \A k \in AllNames \ {n} : IsEDB(k) => tables'[k] = tables[k]
    BY <1>4, <2>1, TableFacts DEF Drop, IsEDB, TypeOK
  <2>3. QED
    BY <1>4, <2>1, <2>2, LabelsKeptWithout DEF Drop
<1>5. ASSUME NEW n \in UserNames, Truncate(n) PROVE Shape' /\ LabelsInv'
  <2> DEFINE name == tables[n].label
             rest == [tables EXCEPT ![n] = NoTable]
  <2>1. n \in AllNames /\ n # Nameless /\ name \in AllNames
    BY StateFacts, NameFacts DEF UserNames
  <2>2. twins' = twins /\ lostLabel' = lostLabel
    BY <1>5 DEF Truncate
  <2>3. /\ \A k \in AllNames : rest[k] = IF k = n THEN NoTable ELSE tables[k]
        /\ rest \in [AllNames -> AnyTable]
    BY <2>1, TableFacts DEF TypeOK
  <2>4. NoTable.engine = "none" /\ Memory(name, {}).engine = "Memory"
    BY <2>1, TableFacts
  <2>5. CASE rest[name] # NoTable
    <3>1. tables' = rest /\ files' = Flushed(n)
      BY <1>5, <2>5 DEF Truncate
    <3> HIDE DEF rest
    <3>2. /\ \A k \in AllNames : IsEDB(k)' => tables'[k] = tables[k]
          /\ \A k \in AllNames \ {n} : IsEDB(k) => tables'[k] = tables[k]
      BY <2>3, <2>4, <3>1 DEF IsEDB
    <3>3. QED
      BY <2>1, <2>2, <3>1, <3>2, LabelsKeptWithout
  <2>6. CASE rest[name] = NoTable /\ IsEDB(n)
    <3>1. name = n
      BY <2>1, <2>6 DEF Shape, OneFilePerTable
    <3>2. /\ ~FileOfNameless(n) /\ tables' = rest
          /\ files' = [Flushed(n) EXCEPT ![n] = Unfinished]
      BY <1>5, <2>6, <3>1 DEF Truncate
    <3> HIDE DEF rest, name
    <3>3. \A k \in AllNames \ {n} : IsEDB(k) => tables[k].stem # n
      BY <2>1, <2>6, <3>2, StemIsFree
    <3>4. \A k \in AllNames : IsEDB(k)' => k # n /\ IsEDB(k) /\ tables'[k] = tables[k]
      BY <2>3, <2>4, <3>2 DEF IsEDB
    <3>5. \A f \in AllNames : files'[f] = IF f = n THEN Unfinished ELSE Flushed(n)[f]
      BY <2>1, <3>2, StateFacts
    <3>6. files'[n].state = "unfinished"
      BY <2>1, <3>5, FileFacts
    <3>7. ASSUME NEW f \in AllNames \ {n}
          PROVE  \/ /\ files'[f] = files[f]
                    /\ ~lostLabel' /\ IsEDB(f) /\ tables[f].stem = f
                         => tables'[f] = tables[f] \/ files[f].label = f
                 \/ \E k \in AllNames :
                      /\ IsEDB(k) /\ tables[k].stem = f
                      /\ files'[f].state = "whole" /\ files'[f].label = k
      <4>1. files'[f] = IF IsEDB(n) /\ tables[n].stem = f
                          THEN File(n, files[f].rows) ELSE files[f]
        BY <2>1, <3>5, FlushedFacts DEF Shape
      <4>2. files[f].rows \in SUBSET Rows /\ tables'[f] = tables[f]
        BY <2>3, <3>2, StateFacts
      <4>3. File(n, files[f].rows).state = "whole" /\ File(n, files[f].rows).label = n
        BY <2>1, <4>2, FileFacts
      <4>4. QED
        BY <2>1, <2>6, <4>1, <4>2, <4>3
    <3>8. \A k \in AllNames : IsEDB(k)' => tables[k].stem # n
      BY <3>3, <3>4
    <3>9. QED
      BY <2>2, <3>4, <3>6, <3>7, <3>8, LabelsKept
  <2>7. CASE rest[name] = NoTable /\ ~IsEDB(n)
    <3>1. tables' = [rest EXCEPT ![name] = Memory(name, {})] /\ files' = files
      BY <1>5, <2>7 DEF Truncate
    <3> HIDE DEF rest, name
    <3>2. \A k \in AllNames : IsEDB(k) \/ IsEDB(k)' => tables'[k] = tables[k]
      BY <2>1, <2>3, <2>4, <2>7, <3>1 DEF IsEDB
    <3>3. QED
      BY <2>2, <3>1, <3>2, LabelsKeptInMemory
  <2>8. QED
    BY <2>5, <2>6, <2>7
<1>6. ASSUME NEW n \in UserNames, NEW r \in Rows, Insert(n, r) PROVE Shape' /\ LabelsInv'
  <2>1. n \in AllNames
    BY DEF UserNames
  <2>2. CASE IsEDB(n)
    <3>1. files[tables[n].stem].rows \cup {r} \in SUBSET Rows
      BY <2>1, StateFacts
    <3>2. /\ tables' = tables /\ twins' = twins /\ lostLabel' = lostLabel
          /\ files' = [files EXCEPT ![tables[n].stem] =
                         File(tables[n].label, files[tables[n].stem].rows \cup {r})]
      BY <1>6, <2>1, <2>2, StateFacts DEF Insert, TypeOK
    <3>3. QED
      BY <2>1, <2>2, <3>1, <3>2, LabelsKeptByRow
  <2>3. CASE ~IsEDB(n)
    <3>1. /\ tables' = [tables EXCEPT ![n] = Memory(tables[n].label, tables[n].rows \cup {r})]
          /\ files' = files /\ twins' = twins /\ lostLabel' = lostLabel
      BY <1>6, <2>1, <2>3 DEF Insert, TypeOK
    <3>2. Memory(tables[n].label, tables[n].rows \cup {r}).engine = "Memory"
      BY <2>1, StateFacts, TableFacts
    <3>3. \A k \in AllNames : IsEDB(k) \/ IsEDB(k)' => tables'[k] = tables[k]
      BY <2>1, <2>3, <3>1, <3>2 DEF IsEDB, TypeOK
    <3>4. QED
      BY <3>1, <3>3, LabelsKeptInMemory
  <2>4. QED
    BY <2>2, <2>3
<1>7. ASSUME NEW n \in PlainNames, NEW m \in UserNames, SelectInto(n, m)
      PROVE  Shape' /\ LabelsInv'
  <2>1. n \in AllNames /\ m \in AllNames /\ SelectResult \in AllNames
    BY NameFacts DEF UserNames
  <2>2. Memory(SelectResult, RowsOf(m)).engine = "Memory"
    BY <2>1, TableFacts, StateFacts
  <2>3. /\ \A k \in AllNames : IsEDB(k)' => tables'[k] = tables[k]
        /\ \A k \in AllNames \ {n} : IsEDB(k) => tables'[k] = tables[k]
    BY <1>7, <2>1, <2>2 DEF SelectInto, IsEDB, TypeOK
  <2>4. QED
    BY <1>7, <2>1, <2>3, LabelsKeptWithout DEF SelectInto
<1>8. ASSUME NEW n \in PlainNames, NEW m \in UserNames, SelectNothingInto(n, m)
      PROVE  Shape' /\ LabelsInv'
  <2>1. n \in AllNames
    BY NameFacts
  <2>2. \A k \in AllNames : ~IsEDB(k)'
    BY <1>8, TableFacts DEF SelectNothingInto, IsEDB
  <2>3. /\ files' = Flushed(n) /\ twins' = twins
        /\ lostLabel' = (lostLabel \/ LabelInMemory(AllNames \ {n}))
    BY <1>8 DEF SelectNothingInto
  <2>4. ASSUME NEW f \in AllNames
        PROVE  \/ /\ files'[f] = files[f]
                  /\ ~lostLabel' /\ IsEDB(f) /\ tables[f].stem = f
                       => tables'[f] = tables[f] \/ files[f].label = f
               \/ \E k \in AllNames :
                    /\ IsEDB(k) /\ tables[k].stem = f
                    /\ files'[f].state = "whole" /\ files'[f].label = k
    <3>1. files'[f] = IF IsEDB(n) /\ tables[n].stem = f
                        THEN File(n, files[f].rows) ELSE files[f]
      BY <2>1, <2>3, FlushedFacts DEF Shape
    <3>2. files[f].rows \in SUBSET Rows
      BY StateFacts
    <3>3. File(n, files[f].rows).state = "whole" /\ File(n, files[f].rows).label = n
      BY <2>1, <3>2, FileFacts
    <3>4. ASSUME ~lostLabel', IsEDB(f), tables[f].stem = f, f # n PROVE files[f].label = f
      BY <2>3, <3>4 DEF LabelInMemory, Shape, OneFilePerTable
    <3>5. QED
      BY <2>1, <3>1, <3>3, <3>4
  <2>5. QED
    BY <2>2, <2>3, <2>4, LabelsKept
<1>9. ASSUME NEW r \in Rows, CopyRow(r) PROVE Shape' /\ LabelsInv'
  <2> DEFINE n == job.name
  <2>1. n \in AllNames
    BY DEF TypeOK, Job
  <2>2. twins' = twins /\ lostLabel' = lostLabel
    BY <1>9 DEF CopyRow, history
  <2>3. CASE IsEDB(n)
    <3>1. /\ tables' = tables
          /\ files' = [files EXCEPT ![tables[n].stem] =
                         File(tables[n].label, files[tables[n].stem].rows \cup {r})]
      BY <1>9, <2>1, <2>3, StateFacts DEF CopyRow, TypeOK
    <3> HIDE DEF n
    <3>2. files[tables[n].stem].rows \cup {r} \in SUBSET Rows
      BY <2>1, StateFacts
    <3>3. QED
      BY <2>1, <2>2, <2>3, <3>1, <3>2, LabelsKeptByRow
  <2>4. CASE ~IsEDB(n)
    <3>1. /\ tables' = [tables EXCEPT ![n] = Memory(tables[n].label, tables[n].rows \cup {r})]
          /\ files' = files
      BY <1>9, <2>1, <2>4 DEF CopyRow, TypeOK
    <3> HIDE DEF n
    <3>2. Memory(tables[n].label, tables[n].rows \cup {r}).engine = "Memory"
      BY <2>1, StateFacts, TableFacts
    <3>3. \A k \in AllNames : IsEDB(k) \/ IsEDB(k)' => tables'[k] = tables[k]
      BY <2>1, <2>4, <3>1, <3>2 DEF IsEDB, TypeOK
    <3>4. QED
      BY <2>2, <3>1, <3>3, LabelsKeptInMemory
  <2>5. QED
    BY <2>3, <2>4
<1>10. ASSUME FinishCreate PROVE Shape' /\ LabelsInv'
  <2>1. job.name \in AllNames
    BY DEF TypeOK, Job
  <2>2. \A k \in AllNames : IsEDB(k) => tables[k].stem # job.name
    BY <1>10 DEF FinishCreate, JobInv
  <2>3. QED
    BY <1>10, <2>1, <2>2, LabelsKeptWithNew DEF FinishCreate, history
<1>11. ASSUME TooManyColumns PROVE Shape' /\ LabelsInv'
  <2>1. job.name \in AllNames /\ job.name[2] = 0
    BY <1>11, NameFacts DEF TypeOK, Job, JobInv, Altering, TooManyColumns
  <2>2. \A k \in AllNames : IsEDB(k) => tables[k].stem # job.name
    BY <1>11 DEF TooManyColumns, JobInv, Creating
  <2>3. QED
    BY <1>11, <2>1, <2>2, LabelsKeptByFile DEF TooManyColumns, history
<1>12. ASSUME AlterCreate PROVE Shape' /\ LabelsInv'
  <2> DEFINE n == job.name
  <2>1. n \in AllNames /\ n # Nameless /\ n[2] = 0 /\ ~IsEDB(n)
    BY <1>12, NameFacts, StateFacts DEF AlterCreate, JobInv, Altering
  <2>2. twins' = twins /\ lostLabel' = lostLabel
    BY <1>12 DEF AlterCreate, history
  <2>3. CASE IsEDB(job.backup)
    <3>1. ~FileOfNameless(n) /\ tables' = tables /\ files' = [files EXCEPT ![n] = Unfinished]
      BY <1>12, <2>3 DEF AlterCreate, Truncating
    <3> HIDE DEF n
    <3>2. \A k \in AllNames : IsEDB(k) => tables[k].stem # n
      BY <2>1, <3>1, StemIsFree
    <3>3. QED
      BY <2>1, <2>2, <3>1, <3>2, LabelsKeptByFile
  <2>4. CASE ~IsEDB(job.backup)
    <3>1. tables' = [tables EXCEPT ![n] = Memory(n, {})] /\ files' = files
      BY <1>12, <2>4 DEF AlterCreate
    <3> HIDE DEF n
    <3>2. Memory(n, {}).engine = "Memory"
      BY <2>1, TableFacts
    <3>3. \A k \in AllNames : IsEDB(k) \/ IsEDB(k)' => tables'[k] = tables[k]
      BY <2>1, <3>1, <3>2 DEF IsEDB, TypeOK
    <3>4. QED
      BY <2>2, <3>1, <3>3, LabelsKeptInMemory
  <2>5. QED
    BY <2>3, <2>4
<1>13. ASSUME CopyFails PROVE Shape' /\ LabelsInv'
  BY <1>13, LabelsKeptInMemory DEF CopyFails, history
<1>14. ASSUME AlterEnd PROVE Shape' /\ LabelsInv'
  <2>1. job.backup \in AllNames
    BY DEF TypeOK, Job
  <2>2. /\ \A k \in AllNames : IsEDB(k)' => tables'[k] = tables[k]
        /\ \A k \in AllNames \ {job.backup} : IsEDB(k) => tables'[k] = tables[k]
    BY <1>14, <2>1, TableFacts DEF AlterEnd, IsEDB, TypeOK
  <2>3. QED
    BY <1>14, <2>1, <2>2, LabelsKeptWithout DEF AlterEnd, history
<1>15. ASSUME Tick PROVE Shape' /\ LabelsInv'
  BY <1>15, LabelsKeptInMemory DEF Tick, history
<1>16. ASSUME Close PROVE Shape' /\ LabelsInv'
  <2>1. twins' = twins /\ lostLabel' = lostLabel
    BY <1>16 DEF Close, history
  <2>2. \A k \in AllNames : ~IsEDB(k)'
    BY <1>16, TableFacts DEF Close, IsEDB
  <2>3. ASSUME NEW f \in AllNames, NEW n \in AllNames, IsEDB(n), tables[n].stem = f
        PROVE  files'[f].state = "whole" /\ files'[f].label = n
    <3> DEFINE k == CHOOSE k \in AllNames : IsEDB(k) /\ tables[k].stem = f
    <3>1. k \in AllNames /\ IsEDB(k) /\ tables[k].stem = f
      BY <2>3
    <3>2. files'[f] = File(tables[k].label, files[f].rows)
      BY <1>16, <2>3 DEF Close
    <3> HIDE DEF k
    <3>3. k = n /\ tables[k].label = n
      BY <2>3, <3>1 DEF Shape, OneFilePerTable
    <3>4. files[f].rows \in SUBSET Rows
      BY StateFacts
    <3>5. QED
      BY <3>2, <3>3, <3>4, FileFacts
  <2>4. ASSUME NEW f \in AllNames, ~\E n \in AllNames : IsEDB(n) /\ tables[n].stem = f
        PROVE  files'[f] = files[f]
    BY <1>16, <2>4 DEF Close
  <2>5. QED
    BY <2>1, <2>2, <2>3, <2>4, LabelsKept
<1>17. ASSUME Crash PROVE Shape' /\ LabelsInv'
  <2>1. /\ files' = files /\ twins' = twins
        /\ lostLabel' = (lostLabel \/ LabelInMemory(AllNames))
    BY <1>17 DEF Crash
  <2>2. \A k \in AllNames : ~IsEDB(k)'
    BY <1>17, TableFacts DEF Crash, IsEDB
  <2>3. ASSUME NEW f \in AllNames, ~lostLabel', IsEDB(f), tables[f].stem = f
        PROVE  files[f].label = f
    BY <2>1, <2>3 DEF LabelInMemory, Shape, OneFilePerTable
  <2>4. QED
    BY <2>1, <2>2, <2>3, LabelsKept
<1>18. ASSUME Open PROVE Shape' /\ LabelsInv'
  BY <1>18, LabelsOpened DEF JobInv
<1>19. CASE UNCHANGED vars
  BY <1>19, LabelsKeptInMemory DEF vars, history
<1>20. ASSUME NEW n \in PlainNames, AlterCollides(n) PROVE Shape' /\ LabelsInv'
  <2>1. n \in AllNames /\ twins' = twins /\ lostLabel' = lostLabel
    BY <1>20, AlterCollidesType
  <2>2. QED
    BY <1>20, <2>1, AlterCollidesFacts, LabelsKeptWithout DEF Shape
<1>21. QED
  BY <1>1, <1>2, <1>3, <1>4, <1>5, <1>6, <1>7, <1>8, <1>9, <1>10, <1>11, <1>12, <1>13,
     <1>14, <1>15, <1>16, <1>17, <1>18, <1>19, <1>20 DEF Next

-----------------------------------------------------------------------------
(***************************************************************************)
(* The running statement.                                                  *)
(***************************************************************************)

\* When no statement runs only the end of the process matters.
LEMMA JobIdle ==
  ASSUME job' = Idle, phase' # "up" => \A n \in AllNames : tables'[n] = NoTable
  PROVE  JobInv'
BY IdleType DEF JobInv, Altering, Creating

\* A statement goes on only while the process does.
LEMMA JobUp ==
  ASSUME JobInv, job.op # "idle"
  PROVE  phase = "up"
BY IdleType DEF JobInv

\* What is opened on a file that no other table has is not there otherwise.
LEMMA JobMakesFile ==
  ASSUME TypeOK, NEW n \in AllNames, n # Nameless, phase' = "up",
         job'.op \in Creating, job'.name = n, files'[n] = Unfinished,
         tables'[n] = NoTable,
         \A k \in AllNames \ {n} : IsEDB(k)' => tables'[k].stem # n,
         job'.op = "create" => n[2] = 0,
         job'.op = "alter-file" =>
           /\ n \in PlainNames /\ job'.backup \in AllNames /\ IsEDB(job.backup)'
           /\ job'.backup = job.backup
           /\ job'.backup[1] = n[1] /\ job'.backup[2] # 0
  PROVE  JobInv'
<1>1. NoTable.engine = "none"
  BY TableFacts
<1>2. \A k \in AllNames : IsEDB(k)' => k # n /\ tables'[k].stem # n
  BY <1>1 DEF IsEDB
<1>3. job'.op = "alter-file" => IsEDB(job.backup)' /\ Exists(job.backup)'
  BY <1>1 DEF IsEDB, Exists
<1>4. job'.op \in {"create", "recreate", "alter-file"}
  BY DEF Creating
<1>5. ~Exists(n)'
  BY DEF Exists
<1>6. QED
  BY <1>2, <1>3, <1>4, <1>5 DEF JobInv, Altering

\* The new table of an ALTER is there, and its backup is as it was.
LEMMA JobCopies ==
  ASSUME TypeOK, JobInv, job.op \in Altering, phase' = "up",
         job'.op = "copy", job'.name = job.name, job'.backup = job.backup,
         Exists(job.name)', IsEDB(job.backup)' => IsEDB(job.name)',
         Exists(job.backup)',
         RowsOf(job.backup)' \subseteq RowsOf(job.name)' \cup job'.todo
  PROVE  JobInv'
BY DEF JobInv, Altering, Creating

\* Every step leaves what the running statement relies on.
LEMMA JobStep ==
  ASSUME TypeOK, Shape, JobInv, [Next]_vars
  PROVE  JobInv'
<1> USE IdleType
<1>1. ASSUME NEW n \in PlainNames, StartCreate(n) PROVE JobInv'
  <2>1. n \in AllNames /\ n # Nameless /\ n[2] = 0
    BY NameFacts
  <2>2. /\ phase' = "up" /\ tables' = tables /\ tables[n] = NoTable /\ ~FileOfNameless(n)
        /\ files' = [files EXCEPT ![n] = Unfinished]
        /\ job' = [Idle EXCEPT !.op = "create", !.name = n]
    BY <1>1 DEF StartCreate, Truncating, Ready, Exists
  <2>3. job'.op = "create" /\ job'.name = n
    BY <2>2 DEF Idle
  <2>4. files'[n] = Unfinished
    BY <2>1, <2>2 DEF TypeOK
  <2>5. \A k \in AllNames \ {n} : IsEDB(k)' => tables'[k].stem # n
    BY <2>1, <2>2, StemIsFree DEF IsEDB
  <2>6. QED
    BY <2>1, <2>2, <2>3, <2>4, <2>5, JobMakesFile DEF Creating
<1>2. ASSUME NEW n \in PlainNames, CreateMemory(n) PROVE JobInv'
  BY <1>2, JobIdle DEF CreateMemory, Ready
<1>3. ASSUME NEW n \in PlainNames, AlterRename(n) PROVE JobInv'
  <2> DEFINE b == Backup(n, now)
  <2>1. n \in AllNames /\ b \in AllNames /\ b[1] = n[1] /\ b[2] # 0 /\ b # n
    BY NameFacts, BackupFacts DEF TypeOK
  <2>2. /\ phase' = "up"
        /\ job' = [op |-> "alter", name |-> n, backup |-> b, todo |-> {}]
        /\ \/ tables' = [tables EXCEPT ![n] = NoTable, ![b] = EDB(b, b)]
           \/ tables' = [tables EXCEPT ![n] = NoTable, ![b] = Memory(b, tables[n].rows)]
    BY <1>3, AlterRenameFacts DEF AlterRename, Altered, Ready
  <2>3. /\ EDB(b, b) # NoTable /\ Memory(b, tables[n].rows) # NoTable
    BY <2>1, TableFacts, StateFacts
  <2> HIDE DEF b
  <2>4. tables'[n] = NoTable /\ tables'[b] # NoTable
    BY <2>1, <2>2, <2>3 DEF TypeOK
  <2>5. QED
    BY <2>1, <2>2, <2>4 DEF JobInv, Exists, Creating, Altering
<1>4. ASSUME NEW n \in UserNames, Drop(n) PROVE JobInv'
  BY <1>4, JobIdle DEF Drop, Ready
<1>5. ASSUME NEW n \in UserNames, Truncate(n) PROVE JobInv'
  <2> DEFINE name == tables[n].label
             rest == [tables EXCEPT ![n] = NoTable]
  <2>1. n \in AllNames /\ n # Nameless /\ name \in AllNames
    BY StateFacts, NameFacts DEF UserNames
  <2>2. phase' = "up" /\ job = Idle
    BY <1>5 DEF Truncate, Ready
  <2>3. CASE rest[name] # NoTable \/ ~IsEDB(n)
    <3>1. job' = job
      BY <1>5, <2>3 DEF Truncate
    <3>2. QED
      BY <2>2, <3>1, JobIdle
  <2>4. CASE rest[name] = NoTable /\ IsEDB(n)
    <3>1. name = n
      BY <2>1, <2>4 DEF Shape, OneFilePerTable
    <3>2. /\ ~FileOfNameless(n) /\ tables' = [tables EXCEPT ![n] = NoTable]
          /\ files' = [Flushed(n) EXCEPT ![n] = Unfinished]
          /\ job' = [Idle EXCEPT !.op = "recreate", !.name = n]
      BY <1>5, <2>4, <3>1 DEF Truncate
    <3>3. job'.op = "recreate" /\ job'.name = n
      BY <3>2 DEF Idle
    <3>4. files'[n] = Unfinished /\ tables'[n] = NoTable
      BY <2>1, <3>2, StateFacts DEF TypeOK
    <3>5. \A k \in AllNames \ {n} : IsEDB(k) => tables[k].stem # n
      BY <2>1, <2>4, <3>2, StemIsFree
    <3>6. \A k \in AllNames \ {n} : IsEDB(k)' => tables'[k].stem # n
      BY <3>2, <3>5 DEF IsEDB, TypeOK
    <3>7. QED
      BY <2>1, <2>2, <3>3, <3>4, <3>6, JobMakesFile DEF Creating
  <2>5. QED
    BY <2>3, <2>4
<1>6. ASSUME NEW n \in UserNames, NEW r \in Rows, Insert(n, r) PROVE JobInv'
  BY <1>6, JobIdle DEF Insert, Ready
<1>7. ASSUME NEW n \in PlainNames, NEW m \in UserNames, SelectInto(n, m) PROVE JobInv'
  BY <1>7, JobIdle DEF SelectInto, Ready
<1>8. ASSUME NEW n \in PlainNames, NEW m \in UserNames, SelectNothingInto(n, m)
      PROVE  JobInv'
  BY <1>8, JobIdle DEF SelectNothingInto, Ready
<1>9. ASSUME NEW r \in Rows, CopyRow(r) PROVE JobInv'
  <2>0. PICK n \in AllNames, b \in AllNames : n = job.name /\ b = job.backup
    BY DEF TypeOK, Job
  <2>1. /\ job.op = "copy" /\ job.op \in Altering /\ n \in AllNames /\ b \in AllNames /\ b # n
        /\ Exists(n) /\ Exists(b) /\ (IsEDB(b) => IsEDB(n))
        /\ RowsOf(b) \subseteq RowsOf(n) \cup job.todo
        /\ phase' = "up"
    BY <2>0, <1>9, NameFacts, JobUp DEF CopyRow, JobInv, Altering, TypeOK, Job
  <2>2. /\ job'.op = "copy" /\ job'.name = n /\ job'.backup = b
        /\ job'.todo = job.todo \ {r}
    BY <2>0, <1>9 DEF CopyRow, TypeOK, Job
  <2>3. CASE IsEDB(n)
    <3>1. /\ tables' = tables
          /\ files' = [files EXCEPT ![tables[n].stem] =
                         File(tables[n].label, files[tables[n].stem].rows \cup {r})]
      BY <2>0, <1>9, <2>1, <2>3, StateFacts DEF CopyRow, TypeOK
    <3>2. File(tables[n].label, files[tables[n].stem].rows \cup {r}).rows
            = files[tables[n].stem].rows \cup {r}
      BY <2>0, <2>1, StateFacts, FileFacts
    <3>3. tables[n].stem \in AllNames /\ tables[b].stem \in AllNames
      BY <2>0, <2>1, StateFacts
    <3>4. RowsOf(n)' = RowsOf(n) \cup {r}
      BY <2>0, <2>1, <2>3, <3>1, <3>2, <3>3 DEF RowsOf, IsEDB, TypeOK
    <3>5. IsEDB(b) => tables[b].stem # tables[n].stem
      BY <2>0, <2>1, <2>3 DEF Shape, OneFilePerTable
    <3>6. RowsOf(b)' = RowsOf(b)
      BY <2>0, <2>1, <3>1, <3>3, <3>5 DEF RowsOf, IsEDB, TypeOK
    <3>7. Exists(n)' /\ Exists(b)' /\ IsEDB(n)'
      BY <2>0, <2>1, <2>3, <3>1 DEF Exists, IsEDB
    <3>8. RowsOf(b)' \subseteq RowsOf(n)' \cup job'.todo
      BY <2>0, <2>1, <2>2, <3>4, <3>6
    <3>9. QED
      BY <2>0, <2>1, <2>2, <3>7, <3>8, JobCopies
  <2>4. CASE ~IsEDB(n)
    <3>1. /\ tables' = [tables EXCEPT ![n] = Memory(tables[n].label, tables[n].rows \cup {r})]
          /\ files' = files
      BY <2>0, <1>9, <2>1, <2>4 DEF CopyRow, TypeOK
    <3>2. /\ Memory(tables[n].label, tables[n].rows \cup {r}).engine = "Memory"
          /\ Memory(tables[n].label, tables[n].rows \cup {r}).rows = tables[n].rows \cup {r}
          /\ NoTable.engine = "none"
      BY <2>0, <2>1, StateFacts, TableFacts
    <3>3. tables'[b] = tables[b]
      BY <2>0, <2>1, <3>1 DEF TypeOK
    <3>4. RowsOf(n)' = RowsOf(n) \cup {r} /\ Exists(n)'
      BY <2>0, <2>1, <2>4, <3>1, <3>2 DEF RowsOf, IsEDB, Exists, TypeOK
    <3>5. RowsOf(b)' = RowsOf(b) /\ Exists(b)' /\ ~IsEDB(b)'
      BY <2>0, <2>1, <2>4, <3>3 DEF RowsOf, IsEDB, Exists
    <3>6. RowsOf(b)' \subseteq RowsOf(n)' \cup job'.todo
      BY <2>0, <2>1, <2>2, <3>4, <3>5
    <3>7. QED
      BY <2>0, <2>1, <2>2, <3>4, <3>5, <3>6, JobCopies
  <2>5. QED
    BY <2>0, <2>3, <2>4
<1>10. ASSUME FinishCreate PROVE JobInv'
  <2>0. PICK n \in AllNames, b \in AllNames : n = job.name /\ b = job.backup
    BY DEF TypeOK, Job
  <2>1. n \in AllNames /\ b \in AllNames
    BY DEF TypeOK, Job
  <2>2. job.op # "idle" /\ phase' = phase /\ phase = "up"
    BY <2>0, <1>10, JobUp DEF FinishCreate, Creating
  <2>3. CASE job.op # "alter-file"
    BY <2>0, <1>10, <2>2, <2>3, JobIdle DEF FinishCreate, AfterCreate
  <2>4. CASE job.op = "alter-file"
    <3>1. /\ Exists(b) /\ IsEDB(b) /\ b # n /\ ~Exists(n)
          /\ tables[b].stem # n /\ tables[b].stem \in AllNames
      BY <2>0, <2>1, <2>4, NameFacts, StateFacts DEF JobInv, Altering, Creating
    <3>2. /\ job'.op = "copy" /\ job'.name = n /\ job'.backup = b /\ job'.todo = RowsOf(b)
      BY <2>0, <1>10, <2>4 DEF FinishCreate, AfterCreate, TypeOK, Job
    <3>3. /\ tables' = [tables EXCEPT ![n] = EDB(n, n)]
          /\ files' = [files EXCEPT ![n] = File(n, {})]
      BY <2>0, <1>10 DEF FinishCreate
    <3>4. EDB(n, n).engine = "EDB" /\ NoTable.engine = "none"
      BY <2>0, <2>1, TableFacts
    <3>5. tables'[b] = tables[b] /\ Exists(n)' /\ IsEDB(n)'
      BY <2>0, <2>1, <3>1, <3>3, <3>4 DEF Exists, IsEDB, TypeOK
    <3>6. Exists(b)' /\ RowsOf(b)' = RowsOf(b)
      BY <2>0, <2>1, <3>1, <3>3, <3>5 DEF RowsOf, Exists, IsEDB, TypeOK
    <3>7. QED
      BY <2>0, <2>2, <2>4, <3>2, <3>5, <3>6, JobCopies DEF Altering
  <2>5. QED
    BY <2>0, <2>3, <2>4
<1>11. ASSUME TooManyColumns PROVE JobInv'
  BY <1>11, JobUp, JobIdle DEF TooManyColumns
<1>12. ASSUME AlterCreate PROVE JobInv'
  <2>0. PICK n \in AllNames, b \in AllNames : n = job.name /\ b = job.backup
    BY DEF TypeOK, Job
  <2>1. /\ n \in PlainNames /\ n \in AllNames /\ b \in AllNames /\ n # Nameless /\ n[2] = 0
        /\ ~Exists(n) /\ Exists(b) /\ b[1] = n[1] /\ b[2] # 0 /\ b # n
        /\ job.op \in Altering /\ phase' = "up"
    BY <2>0, <1>12, NameFacts, JobUp DEF AlterCreate, JobInv, Altering, TypeOK, Job
  <2>2. CASE IsEDB(b)
    <3>1. /\ ~FileOfNameless(n) /\ tables' = tables
          /\ files' = [files EXCEPT ![n] = Unfinished]
          /\ job' = [job EXCEPT !.op = "alter-file"]
      BY <2>0, <1>12, <2>2 DEF AlterCreate, Truncating
    <3>2. job'.op = "alter-file" /\ job'.name = n /\ job'.backup = b
      BY <2>0, <3>1 DEF TypeOK, Job
    <3>3. files'[n] = Unfinished /\ tables'[n] = NoTable
      BY <2>0, <2>1, <3>1 DEF TypeOK, Exists
    <3>4. \A k \in AllNames \ {n} : IsEDB(k)' => tables'[k].stem # n
      BY <2>0, <2>1, <3>1, StemIsFree DEF IsEDB
    <3>5. IsEDB(b)'
      BY <2>0, <2>2, <3>1 DEF IsEDB
    <3>6. QED
      BY <2>0, <2>1, <3>2, <3>3, <3>4, <3>5, JobMakesFile DEF Creating
  <2>3. CASE ~IsEDB(b)
    <3>1. /\ tables' = [tables EXCEPT ![n] = Memory(n, {})] /\ files' = files
          /\ job' = [job EXCEPT !.op = "copy", !.todo = RowsOf(b)]
      BY <2>0, <1>12, <2>3 DEF AlterCreate
    <3>2. job'.op = "copy" /\ job'.name = n /\ job'.backup = b /\ job'.todo = RowsOf(b)
      BY <2>0, <3>1 DEF TypeOK, Job
    <3>3. Memory(n, {}) # NoTable
      BY <2>0, <2>1, TableFacts
    <3>4. tables'[b] = tables[b] /\ Exists(n)'
      BY <2>0, <2>1, <3>1, <3>3 DEF Exists, TypeOK
    <3>5. Exists(b)' /\ ~IsEDB(b)' /\ RowsOf(b)' = RowsOf(b)
      BY <2>0, <2>1, <2>3, <3>4 DEF RowsOf, Exists, IsEDB
    <3>6. QED
      BY <2>0, <2>1, <3>2, <3>4, <3>5, JobCopies
  <2>4. QED
    BY <2>0, <2>2, <2>3
<1>13. ASSUME CopyFails PROVE JobInv'
  BY <1>13, JobUp, JobIdle DEF CopyFails
<1>14. ASSUME AlterEnd PROVE JobInv'
  BY <1>14, JobUp, JobIdle DEF AlterEnd
<1>15. ASSUME Tick PROVE JobInv'
  BY <1>15, JobIdle DEF Tick, JobInv
<1>16. ASSUME Close PROVE JobInv'
  BY <1>16, JobIdle DEF Close, Ready
<1>17. ASSUME Crash PROVE JobInv'
  BY <1>17, JobIdle DEF Crash
<1>18. ASSUME Open PROVE JobInv'
  BY <1>18, JobIdle DEF Open, JobInv
<1>19. CASE UNCHANGED vars
  BY <1>19 DEF vars, history, JobInv, Exists, IsEDB, RowsOf
<1>20. ASSUME NEW n \in PlainNames, AlterCollides(n) PROVE JobInv'
  <2>1. PICK b \in AllNames : b = Backup(n, now)
    BY NameFacts, BackupFacts DEF TypeOK
  <2>2. /\ phase' = "up" /\ b[1] = n[1] /\ b[2] # 0
        /\ job' = [op |-> "alter", name |-> n, backup |-> b, todo |-> {}]
        /\ tables'[n] = NoTable /\ tables'[b] # NoTable
    BY <1>20, <2>1, AlterCollidesType
  <2>3. QED
    BY <2>2 DEF JobInv, Exists, Creating, Altering
<1>21. QED
  BY <1>1, <1>2, <1>3, <1>4, <1>5, <1>6, <1>7, <1>8, <1>9, <1>10, <1>11, <1>12, <1>13,
     <1>14, <1>15, <1>16, <1>17, <1>18, <1>19, <1>20 DEF Next

-----------------------------------------------------------------------------
(***************************************************************************)
(* Unfinished files.                                                       *)
(***************************************************************************)

\* No file is started, and the one being made is still being made.
LEMMA UnfinishedKept ==
  ASSUME UnfinishedInv, midCreate' = midCreate, job' = job \/ job.op \notin Creating,
         \A f \in AllNames : files'[f].state = "unfinished" => files[f].state = "unfinished"
  PROVE  UnfinishedInv'
BY DEF UnfinishedInv

\* A file is started or done.
LEMMA UnfinishedMade ==
  ASSUME UnfinishedInv, midCreate' = midCreate, NEW n \in AllNames,
         \A f \in AllNames \ {n} : files'[f].state = "unfinished" => files[f].state = "unfinished",
         \/ job.op \notin Creating /\ job'.op \in Creating /\ job'.name = n
         \/ job.op \in Creating /\ job.name = n /\ files'[n].state # "unfinished"
  PROVE  UnfinishedInv'
BY DEF UnfinishedInv

\* Flushing starts no file.
LEMMA FlushedFinished ==
  ASSUME TypeOK, OneFilePerTable, NEW n \in AllNames, NEW f \in AllNames,
         Flushed(n)[f].state = "unfinished"
  PROVE  files[f].state = "unfinished"
<1>1. files[f].rows \in SUBSET Rows
  BY StateFacts
<1>2. File(n, files[f].rows).state = "whole"
  BY <1>1, FileFacts
<1>3. QED
  BY <1>2, FlushedFacts

\* Every step leaves no other file unfinished.
LEMMA UnfinishedStep ==
  ASSUME TypeOK, Shape, JobInv, UnfinishedInv, [Next]_vars
  PROVE  UnfinishedInv'
<1> USE IdleType
<1>1. ASSUME NEW n \in PlainNames, StartCreate(n) PROVE UnfinishedInv'
  <2>1. /\ n \in AllNames /\ midCreate' = midCreate /\ job = Idle
        /\ files' = [files EXCEPT ![n] = Unfinished]
        /\ job' = [Idle EXCEPT !.op = "create", !.name = n]
    BY <1>1, NameFacts DEF StartCreate, Truncating, Ready, history
  <2>2. job.op \notin Creating /\ job'.op \in Creating /\ job'.name = n
    BY <2>1 DEF Idle, Creating
  <2>3. \A f \in AllNames \ {n} : files'[f] = files[f]
    BY <2>1 DEF TypeOK
  <2>4. QED
    BY <2>1, <2>2, <2>3, UnfinishedMade
<1>2. ASSUME NEW n \in PlainNames, CreateMemory(n) PROVE UnfinishedInv'
  BY <1>2, UnfinishedKept DEF CreateMemory, history
<1>3. ASSUME NEW n \in PlainNames, AlterRename(n) PROVE UnfinishedInv'
  <2> DEFINE b == Backup(n, now)
             s == tables[n].stem
  <2>1. n \in AllNames /\ b \in AllNames /\ s \in AllNames
    BY NameFacts, BackupFacts, StateFacts DEF TypeOK
  <2>2. /\ job.op \notin Creating /\ midCreate' = midCreate
        /\ \/ files' = files
           \/ IsEDB(n) /\ files' = [files EXCEPT ![s] = NoFile, ![b] = files[s]]
    BY <1>3, AlterRenameFacts DEF AlterRename, Ready, history, Creating
  <2>3. IsEDB(n) => files[s].state = "whole"
    BY <2>1 DEF Shape, OneFilePerTable
  <2> HIDE DEF b, s
  <2>4. \A f \in AllNames : files'[f].state = "unfinished" => files[f].state = "unfinished"
    BY <2>1, <2>2, <2>3, FileFacts DEF TypeOK
  <2>5. QED
    BY <2>2, <2>4, UnfinishedKept
<1>4. ASSUME NEW n \in UserNames, Drop(n) PROVE UnfinishedInv'
  <2>1. n \in AllNames
    BY DEF UserNames
  <2>2. QED
    BY <1>4, <2>1, FlushedFinished, UnfinishedKept DEF Drop, Shape
<1>5. ASSUME NEW n \in UserNames, Truncate(n) PROVE UnfinishedInv'
  <2> DEFINE name == tables[n].label
  <2>1. n \in AllNames /\ name \in AllNames
    BY StateFacts DEF UserNames
  <2>2. midCreate' = midCreate /\ job = Idle /\ job.op \notin Creating
    BY <1>5 DEF Truncate, Ready, Creating
  <2>3. CASE files' = Flushed(n) \/ files' = files
    BY <2>1, <2>2, <2>3, FlushedFinished, UnfinishedKept DEF Shape
  <2>4. CASE /\ files' = [Flushed(n) EXCEPT ![name] = Unfinished]
             /\ job' = [Idle EXCEPT !.op = "recreate", !.name = name]
    <3>1. job'.op \in Creating /\ job'.name = name
      BY <2>4 DEF Idle, Creating
    <3>2. \A f \in AllNames \ {name} : files'[f] = Flushed(n)[f]
      BY <2>1, <2>4, StateFacts
    <3>3. \A f \in AllNames \ {name} : files'[f].state = "unfinished"
                                         => files[f].state = "unfinished"
      BY <2>1, <3>2, FlushedFinished DEF Shape
    <3>4. QED
      BY <2>1, <2>2, <3>1, <3>3, UnfinishedMade
  <2>5. QED
    BY <1>5, <2>3, <2>4 DEF Truncate
<1>6. ASSUME NEW n \in UserNames, NEW r \in Rows, Insert(n, r) PROVE UnfinishedInv'
  <2>1. n \in AllNames
    BY DEF UserNames
  <2>2. CASE IsEDB(n)
    <3>1. /\ job' = job /\ midCreate' = midCreate
          /\ files' = [files EXCEPT ![tables[n].stem] =
                         File(tables[n].label, files[tables[n].stem].rows \cup {r})]
      BY <1>6, <2>1, <2>2, StateFacts DEF Insert, TypeOK
    <3>2. File(tables[n].label, files[tables[n].stem].rows \cup {r}).state = "whole"
      BY <2>1, StateFacts, FileFacts
    <3>3. \A f \in AllNames : files'[f].state = "unfinished" => files[f].state = "unfinished"
      BY <3>1, <3>2 DEF TypeOK
    <3>4. QED
      BY <3>1, <3>3, UnfinishedKept
  <2>3. CASE ~IsEDB(n)
    BY <1>6, <2>3, UnfinishedKept DEF Insert
  <2>4. QED
    BY <2>2, <2>3
<1>7. ASSUME NEW n \in PlainNames, NEW m \in UserNames, SelectInto(n, m)
      PROVE  UnfinishedInv'
  BY <1>7, NameFacts, FlushedFinished, UnfinishedKept DEF SelectInto, Shape
<1>8. ASSUME NEW n \in PlainNames, NEW m \in UserNames, SelectNothingInto(n, m)
      PROVE  UnfinishedInv'
  BY <1>8, NameFacts, FlushedFinished, UnfinishedKept DEF SelectNothingInto, Shape
<1>9. ASSUME NEW r \in Rows, CopyRow(r) PROVE UnfinishedInv'
  <2>1. PICK n \in AllNames : n = job.name
    BY DEF TypeOK, Job
  <2>2. job.op \notin Creating /\ midCreate' = midCreate
    BY <1>9 DEF CopyRow, Creating, history
  <2>3. \/ files' = files
        \/ files' = [files EXCEPT ![tables[n].stem] =
                       File(tables[n].label, files[tables[n].stem].rows \cup {r})]
    BY <1>9, <2>1, StateFacts DEF CopyRow, TypeOK
  <2>4. File(tables[n].label, files[tables[n].stem].rows \cup {r}).state = "whole"
    BY <2>1, StateFacts, FileFacts
  <2>5. \A f \in AllNames : files'[f].state = "unfinished" => files[f].state = "unfinished"
    BY <2>3, <2>4 DEF TypeOK
  <2>6. QED
    BY <2>2, <2>5, UnfinishedKept
<1>10. ASSUME FinishCreate PROVE UnfinishedInv'
  <2>1. PICK n \in AllNames : n = job.name
    BY DEF TypeOK, Job
  <2>2. /\ job.op \in Creating /\ midCreate' = midCreate
        /\ files' = [files EXCEPT ![n] = File(n, {})]
    BY <1>10, <2>1 DEF FinishCreate, history
  <2>3. files'[n].state = "whole" /\ \A f \in AllNames \ {n} : files'[f] = files[f]
    BY <2>1, <2>2, FileFacts DEF TypeOK
  <2>4. QED
    BY <2>1, <2>2, <2>3, UnfinishedMade
<1>11. ASSUME TooManyColumns PROVE UnfinishedInv'
  <2>1. PICK n \in AllNames : n = job.name
    BY DEF TypeOK, Job
  <2>2. /\ job.op \in Creating /\ midCreate' = midCreate
        /\ files' = [files EXCEPT ![n] = File(Nameless, {})]
    BY <1>11, <2>1 DEF TooManyColumns, Creating, history
  <2>3. files'[n].state = "whole" /\ \A f \in AllNames \ {n} : files'[f] = files[f]
    BY <2>1, <2>2, FileFacts, NameFacts DEF TypeOK
  <2>4. QED
    BY <2>1, <2>2, <2>3, UnfinishedMade
<1>12. ASSUME AlterCreate PROVE UnfinishedInv'
  <2>1. PICK n \in AllNames : n = job.name
    BY DEF TypeOK, Job
  <2>2. job.op \notin Creating /\ midCreate' = midCreate
    BY <1>12 DEF AlterCreate, Creating, history
  <2>3. CASE files' = files
    BY <2>2, <2>3, UnfinishedKept
  <2>4. CASE /\ files' = [files EXCEPT ![n] = Unfinished]
             /\ job' = [job EXCEPT !.op = "alter-file"]
    <3>1. job'.op \in Creating /\ job'.name = n
      BY <2>1, <2>4 DEF TypeOK, Job, Creating
    <3>2. \A f \in AllNames \ {n} : files'[f] = files[f]
      BY <2>4 DEF TypeOK
    <3>3. QED
      BY <2>2, <3>1, <3>2, UnfinishedMade
  <2>5. QED
    BY <1>12, <2>1, <2>3, <2>4 DEF AlterCreate, Truncating
<1>13. ASSUME CopyFails PROVE UnfinishedInv'
  BY <1>13, UnfinishedKept DEF CopyFails, Creating, history
<1>14. ASSUME AlterEnd PROVE UnfinishedInv'
  <2>1. job.backup \in AllNames
    BY DEF TypeOK, Job
  <2>2. \A f \in AllNames : files'[f].state = "unfinished" => files[f].state = "unfinished"
    BY <1>14, <2>1, FlushedFinished DEF AlterEnd, Shape
  <2>3. QED
    BY <1>14, <2>2, UnfinishedKept DEF AlterEnd, Creating, history
<1>15. ASSUME Tick PROVE UnfinishedInv'
  BY <1>15, UnfinishedKept DEF Tick, history
<1>16. ASSUME Close PROVE UnfinishedInv'
  <2>1. ASSUME NEW f \in AllNames, files'[f].state = "unfinished"
        PROVE  files[f].state = "unfinished"
    <3> DEFINE k == CHOOSE k \in AllNames : IsEDB(k) /\ tables[k].stem = f
    <3>1. CASE \E n \in AllNames : IsEDB(n) /\ tables[n].stem = f
      <4>1. k \in AllNames
        BY <3>1
      <4>2. files'[f] = File(tables[k].label, files[f].rows)
        BY <1>16, <3>1 DEF Close
      <4> HIDE DEF k
      <4>3. tables[k].label \in AllNames /\ files[f].rows \in SUBSET Rows
        BY <4>1, StateFacts
      <4>4. QED
        BY <2>1, <4>2, <4>3, FileFacts
    <3>2. CASE ~\E n \in AllNames : IsEDB(n) /\ tables[n].stem = f
      BY <1>16, <2>1, <3>2 DEF Close
    <3>3. QED
      BY <3>1, <3>2
  <2>2. QED
    BY <1>16, <2>1, UnfinishedKept DEF Close, history
<1>17. ASSUME Crash PROVE UnfinishedInv'
  BY <1>17 DEF Crash, UnfinishedInv
<1>18. ASSUME Open PROVE UnfinishedInv'
  BY <1>18, UnfinishedKept DEF Open
<1>19. CASE UNCHANGED vars
  BY <1>19, UnfinishedKept DEF vars, history
<1>20. ASSUME NEW n \in PlainNames, AlterCollides(n) PROVE UnfinishedInv'
  <2>1. /\ n \in AllNames /\ job.op \notin Creating /\ midCreate' = midCreate
        /\ files' = Flushed(n)
    BY <1>20, AlterCollidesType, AlterCollidesFacts DEF Creating, Shape
  <2>2. QED
    BY <2>1, FlushedFinished, UnfinishedKept DEF Shape
<1>21. QED
  BY <1>1, <1>2, <1>3, <1>4, <1>5, <1>6, <1>7, <1>8, <1>9, <1>10, <1>11, <1>12, <1>13,
     <1>14, <1>15, <1>16, <1>17, <1>18, <1>19, <1>20 DEF Next

\* A directory that cannot be opened has an unfinished file.
LEMMA OpensStep ==
  ASSUME JobInv, UnfinishedInv, OpensAgain, [Next]_vars
  PROVE  OpensAgain'
<1>1. ASSUME Open PROVE OpensAgain'
  BY <1>1, IdleType DEF Open, OpensAgain, JobInv, UnfinishedInv, Creating
<1>2. ASSUME phase' = "broken", ~Open PROVE phase = "broken" /\ midCreate' = midCreate
  <2>1. job.op # "idle" => phase = "up"
    BY JobUp
  <2>2. QED
    BY <1>2, <2>1
       DEF Next, StartCreate, CreateMemory, AlterRename, AlterCollides, Drop, Truncate, Insert, SelectInto,
           SelectNothingInto, CopyRow, FinishCreate, TooManyColumns, AlterCreate, CopyFails,
           AlterEnd, Tick, Close, Crash, Ready, Creating, vars, history
<1>3. QED
  BY <1>1, <1>2 DEF OpensAgain

-----------------------------------------------------------------------------
(***************************************************************************)
(* The rows that were not given up.                                        *)
(***************************************************************************)

\* What is kept is in a table, and the table may move or grow.
LEMMA RowsMove ==
  ASSUME RowsInv, phase = "up", phase' = "up", twins' = twins, kept' = kept,
         \A k \in AllNames : IsEDB(k) =>
           \E m \in AllNames : m[1] = k[1] /\ IsEDB(m)' /\ RowsOf(k) \subseteq RowsOf(m)'
  PROVE  RowsInv'
<1>1. \A k \in AllNames : IsEDB(k)' => RowsOf(k)' = files'[tables'[k].stem].rows
  BY DEF RowsOf, IsEDB
<1>2. ASSUME NEW b \in Names, ~Twinned(b), NEW r \in kept[b]
      PROVE  \E m \in AllNames : m[1] = b /\ IsEDB(m)' /\ r \in RowsOf(m)'
  <2>1. PICK k \in AllNames : k[1] = b /\ IsEDB(k) /\ r \in RowsOf(k)
    BY <1>2 DEF RowsInv, RowsOf
  <2>2. QED
    BY <2>1
<1>3. QED
  BY <1>1, <1>2 DEF RowsInv, Twinned

\* A row that is kept when a table is given up is in another one.
LEMMA RowsElsewhere ==
  ASSUME RowsInv, phase = "up", NEW n \in AllNames, NEW b \in Names, ~Twinned(b),
         NEW r \in GivenUp(n)[b]
  PROVE  \E k \in AllNames \ {n} : k[1] = b /\ IsEDB(k) /\ r \in RowsOf(k)
<1>1. r \in kept[b]
  BY DEF GivenUp
<1>2. PICK k \in AllNames : k[1] = b /\ IsEDB(k) /\ r \in RowsOf(k)
  BY <1>1 DEF RowsInv, RowsOf
<1>3. CASE k = n
  <2>1. n \in OpenOf(b)
    BY <1>2, <1>3 DEF OpenOf
  <2>2. r \notin RowsOf(n) \ RowsIn(OpenOf(b) \ {n})
    BY <2>1 DEF GivenUp
  <2>3. r \in RowsIn(OpenOf(b) \ {n})
    BY <1>2, <1>3, <2>2
  <2>4. QED
    BY <2>3 DEF RowsIn, OpenOf
<1>4. QED
  BY <1>2, <1>3

\* A table is given up, the others stay.
LEMMA RowsWithout ==
  ASSUME RowsInv, phase = "up", phase' = "up", twins' = twins,
         NEW n \in AllNames, kept' = GivenUp(n),
         \A k \in AllNames \ {n} : IsEDB(k) => IsEDB(k)' /\ RowsOf(k)' = RowsOf(k)
  PROVE  RowsInv'
<1>1. ASSUME NEW b \in Names, ~Twinned(b), NEW r \in kept'[b]
      PROVE  \E k \in AllNames : k[1] = b /\ IsEDB(k)' /\ r \in RowsOf(k)'
  BY <1>1, RowsElsewhere
<1>2. QED
  BY <1>1 DEF RowsInv, Twinned, RowsOf, IsEDB

\* Flushing a table leaves the rows of all.
LEMMA FlushedRows ==
  ASSUME TypeOK, OneFilePerTable, NEW n \in AllNames, NEW f \in AllNames
  PROVE  Flushed(n)[f].rows = files[f].rows
<1>1. files[f].rows \in SUBSET Rows
  BY StateFacts
<1>2. File(n, files[f].rows).rows = files[f].rows
  BY <1>1, FileFacts
<1>3. QED
  BY <1>2, FlushedFacts

\* A table that stays has its rows if its file has.
LEMMA RowsStay ==
  ASSUME TypeOK, NEW k \in AllNames, IsEDB(k), tables'[k] = tables[k],
         files'[tables[k].stem].rows = files[tables[k].stem].rows
  PROVE  IsEDB(k)' /\ RowsOf(k)' = RowsOf(k)
BY DEF IsEDB, RowsOf

\* Every step keeps the rows.
LEMMA RowsStep ==
  ASSUME TypeOK, Shape, JobInv, RowsInv, [Next]_vars
  PROVE  RowsInv'
<1> USE IdleType
<1>0. \A k \in AllNames : IsEDB(k) => tables[k].stem \in AllNames /\ tables[k] # NoTable
  BY StateFacts DEF Exists
<1>1. ASSUME NEW n \in PlainNames, StartCreate(n) PROVE RowsInv'
  <2>1. n \in AllNames /\ n # Nameless /\ n[2] = 0 /\ ~IsEDB(n)
    BY <1>0, <1>1, NameFacts DEF StartCreate, Exists
  <2>2. /\ phase = "up" /\ phase' = "up" /\ twins' = twins /\ kept' = kept
        /\ tables' = tables /\ ~FileOfNameless(n)
        /\ files' = [files EXCEPT ![n] = Unfinished]
    BY <1>1 DEF StartCreate, Truncating, Ready, history
  <2>3. \A k \in AllNames : IsEDB(k) => tables[k].stem # n
    BY <2>1, <2>2, StemIsFree
  <2>4. \A k \in AllNames : IsEDB(k) => IsEDB(k)' /\ RowsOf(k)' = RowsOf(k)
    BY <1>0, <2>2, <2>3 DEF IsEDB, RowsOf, TypeOK
  <2>5. QED
    BY <2>2, <2>4, RowsMove
<1>2. ASSUME NEW n \in PlainNames, CreateMemory(n) PROVE RowsInv'
  <2>1. /\ n \in AllNames /\ phase = "up" /\ phase' = "up" /\ twins' = twins /\ kept' = kept
        /\ files' = files /\ tables' = [tables EXCEPT ![n] = Memory(n, {})] /\ ~IsEDB(n)
    BY <1>0, <1>2, NameFacts DEF CreateMemory, Ready, history, Exists
  <2>2. \A k \in AllNames : IsEDB(k) => tables'[k] = tables[k]
    BY <2>1 DEF TypeOK
  <2>3. QED
    BY <2>1, <2>2, RowsStay, RowsMove
<1>3. ASSUME NEW n \in PlainNames, AlterRename(n) PROVE RowsInv'
  <2>1. PICK b \in AllNames : b = Backup(n, now) /\ b[1] = n[1] /\ b[2] # 0
    BY NameFacts, BackupFacts DEF TypeOK
  <2>2. n \in AllNames /\ n # b /\ n[2] = 0 /\ n = Plain(n[1]) /\ n # Nameless
    BY <2>1, NameFacts
  <2>3. phase = "up" /\ phase' = "up" /\ twins' = twins /\ kept' = kept
    BY <1>3 DEF AlterRename, Ready, history
  <2>4. ~IsEDB(b)
    BY <1>0, <1>3, <2>1, AlterRenameFacts DEF Exists
  <2>5. CASE ~IsEDB(n)
    <3>1. tables' = [tables EXCEPT ![n] = NoTable, ![b] = Memory(b, tables[n].rows)]
      BY <1>3, <2>1, <2>5, AlterRenameFacts
    <3>2. files' = files
      BY <1>3, <2>5, AlterRenameFacts
    <3>3. \A k \in AllNames : IsEDB(k) => tables'[k] = tables[k]
      BY <2>2, <2>4, <2>5, <3>1 DEF TypeOK
    <3>4. QED
      BY <2>3, <3>2, <3>3, RowsStay, RowsMove
  <2>6. CASE IsEDB(n)
    <3>1. PICK s \in AllNames : s = tables[n].stem
      BY <1>0, <2>2, <2>6
    <3>2. tables' = [tables EXCEPT ![n] = NoTable, ![b] = EDB(b, b)]
      BY <1>3, <2>1, <2>6, AlterRenameFacts
    <3>3. files' = [files EXCEPT ![s] = NoFile, ![b] = files[s]]
      BY <1>3, <2>1, <2>6, <3>1, AlterRenameFacts
    <3>4. EDB(b, b).engine = "EDB" /\ EDB(b, b).stem = b
      BY TableFacts
    <3>5. IsEDB(b)' /\ RowsOf(b)' = RowsOf(n)
      BY <2>2, <2>6, <3>1, <3>2, <3>3, <3>4 DEF IsEDB, RowsOf, TypeOK
    <3>6. ASSUME NEW k \in AllNames, IsEDB(k), k # n
          PROVE  IsEDB(k)' /\ RowsOf(k)' = RowsOf(k)
      <4>1. k # b /\ tables'[k] = tables[k]
        BY <2>4, <3>2, <3>6 DEF TypeOK
      <4>2. tables[k].stem # s
        BY <2>2, <2>6, <3>1, <3>6 DEF Shape, OneFilePerTable
      <4>3. tables[k].stem # b
        BY <2>1, <2>2, <3>6, <4>1 DEF Shape, TablesLabelled, MayLabel
      <4>4. files'[tables[k].stem] = files[tables[k].stem]
        BY <1>0, <3>3, <3>6, <4>2, <4>3 DEF TypeOK
      <4>5. QED
        BY <3>6, <4>1, <4>4, RowsStay
    <3>7. QED
      BY <2>1, <2>3, <3>5, <3>6, RowsMove
  <2>7. QED
    BY <2>5, <2>6
<1>4. ASSUME NEW n \in UserNames, Drop(n) PROVE RowsInv'
  <2>1. /\ n \in AllNames /\ phase = "up" /\ phase' = "up" /\ twins' = twins
        /\ kept' = GivenUp(n) /\ files' = Flushed(n)
        /\ tables' = [tables EXCEPT ![n] = NoTable]
    BY <1>4 DEF Drop, Ready, UserNames
  <2>2. \A k \in AllNames \ {n} : tables'[k] = tables[k]
    BY <2>1 DEF TypeOK
  <2>3. \A f \in AllNames : files'[f].rows = files[f].rows
    BY <2>1, FlushedRows DEF Shape
  <2>4. QED
    BY <1>0, <2>1, <2>2, <2>3, RowsStay, RowsWithout
<1>5. ASSUME NEW n \in UserNames, Truncate(n) PROVE RowsInv'
  <2> DEFINE rest == [tables EXCEPT ![n] = NoTable]
  <2>1. PICK name \in AllNames : name = tables[n].label
    BY StateFacts DEF UserNames
  <2>2. /\ n \in AllNames /\ n # Nameless /\ phase = "up" /\ phase' = "up" /\ twins' = twins
        /\ kept' = GivenUp(n)
    BY <1>5, NameFacts DEF Truncate, Ready, UserNames
  <2>3. \A k \in AllNames \ {n} : rest[k] = tables[k]
    BY DEF TypeOK
  <2>4. rest \in [AllNames -> AnyTable]
    BY TableFacts DEF TypeOK
  <2>5. CASE rest[name] # NoTable
    <3>1. tables' = rest /\ files' = Flushed(n)
      BY <1>5, <2>1, <2>5 DEF Truncate
    <3>2. \A f \in AllNames : files'[f].rows = files[f].rows
      BY <2>2, <3>1, FlushedRows DEF Shape
    <3>3. \A k \in AllNames \ {n} : tables'[k] = tables[k]
      BY <2>3, <3>1
    <3>4. QED
      BY <1>0, <2>2, <3>2, <3>3, RowsStay, RowsWithout
  <2>6. CASE rest[name] = NoTable /\ IsEDB(n)
    <3>1. name = n
      BY <2>1, <2>2, <2>6 DEF Shape, OneFilePerTable
    <3>2. /\ ~FileOfNameless(n) /\ tables' = rest
          /\ files' = [Flushed(n) EXCEPT ![n] = Unfinished]
      BY <1>5, <2>1, <2>6, <3>1 DEF Truncate
    <3>3. \A k \in AllNames \ {n} : IsEDB(k) => tables[k].stem # n
      BY <2>2, <2>6, <3>2, StemIsFree
    <3>4. \A f \in AllNames \ {n} : files'[f] = Flushed(n)[f]
      BY <2>2, <3>2, StateFacts
    <3>5. \A f \in AllNames \ {n} : files'[f].rows = files[f].rows
      BY <2>2, <3>4, FlushedRows DEF Shape
    <3>6. \A k \in AllNames \ {n} : tables'[k] = tables[k]
      BY <2>3, <3>2
    <3>7. QED
      BY <1>0, <2>2, <3>3, <3>5, <3>6, RowsStay, RowsWithout
  <2>7. CASE rest[name] = NoTable /\ ~IsEDB(n)
    <3>1. tables' = [rest EXCEPT ![name] = Memory(name, {})] /\ files' = files
      BY <1>5, <2>1, <2>7 DEF Truncate
    <3>2. name # n => tables[name] = NoTable
      BY <2>3, <2>7
    <3> HIDE DEF rest
    <3>3. \A k \in AllNames \ {n} : IsEDB(k) => tables'[k] = tables[k]
      BY <1>0, <2>3, <2>4, <3>1, <3>2
    <3>4. QED
      BY <2>2, <3>1, <3>3, RowsStay, RowsWithout
  <2>8. QED
    BY <2>5, <2>6, <2>7
<1>6. ASSUME NEW n \in UserNames, NEW r \in Rows, Insert(n, r) PROVE RowsInv'
  <2>1. n \in AllNames /\ phase = "up" /\ phase' = "up" /\ twins' = twins /\ n[1] \in Names
    BY <1>6 DEF Insert, Ready, UserNames
  <2>2. CASE ~IsEDB(n)
    <3>1. /\ tables' = [tables EXCEPT ![n] = Memory(tables[n].label, tables[n].rows \cup {r})]
          /\ files' = files /\ kept' = kept
      BY <1>6, <2>1, <2>2 DEF Insert, TypeOK
    <3>2. \A k \in AllNames : IsEDB(k) => tables'[k] = tables[k]
      BY <2>2, <3>1 DEF TypeOK
    <3>3. QED
      BY <2>1, <3>1, <3>2, RowsStay, RowsMove
  <2>3. CASE IsEDB(n)
    <3>1. PICK s \in AllNames : s = tables[n].stem
      BY <1>0, <2>1, <2>3
    <3>2. /\ tables' = tables
          /\ files' = [files EXCEPT ![s] = File(tables[n].label, files[s].rows \cup {r})]
          /\ kept' = [kept EXCEPT ![n[1]] = kept[n[1]] \cup {r}]
      BY <1>6, <2>1, <2>3, <3>1 DEF Insert, TypeOK
    <3>3. File(tables[n].label, files[s].rows \cup {r}).rows = files[s].rows \cup {r}
      BY <2>1, StateFacts, FileFacts
    <3>4. \A f \in AllNames : files[f].rows \subseteq files'[f].rows
      BY <3>2, <3>3 DEF TypeOK
    <3>5. r \in files'[s].rows
      BY <3>2, <3>3 DEF TypeOK
    <3>6. ASSUME NEW b \in Names, ~Twinned(b), NEW q \in kept'[b]
          PROVE  \E k \in AllNames : /\ k[1] = b /\ IsEDB(k)
                                     /\ q \in files'[tables[k].stem].rows
      <4>1. CASE q \in kept[b]
        BY <1>0, <2>1, <3>4, <3>6, <4>1 DEF RowsInv
      <4>2. CASE q \notin kept[b]
        <5>1. b = n[1] /\ q = r
          BY <3>2, <3>6, <4>2 DEF TypeOK
        <5>2. QED
          BY <2>1, <2>3, <3>1, <3>5, <5>1
      <4>3. QED
        BY <4>1, <4>2
    <3>7. QED
      BY <2>1, <3>2, <3>6 DEF RowsInv, Twinned, IsEDB
  <2>4. QED
    BY <2>2, <2>3
<1>7. ASSUME NEW n \in PlainNames, NEW m \in UserNames, SelectInto(n, m) PROVE RowsInv'
  <2>1. /\ n \in AllNames /\ phase = "up" /\ phase' = "up" /\ twins' = twins
        /\ kept' = GivenUp(n) /\ files' = Flushed(n)
        /\ tables' = [tables EXCEPT ![n] = Memory(SelectResult, RowsOf(m))]
    BY <1>7, NameFacts DEF SelectInto, Ready
  <2>2. \A k \in AllNames \ {n} : tables'[k] = tables[k]
    BY <2>1 DEF TypeOK
  <2>3. \A f \in AllNames : files'[f].rows = files[f].rows
    BY <2>1, FlushedRows DEF Shape
  <2>4. QED
    BY <1>0, <2>1, <2>2, <2>3, RowsStay, RowsWithout
<1>8. ASSUME NEW n \in PlainNames, NEW m \in UserNames, SelectNothingInto(n, m)
      PROVE  RowsInv'
  <2>1. /\ n \in AllNames /\ phase = "up" /\ phase' = "down" /\ twins' = twins
        /\ kept' = GivenUp(n) /\ files' = Flushed(n)
    BY <1>8, NameFacts DEF SelectNothingInto, Ready
  <2>2. ASSUME NEW b \in Names, ~Twinned(b), NEW r \in kept'[b]
        PROVE  \E f \in AllNames : /\ files'[f].state = "whole"
                                   /\ files'[f].label[1] = b /\ r \in files'[f].rows
    <3>1. PICK k \in AllNames \ {n} : k[1] = b /\ IsEDB(k) /\ r \in RowsOf(k)
      BY <2>1, <2>2, RowsElsewhere
    <3>2. PICK f \in AllNames : f = tables[k].stem
      BY <1>0, <3>1
    <3>3. /\ files[f].state = "whole" /\ files[f].label \in {k, Plain(k[1])}
          /\ ~(IsEDB(n) /\ tables[n].stem = f)
      BY <2>1, <3>1, <3>2 DEF Shape, OneFilePerTable, TablesLabelled
    <3>4. files'[f] = files[f]
      BY <2>1, <3>3, FlushedFacts DEF Shape
    <3>5. r \in files[f].rows
      BY <3>1, <3>2 DEF RowsOf
    <3>6. Plain(k[1])[1] = k[1]
      BY NameFacts
    <3>7. QED
      BY <3>1, <3>3, <3>4, <3>5, <3>6
  <2>3. QED
    BY <2>1, <2>2 DEF RowsInv, Twinned
<1>9. ASSUME NEW r \in Rows, CopyRow(r) PROVE RowsInv'
  <2>1. PICK n \in AllNames : n = job.name
    BY DEF TypeOK, Job
  <2>2. phase = "up" /\ phase' = "up" /\ twins' = twins /\ kept' = kept
    BY <1>9, JobUp DEF CopyRow, history
  <2>3. CASE ~IsEDB(n)
    <3>1. /\ tables' = [tables EXCEPT ![n] = Memory(tables[n].label, tables[n].rows \cup {r})]
          /\ files' = files
      BY <1>9, <2>1, <2>3 DEF CopyRow, TypeOK
    <3>2. \A k \in AllNames : IsEDB(k) => tables'[k] = tables[k]
      BY <2>3, <3>1 DEF TypeOK
    <3>3. QED
      BY <2>2, <3>1, <3>2, RowsStay, RowsMove
  <2>4. CASE IsEDB(n)
    <3>1. PICK s \in AllNames : s = tables[n].stem
      BY <1>0, <2>4
    <3>2. /\ tables' = tables
          /\ files' = [files EXCEPT ![s] = File(tables[n].label, files[s].rows \cup {r})]
      BY <1>9, <2>1, <2>4, <3>1 DEF CopyRow, TypeOK
    <3>3. File(tables[n].label, files[s].rows \cup {r}).rows = files[s].rows \cup {r}
      BY StateFacts, FileFacts
    <3>4. \A f \in AllNames : files[f].rows \subseteq files'[f].rows
      BY <3>2, <3>3 DEF TypeOK
    <3>5. \A k \in AllNames : IsEDB(k) => IsEDB(k)' /\ RowsOf(k) \subseteq RowsOf(k)'
      BY <1>0, <3>2, <3>4 DEF IsEDB, RowsOf
    <3>6. QED
      BY <2>2, <3>5, RowsMove
  <2>5. QED
    BY <2>3, <2>4
<1>10. ASSUME FinishCreate PROVE RowsInv'
  <2>1. PICK n \in AllNames : n = job.name
    BY DEF TypeOK, Job
  <2>2. phase = "up" /\ phase' = "up" /\ twins' = twins /\ kept' = kept
    BY <1>10, JobUp DEF FinishCreate, Creating, history
  <2>3. ~IsEDB(n) /\ \A k \in AllNames : IsEDB(k) => tables[k].stem # n
    BY <1>0, <1>10, <2>1 DEF FinishCreate, JobInv, Exists
  <2>4. /\ files' = [files EXCEPT ![n] = File(n, {})]
        /\ tables' = [tables EXCEPT ![n] = EDB(n, n)]
    BY <1>10, <2>1 DEF FinishCreate
  <2>5. \A k \in AllNames : IsEDB(k) =>
          tables'[k] = tables[k] /\ files'[tables[k].stem] = files[tables[k].stem]
    BY <1>0, <2>3, <2>4 DEF TypeOK
  <2>6. QED
    BY <2>2, <2>5, RowsStay, RowsMove
<1>11. ASSUME TooManyColumns PROVE RowsInv'
  <2>1. PICK n \in AllNames : n = job.name
    BY DEF TypeOK, Job
  <2>2. phase = "up" /\ phase' = "up" /\ twins' = twins /\ kept' = kept
    BY <1>11, JobUp DEF TooManyColumns, history
  <2>3. \A k \in AllNames : IsEDB(k) => tables[k].stem # n
    BY <1>11, <2>1 DEF TooManyColumns, JobInv, Creating
  <2>4. files' = [files EXCEPT ![n] = File(Nameless, {})] /\ tables' = tables
    BY <1>11, <2>1 DEF TooManyColumns
  <2>5. \A k \in AllNames : IsEDB(k) => files'[tables[k].stem] = files[tables[k].stem]
    BY <1>0, <2>3, <2>4 DEF TypeOK
  <2>6. QED
    BY <2>2, <2>4, <2>5, RowsStay, RowsMove
<1>12. ASSUME AlterCreate PROVE RowsInv'
  <2>1. PICK n \in AllNames : n = job.name
    BY DEF TypeOK, Job
  <2>2. phase = "up" /\ phase' = "up" /\ twins' = twins /\ kept' = kept
    BY <1>12, JobUp DEF AlterCreate, history
  <2>3. n # Nameless /\ n[2] = 0 /\ ~IsEDB(n)
    BY <1>0, <1>12, <2>1, NameFacts DEF AlterCreate, JobInv, Altering, Exists
  <2>4. CASE ~FileOfNameless(n) /\ tables' = tables /\ files' = [files EXCEPT ![n] = Unfinished]
    <3>1. \A k \in AllNames : IsEDB(k) => tables[k].stem # n
      BY <2>3, <2>4, StemIsFree
    <3>2. \A k \in AllNames : IsEDB(k) => files'[tables[k].stem] = files[tables[k].stem]
      BY <1>0, <2>4, <3>1 DEF TypeOK
    <3>3. QED
      BY <2>2, <2>4, <3>2, RowsStay, RowsMove
  <2>5. CASE tables' = [tables EXCEPT ![n] = Memory(n, {})] /\ files' = files
    <3>1. \A k \in AllNames : IsEDB(k) => tables'[k] = tables[k]
      BY <2>3, <2>5 DEF TypeOK
    <3>2. QED
      BY <2>2, <2>5, <3>1, RowsStay, RowsMove
  <2>6. QED
    BY <1>12, <2>1, <2>4, <2>5 DEF AlterCreate, Truncating
<1>13. ASSUME CopyFails PROVE RowsInv'
  BY <1>13, JobUp, RowsStay, RowsMove DEF CopyFails, history
<1>14. ASSUME AlterEnd PROVE RowsInv'
  <2>1. PICK n \in AllNames, b \in AllNames : n = job.name /\ b = job.backup
    BY DEF TypeOK, Job
  <2>2. /\ phase = "up" /\ phase' = "up" /\ twins' = twins /\ kept' = kept
        /\ tables' = [tables EXCEPT ![b] = NoTable] /\ files' = Flushed(b)
    BY <1>14, <2>1, JobUp DEF AlterEnd, history
  <2>3. n # b /\ n[1] = b[1] /\ (IsEDB(b) => IsEDB(n) /\ RowsOf(b) \subseteq RowsOf(n))
    BY <1>14, <2>1, NameFacts DEF AlterEnd, JobInv, Altering
  <2>4. \A f \in AllNames : files'[f].rows = files[f].rows
    BY <2>1, <2>2, FlushedRows DEF Shape
  <2>5. \A k \in AllNames \ {b} : tables'[k] = tables[k]
    BY <2>2 DEF TypeOK
  <2>6. \A k \in AllNames \ {b} : IsEDB(k) => IsEDB(k)' /\ RowsOf(k)' = RowsOf(k)
    BY <1>0, <2>4, <2>5, RowsStay
  <2>7. \A k \in AllNames : IsEDB(k) =>
          \E m \in AllNames : m[1] = k[1] /\ IsEDB(m)' /\ RowsOf(k) \subseteq RowsOf(m)'
    BY <2>3, <2>6
  <2>8. QED
    BY <2>2, <2>7, RowsMove
<1>15. ASSUME Tick PROVE RowsInv'
  BY <1>15 DEF Tick, history, RowsInv, Twinned, IsEDB
<1>16. ASSUME Close PROVE RowsInv'
  <2>1. phase = "up" /\ phase' = "down" /\ twins' = twins /\ kept' = kept
    BY <1>16 DEF Close, Ready, history
  <2>2. ASSUME NEW b \in Names, ~Twinned(b), NEW r \in kept[b]
        PROVE  \E f \in AllNames : /\ files'[f].state = "whole"
                                   /\ files'[f].label[1] = b /\ r \in files'[f].rows
    <3>1. PICK n \in AllNames : n[1] = b /\ IsEDB(n) /\ r \in files[tables[n].stem].rows
      BY <2>1, <2>2 DEF RowsInv
    <3>2. PICK f \in AllNames : f = tables[n].stem
      BY <1>0, <3>1
    <3> DEFINE k == CHOOSE k \in AllNames : IsEDB(k) /\ tables[k].stem = f
    <3>3. k \in AllNames /\ IsEDB(k) /\ tables[k].stem = f
      BY <3>1, <3>2
    <3>4. files'[f] = File(tables[k].label, files[f].rows)
      BY <1>16, <3>3 DEF Close
    <3> HIDE DEF k
    <3>5. k = n /\ tables[k].label = n
      BY <3>1, <3>2, <3>3 DEF Shape, OneFilePerTable
    <3>6. files[f].rows \in SUBSET Rows
      BY StateFacts
    <3>7. files'[f].state = "whole" /\ files'[f].label = n /\ files'[f].rows = files[f].rows
      BY <3>4, <3>5, <3>6, FileFacts
    <3>8. QED
      BY <3>1, <3>2, <3>7
  <2>3. QED
    BY <2>1, <2>2 DEF RowsInv, Twinned
<1>17. ASSUME Crash PROVE RowsInv'
  <2>1. phase = "up" /\ phase' = "down" /\ twins' = twins /\ kept' = kept /\ files' = files
    BY <1>17 DEF Crash
  <2>2. ASSUME NEW b \in Names, ~Twinned(b), NEW r \in kept[b]
        PROVE  \E f \in AllNames : /\ files[f].state = "whole"
                                   /\ files[f].label[1] = b /\ r \in files[f].rows
    <3>1. PICK n \in AllNames : n[1] = b /\ IsEDB(n) /\ r \in files[tables[n].stem].rows
      BY <2>1, <2>2 DEF RowsInv
    <3>2. /\ files[tables[n].stem].state = "whole"
          /\ files[tables[n].stem].label \in {n, Plain(n[1])}
      BY <3>1 DEF Shape, OneFilePerTable, TablesLabelled
    <3>3. Plain(n[1])[1] = n[1]
      BY NameFacts
    <3>4. QED
      BY <1>0, <3>1, <3>2, <3>3
  <2>3. QED
    BY <2>1, <2>2 DEF RowsInv, Twinned
<1>18. ASSUME Open PROVE RowsInv'
  <2>1. phase # "up" /\ kept' = kept /\ files' = files
    BY <1>18 DEF Open
  <2>2. CASE phase' # "up"
    <3>1. twins' = twins
      BY <1>18, <2>2 DEF Open
    <3>2. QED
      BY <2>1, <2>2, <3>1 DEF RowsInv, Twinned
  <2>3. CASE phase' = "up"
    <3>1. PICK chosen \in SUBSET {f \in AllNames : files[f].state = "whole"} :
            FirstOfEach(chosen) /\ tables' = Opened(chosen)
      BY <1>18, <2>3 DEF Open
    <3>2. twins' = twins \cup {n \in AllNames : \E f, g \in Labelled(n) : f # g}
      BY <1>18, <2>3 DEF Open
    <3>3. ASSUME NEW b \in Names, ~Twinned(b)', NEW r \in kept[b]
          PROVE  \E n \in AllNames : /\ n[1] = b /\ IsEDB(n)'
                                     /\ r \in files[tables'[n].stem].rows
      <4>1. ~Twinned(b)
        BY <3>2, <3>3 DEF Twinned
      <4>2. PICK f \in AllNames : /\ files[f].state = "whole"
                                  /\ files[f].label[1] = b /\ r \in files[f].rows
        BY <2>1, <4>1 DEF RowsInv
      <4>3. PICK n \in AllNames : n = files[f].label
        BY StateFacts
      <4>4. f \in Labelled(n)
        BY <4>2, <4>3 DEF Labelled
      <4>5. \A g \in Labelled(n) : g = f
        BY <3>2, <3>3, <4>2, <4>3, <4>4 DEF Twinned
      <4>6. PICK g \in chosen : files[g].label = n /\ tables'[n] = EDB(g, n)
        BY <3>1, <4>4, OpenedFacts
      <4>7. g = f
        BY <4>5, <4>6 DEF Labelled
      <4>8. QED
        BY <4>2, <4>3, <4>6, <4>7, TableFacts DEF IsEDB
    <3>4. QED
      BY <2>1, <2>3, <3>3 DEF RowsInv
  <2>4. QED
    BY <2>2, <2>3
<1>19. CASE UNCHANGED vars
  BY <1>19 DEF vars, history, RowsInv, Twinned, IsEDB
<1>20. ASSUME NEW n \in PlainNames, AlterCollides(n) PROVE RowsInv'
  <2>1. /\ n \in AllNames /\ phase = "up" /\ phase' = "up" /\ twins' = twins
        /\ kept' = GivenUp(n)
    BY <1>20, AlterCollidesType
  <2>2. /\ files' = Flushed(n)
        /\ \A k \in AllNames \ {n} : IsEDB(k) => tables'[k] = tables[k]
    BY <1>20, AlterCollidesFacts DEF Shape
  <2>3. \A f \in AllNames : files'[f].rows = files[f].rows
    BY <2>1, <2>2, FlushedRows DEF Shape
  <2>4. QED
    BY <1>0, <2>1, <2>2, <2>3, RowsStay, RowsWithout
<1>21. QED
  BY <1>1, <1>2, <1>3, <1>4, <1>5, <1>6, <1>7, <1>8, <1>9, <1>10, <1>11, <1>12, <1>13,
     <1>14, <1>15, <1>16, <1>17, <1>18, <1>19, <1>20 DEF Next

-----------------------------------------------------------------------------
(***************************************************************************)
(* The theorems.                                                           *)
(***************************************************************************)

\* The invariant holds at first.
LEMMA InitInv == Init => Inv
<1> SUFFICES ASSUME Init PROVE Inv
  OBVIOUS
<1>1. TypeOK
  BY InitType
<1>2. \A n \in AllNames : ~IsEDB(n) /\ files[n].state = "absent"
  BY TableFacts, FileFacts DEF Init, IsEDB
<1>3. Shape /\ LabelsInv
  BY <1>2 DEF Init, Shape, FilesLabelled, OneFilePerTable, TablesLabelled, LabelsInv
<1>4. JobInv
  BY IdleType DEF Init, JobInv, Creating, Altering
<1>5. UnfinishedInv /\ OpensAgain
  BY <1>2 DEF Init, UnfinishedInv, OpensAgain
<1>6. RowsInv
  BY DEF Init, RowsInv
<1>7. QED
  BY <1>1, <1>3, <1>4, <1>5, <1>6 DEF Inv, Shape

\* Every step keeps the invariant.
LEMMA InvStep == Inv /\ [Next]_vars => Inv'
<1> SUFFICES ASSUME Inv, [Next]_vars PROVE Inv'
  OBVIOUS
<1>1. TypeOK /\ Shape /\ LabelsInv /\ JobInv /\ UnfinishedInv /\ RowsInv /\ OpensAgain
  BY DEF Inv, Shape
<1>2. TypeOK' /\ Shape' /\ LabelsInv' /\ JobInv' /\ UnfinishedInv' /\ RowsInv' /\ OpensAgain'
  BY <1>1, TypeStep, LabelsStep, JobStep, UnfinishedStep, OpensStep, RowsStep
<1>3. QED
  BY <1>2 DEF Inv, Shape

\* The invariant, which the theorems below are parts of.
THEOREM CatalogInvariant == Spec => []Inv
<1>1. Init => Inv
  BY InitInv
<1>2. Inv /\ [Next]_vars => Inv'
  BY InvStep
<1>3. QED
  BY <1>1, <1>2, PTL DEF Spec

\* Every key of Database::m_tables, file of the directory and running statement
\* has its type.
THEOREM TypeCorrect == Spec => []TypeOK
<1>1. Inv => TypeOK
  BY DEF Inv
<1>2. QED
  BY <1>1, CatalogInvariant, PTL

\* No two tables of Database::m_tables have one file, each file-backed table has
\* a finished one, and its key is the name in its header.
THEOREM TablesHaveTheirFiles == Spec => []OneFilePerTable
<1>1. Inv => OneFilePerTable
  BY DEF Inv
<1>2. QED
  BY <1>1, CatalogInvariant, PTL

\* restructure_table, failed or interrupted anywhere, leaves every row in a file
\* of the table or of a backup.  The rows that do not count are those of a table
\* that was dropped, truncated or replaced, of one whose restructure_table found
\* the name of its backup taken (Database.cpp:86-88 destroys it), and of a name
\* that two files had when the directory was opened.
THEOREM RowsAreKept == Spec => []NoRowLost
<1>1. ASSUME Inv PROVE NoRowLost
  <2> SUFFICES ASSUME NEW b \in Names, ~Twinned(b), NEW r \in kept[b]
               PROVE  \E f \in AllNames : f[1] = b /\ r \in files[f].rows
    BY DEF NoRowLost
  <2>1. b # "nameless"
    BY CatalogAssumption
  <2>2. CASE phase = "up"
    <3>1. PICK n \in AllNames : n[1] = b /\ IsEDB(n) /\ r \in files[tables[n].stem].rows
      BY <1>1, <2>2 DEF Inv, RowsInv
    <3>2. MayLabel(tables[n].stem, n) /\ tables[n].stem \in AllNames
      BY <1>1, <3>1, StateFacts DEF Inv, TablesLabelled
    <3>3. tables[n].stem[1] = b
      BY <2>1, <3>1, <3>2, NameFacts DEF MayLabel
    <3>4. QED
      BY <3>1, <3>2, <3>3
  <2>3. CASE phase # "up"
    <3>1. PICK f \in AllNames : /\ files[f].state = "whole"
                                /\ files[f].label[1] = b /\ r \in files[f].rows
      BY <1>1, <2>3 DEF Inv, RowsInv
    <3>2. MayLabel(f, files[f].label)
      BY <1>1, <3>1 DEF Inv, FilesLabelled
    <3>3. f[1] = b
      BY <2>1, <3>1, <3>2, NameFacts DEF MayLabel
    <3>4. QED
      BY <3>1, <3>3
  <2>4. QED
    BY <2>2, <2>3
<1>2. QED
  BY <1>1, CatalogInvariant, PTL

\* Between statements those rows, with the same exceptions, are in tables of
\* m_tables.
THEOREM RowsAreReadable == Spec => []RowsCanBeRead
<1>1. ASSUME Inv PROVE RowsCanBeRead
  BY <1>1 DEF Inv, RowsInv, RowsCanBeRead, Ready, RowsIn, OpenOf, RowsOf
<1>2. QED
  BY <1>1, CatalogInvariant, PTL

\* Two files open under one name only if EDBFile::rename's header was lost.
THEOREM TwinsComeFromRename == Spec => []TwinsNeedALostLabel
<1>1. ASSUME Inv PROVE TwinsNeedALostLabel
  BY <1>1 DEF Inv, LabelsInv, TwinsNeedALostLabel
<1>2. QED
  BY <1>1, CatalogInvariant, PTL

\* create_or_open_file_backed fails only after an interrupted creation.
THEOREM DirectoryOpens == Spec => []OpensAgain
<1>1. Inv => OpensAgain
  BY DEF Inv
<1>2. QED
  BY <1>1, CatalogInvariant, PTL

=============================================================================
