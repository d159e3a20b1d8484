------------------------------ MODULE CsvFile -------------------------------
(***************************************************************************)
(* CSV files: Table::export_to_csv (db/core/Table.cpp) writes a table line *)
(* by line, CSVFile::do_import (db/storage/CSVFile.cpp) reads it line by   *)
(* line, guesses the types of its columns unless it is told them, and      *)
(* makes values of the fields.                                             *)
(*                                                                         *)
(* A text is a sequence of the codes of its characters; the word "null" is *)
(* the one symbol NullWord.  A value is NULL, an INT of at most two        *)
(* digits, perhaps negative, or a VARCHAR.                                 *)
(***************************************************************************)
EXTENDS Integers, SequencesExt

CONSTANT Exports  \* the tables to export: hint (import with types) and rows

VARIABLES
  exported,  \* the table: columns (their types), rows, and hint
  file,      \* the characters of the file
  lines,     \* column_names and rows: the fields of the lines read so far
  imported,  \* m_rows
  csv        \* what comes next: header, export, open, read, import, done, error

csvVars == <<exported, file, lines, imported, csv>>

Newline == 10
Blank == 32
DoubleQuote == 34
Quote == 39
Comma == 44
Minus == 45
Semicolon == 59
ColumnName == 99
NullWord == 1000
Separators == {Comma, Semicolon}
Quotes == {Quote, DoubleQuote}
Whitespace == {Blank, Newline}
Digits == 48..57

NullCell == [type |-> "null", v |-> 0]
IntCell(n) == [type |-> "int", v |-> n]
TextCell(s) == [type |-> "varchar", v |-> s]

Decimal(n) == (IF n < 10 THEN <<>> ELSE <<48 + (n \div 10)>>) \o <<48 + (n % 10)>>
TextOfCell(cell) ==
  CASE cell.type = "null" -> <<NullWord>>
    [] cell.type = "int" -> IF cell.v < 0 THEN <<Minus>> \o Decimal(-cell.v) ELSE Decimal(cell.v)
    [] cell.type = "varchar" -> cell.v

CsvInit ==
  /\ exported \in Exports
  /\ file = <<>> /\ lines = <<>> /\ imported = <<>>
  /\ csv = "header"

(***************************************************************************)
(* Table::export_to_csv                                                    *)
(***************************************************************************)
(* Fields are separated by commas; nothing is quoted. *)
Joined(fields) ==
  FlattenSeq([i \in DOMAIN fields |->
    fields[i] \o (IF i < Len(fields) THEN <<Comma>> ELSE <<Newline>>)])

ExportHeader ==
  /\ csv = "header"
  /\ file' = Joined([i \in DOMAIN exported.columns |-> <<ColumnName>>])
  /\ csv' = "export"
  /\ UNCHANGED <<exported, lines, imported>>

RowsWritten == Cardinality({i \in DOMAIN file : file[i] = Newline}) - 1

ExportRow(r) ==
  /\ csv = "export"
  /\ file' = file \o Joined([i \in DOMAIN exported.rows[r] |-> TextOfCell(exported.rows[r][i])])
  /\ csv' = IF r = Len(exported.rows) THEN "open" ELSE "export"
  /\ UNCHANGED <<exported, lines, imported>>

ExportNothing ==
  /\ csv = "export" /\ exported.rows = <<>>
  /\ csv' = "open"
  /\ UNCHANGED <<exported, file, lines, imported>>

(***************************************************************************)
(* CSVFile::do_import.  `file` is what is left of the stream.              *)
(***************************************************************************)
FromFirst(s, Stop(_)) ==
  LET stops == {i \in DOMAIN s : Stop(s[i])}
  IN IF stops = {} THEN Len(s) + 1 ELSE CHOOSE i \in stops : \A j \in stops : i <= j
SkipBlanks(s) ==
  LET Letter(c) == c \notin Whitespace IN SubSeq(s, FromFirst(s, Letter), Len(s))

(* std::ws skips empty lines before the header as well. *)
OpenFile ==
  /\ csv = "open"
  /\ file' = SkipBlanks(file)
  /\ csv' = IF SkipBlanks(file) = <<>> THEN "error" ELSE "read"
  /\ UNCHANGED <<exported, lines, imported>>

Skipped(s, C) == IF s # <<>> /\ s[1] \in C THEN Tail(s) ELSE s

(* A field ends at a separator, or at the quote it began with; a line that *)
(* ends with a separator has no field behind it.                           *)
RECURSIVE Fields(_)
Fields(line) ==
  LET s == SkipBlanks(line)
      quoted == s # <<>> /\ s[1] \in Quotes
      body == IF quoted THEN Tail(s) ELSE s
      Ends(c) == IF quoted THEN c = s[1] ELSE c \in Separators
      end == FromFirst(body, Ends)
      rest == Skipped(SubSeq(body, end, Len(body)), Quotes)
  IN IF s = <<>> THEN <<>>
     ELSE <<SubSeq(body, 1, end - 1)>> \o Fields(Skipped(SkipBlanks(rest), Separators))

(* A line without fields, or the end of the file, ends the table. *)
ReadLine ==
  /\ csv = "read"
  /\ LET IsNewline(c) == c = Newline
         end == FromFirst(file, IsNewline)
         fields == Fields(SubSeq(file, 1, end - 1))
     IN /\ file' = SubSeq(file, end + 1, Len(file))
        /\ \/ /\ fields = <<>>
              /\ csv' = IF lines = <<>> THEN "error" ELSE "import"
              /\ UNCHANGED lines
           \/ /\ fields # <<>>
              /\ IF lines # <<>> /\ Len(fields) # Len(lines[1])
                 THEN csv' = "error" /\ UNCHANGED lines
                 ELSE lines' = Append(lines, fields) /\ UNCHANGED csv
  /\ UNCHANGED <<exported, imported>>

(* find_type *)
FindType(s) ==
  IF s = <<NullWord>> THEN "null"
  ELSE IF \A i \in DOMAIN s : s[i] \in Digits THEN "int" ELSE "varchar"

FirstType(type, s) == IF type = "null" THEN FindType(s) ELSE type   \* no second look

(* The first field that is not null gives the type, and an INT becomes a   *)
(* VARCHAR where a field demands it.                                       *)
NextType(type, s) ==
  IF type = "null" \/ (type = "int" /\ FindType(s) = "varchar") THEN FindType(s) ELSE type

TypeOfColumn(c) ==
  IF exported.hint THEN exported.columns[c]
  ELSE FoldLeft(NextType, "null", [r \in 1..(Len(lines) - 1) |-> lines[r + 1][c]])

(* Value::from_string: std::stoi reads the digits it finds. *)
NoValue == [type |-> "error", v |-> 0]
IntIn(s) ==
  LET negative == s # <<>> /\ s[1] = Minus
      number == IF negative THEN Tail(s) ELSE s
      NoDigit(c) == c \notin Digits
      digits == SubSeq(number, 1, FromFirst(number, NoDigit) - 1)
      Add(n, c) == 10 * n + c - 48
      value == FoldLeft(Add, 0, digits)
  IN IF digits = <<>> THEN NoValue ELSE IntCell(IF negative THEN -value ELSE value)
CellOf(s, type) ==
  CASE s = <<NullWord>> -> NullCell
    [] s # <<NullWord>> /\ type = "varchar" -> TextCell(s)
    [] s # <<NullWord>> /\ type = "int" -> IntIn(s)
    [] s # <<NullWord>> /\ type = "null" -> NoValue

(* Of a hint with more columns than the file has the row is read beyond    *)
(* its end; the tables of Exports are read with their own columns.         *)
ImportRow ==
  /\ csv = "import" /\ Len(imported) < Len(lines) - 1
  /\ LET fields == lines[Len(imported) + 2]
         row == <<>> \o [c \in DOMAIN exported.columns |-> CellOf(fields[c], TypeOfColumn(c))]
     IN IF \E c \in DOMAIN row : row[c] = NoValue
        THEN csv' = "error" /\ UNCHANGED imported
        ELSE imported' = Append(imported, row) /\ UNCHANGED csv
  /\ UNCHANGED <<exported, file, lines>>

Imported ==
  /\ csv = "import" /\ Len(imported) = Len(lines) - 1
  /\ csv' = "done"
  /\ UNCHANGED <<exported, file, lines, imported>>

CsvNext ==
  \/ ExportHeader \/ ExportNothing
  \/ \E r \in DOMAIN exported.rows : r = RowsWritten + 1 /\ ExportRow(r)
  \/ OpenFile \/ ReadLine \/ ImportRow \/ Imported

(***************************************************************************)
(* Properties                                                              *)
(***************************************************************************)
Texts(rows) == {row[c] : row \in ToSet(rows), c \in DOMAIN exported.columns}

(* What an exported text must be to come back as itself *)
IsPlain(cell) ==
  cell.type = "varchar" =>
    /\ cell.v \notin {<<>>, <<NullWord>>}
    /\ cell.v[1] \notin Whitespace \cup Quotes
    /\ \A i \in DOMAIN cell.v : cell.v[i] \notin Separators \cup {Newline}
    /\ ~exported.hint /\ Len(cell.v) > 1 => cell.v[1] # 48

(* A table whose texts are not empty, are not the word null, do not begin  *)
(* with a blank or a quote, and hold no separator and no end of line, is   *)
(* read back as it was exported: the same values when the types of the     *)
(* columns are given, and values of the same text when they are guessed    *)
(* (from a text that begins with 0 a guess may take the 0 away).           *)
CsvReadsBack ==
  csv \in {"done", "error"} /\ (\A cell \in Texts(exported.rows) : IsPlain(cell)) =>
    /\ csv = "done"
    /\ Len(imported) = Len(exported.rows)
    /\ \A r \in DOMAIN imported, c \in DOMAIN exported.columns :
         IF exported.hint THEN imported[r][c] = exported.rows[r][c]
         ELSE TextOfCell(imported[r][c]) = TextOfCell(exported.rows[r][c])

=============================================================================
