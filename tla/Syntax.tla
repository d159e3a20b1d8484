------------------------------- MODULE Syntax -------------------------------
(***************************************************************************)
(* Syntax: the lexer on short texts and the parser on short sequences of   *)
(* tokens.  A behaviour lexes one text or parses one sequence; the two     *)
(* meet only in the types of the tokens, and each would have the other's   *)
(* states to no purpose.                                                   *)
(***************************************************************************)
EXTENDS SqlLexer, SqlParser

vars == <<lexVars, parseVars>>

NoAlphabet == [entry |-> "none", given |-> <<>>, types |-> {}, max |-> 0]

Init ==
  \/ /\ LexInit
     /\ alphabet = NoAlphabet /\ tokens = <<>> /\ at = 0 /\ stack = <<>> /\ values = <<>>
     /\ parsing = "idle"
  \/ /\ ParseInit
     /\ input = <<>> /\ pos = 0 /\ out = <<>> /\ lexing = "idle"

Next ==
  \/ LexNext /\ UNCHANGED parseVars
  \/ ParseNext /\ UNCHANGED lexVars

(* Lexer and parser are called and run to their end, without waiting. *)
Spec == Init /\ [][Next]_vars /\ WF_vars(Next)

(* Every text becomes tokens, and every sequence of tokens a statement or  *)
(* an error: the loops of the lexer and the calls of the parser end.       *)
SyntaxEnds == <>(lexing # "runs" /\ parsing # "runs")

-----------------------------------------------------------------------------
(* The instance of the run *)
UpTo(n, A) == UNION {[1..k -> A] : k \in 0..n}
MCInputs ==
  UpTo(5, {79, 114, 49, Period, Blank}) \cup UpTo(5, {Minus, Blank, Newline, 49})
    \cup UpTo(4, {39, 35, 91, 93, Blank, 49, Byte}) \cup UpTo(3, {Bang, Equal, 42, 64, 95, Blank})
MCKeywords == {<<79, 82>>}

Parsed(entry, given, types, more) ==
  [entry |-> entry, given |-> given, types |-> types, max |-> Len(given) + more]

SelectOf(types, more) == Parsed("statement", <<"SELECT">>, types, more)
SelectAll(given, types, more) == Parsed("statement", <<"SELECT", "*", "FROM">> \o given, types, more)
ColumnThen(types, more) ==
  Parsed("statement", <<"CREATE", "TABLE", "name", "(", "name", "INT">>, types, more)

MCAlphabets ==
  {SelectOf({"int", "-", "*", "/", "=", "AND", "OR"}, 7),
   SelectOf({"int", "COUNT", "name", "*", "(", ")", ",", "."}, 5),
   SelectOf({"int", "=", "BETWEEN", "AND", "(", ")"}, 6),
   SelectOf({"int", "IN", "IS", "NOT", "NULL", "(", ")", ","}, 6),
   SelectOf({"int", "CASE", "WHEN", "THEN", "ELSE", "END", "bigint", "date"}, 8),
   SelectOf({"DISTINCT", "TOP", "int", "PERC", "name", "INTO", "FROM", "AS", ";", "*"}, 6),
   SelectOf({"*", "int", "UNION", "ALL", "SELECT", "(", ")"}, 5),
   Parsed("statement", <<"SELECT", "COUNT", "(", "int">>,
          {")", "OVER", "(", "PARTITION", "BY", "name", "AS"}, 7),
   SelectAll(<<"name">>, {"WHERE", "GROUP", "PARTITION", "HAVING", "BY", "ORDER", "int",
                          "bigint", "name", ",", "ASC"}, 6),
   Parsed("statement", <<"SELECT", "int">>, {"ORDER", "BY", "int", "bigint", ",", "ASC"}, 6),
   SelectAll(<<>>, {"name", "LEFT", "FULL", "OUTER", "JOIN", "ON", "=", ".", ","}, 9),
   SelectAll(<<>>, {"name", "AS", ",", "(", ")", "SELECT"}, 5),
   Parsed("statement", <<"CREATE">>,
          {"TABLE", "IF", "NOT", "EXISTS", "name", "(", "INT", ")", ",", "ENGINE", "EDB"}, 9),
   ColumnThen({"FOREIGN", "KEY", "REFERENCES", "name", "(", ")", "UNIQUE"}, 8),
   ColumnThen({"UNIQUE", "NOT", "NULL", "PRIMARY", "KEY", "DEFAULT", "int", "AUTO_INCREMENT",
               "name", ")"}, 5),
   ColumnThen({"CHECK", "CONSTRAINT", "name", "int", ",", "INT", ")"}, 7),
   Parsed("statement", <<"ALTER", "TABLE">>,
          {"IF", "NOT", "EXISTS", "name", "INT", "ADD", "ALTER", "DROP", "COLUMN", "CHECK",
           "CONSTRAINT", "int", ","}, 7),
   Parsed("list", <<>>, {"DELETE", "FROM", "name", "WHERE", "int", "UPDATE", "SET", "=", "SHOW",
                         "TABLES", "PRINT", "DROP", "TRUNCATE", "TABLE", ";"}, 7),
   Parsed("list", <<"INSERT", "INTO">>,
          {"name", "(", ")", ",", "int", "VALUES", "SELECT", ";"}, 8),
   Parsed("statement", <<>>, {"IMPORT", "CSV", "string", "INTO", "name", "ENGINE", "EDB"}, 8)}

=============================================================================
