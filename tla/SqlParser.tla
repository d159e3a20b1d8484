----------------------------- MODULE SqlParser ------------------------------
(***************************************************************************)
(* The recursive descent parser of SQL (db/sql/Parser.cpp) as a machine    *)
(* with a stack: a goal on the stack is a call or a token check that is    *)
(* still to be made, the next goal first.  The functions of the parser     *)
(* look at one token, so each of them is an operator from that token to    *)
(* the goals of its body.  Only expressions leave a tree, on `values`.     *)
(*                                                                         *)
(* A token is its type; an identifier that the parser compares with a word *)
(* stands for itself ("COUNT", "LEFT").  The parser meets the tokens one   *)
(* after the other, and so they are chosen: TypeToken is what the lexer    *)
(* has done before.                                                        *)
(***************************************************************************)
EXTENDS Integers, SequencesExt

CONSTANT Alphabets  \* what is parsed: entry, given (first tokens), types, max

VARIABLES
  alphabet,  \* the one of Alphabets
  tokens,    \* m_tokens, as far as they were looked at
  at,        \* m_offset
  stack,     \* the goals
  values,    \* the expressions parsed so far
  parsing    \* "runs", "accepted", "error", "thrown", "undefined" or "idle"

parseVars == <<alphabet, tokens, at, stack, values, parsing>>

(***************************************************************************)
(* Goals                                                                   *)
(***************************************************************************)
Tok(type) == <<"expect", {type}>>
Leaf(types) == <<"leaf", types>>        \* a token that becomes a value
Loose(types) == <<"loose", types>>      \* its error names the token behind
Unchecked(type) == <<"unchecked", {type}>>  \* the error is not returned
Opt(type, goals) == <<"optional", {type}, <<Tok(type)>> \o goals>>
Rule(name, arg) == <<"rule", name, arg>>
Collect(kind, depth) == <<"collect", kind, depth>>  \* the values above depth
Stop(outcome) == <<"stop", outcome>>
MayFail == <<"may fail">>               \* an error that depends on the value

Names == {"name", "COUNT", "LEFT", "INT", "AUTO_INCREMENT", "CSV", "EDB", "PERC"}
Ident == <<"expect", Names>>
Literals == {"int", "bigint", "string", "date", "NULL"}
More(name, arg) == Opt(",", <<Rule(name, arg)>>)

Select == Rule("select", 0)
Expression == Rule("expression", 0)
TableExpression == Rule("table", 0)
Column == <<Ident, Tok("INT"), Rule("params", {})>>
Engine == Opt("ENGINE", <<Tok("EDB")>>)

(***************************************************************************)
(* Statements                                                              *)
(***************************************************************************)
(* statement_list[0] of an empty list is read. *)
ParseStatementList(t, first) ==
  IF t = "Eof" THEN IF first THEN <<Stop("undefined")>> ELSE <<>>
  ELSE <<Rule("statement", 0), Tok(";"), Rule("list", FALSE)>>

ParseCreateTable ==
  <<Tok("CREATE"), Tok("TABLE"), Opt("IF", <<Tok("NOT"), Tok("EXISTS")>>), Ident,
    Opt("(", <<Rule("columns", FALSE), Tok(")"), Engine>>)>>
ParseDropOrTruncate(t) ==
  <<Tok(t), Tok("TABLE"), Opt("IF", <<Tok("EXISTS")>>), Ident>>
ParseAlterTable ==
  <<Tok("ALTER"), Tok("TABLE"), Opt("IF", <<Opt("NOT", <<>>), Tok("EXISTS")>>), Ident,
    Rule("option", 0)>>
ParseDeleteFrom == <<Tok("DELETE"), Tok("FROM"), Ident, Opt("WHERE", <<Expression>>)>>

(* Without a list of columns only VALUES may follow. *)
ParseInsertInto == <<Tok("INSERT"), Tok("INTO"), Ident, Rule("insert", 0)>>
ParseInsertBody(t) ==
  CASE t = "(" -> <<Tok(t), Rule("names", 0), Tok(")"), Rule("source", 0)>>
    [] t = "VALUES" -> <<Rule("source", 0)>>
    [] OTHER -> <<>>
ParseSource(t) ==
  CASE t = "VALUES" -> <<Tok(t), Rule("arguments", 0)>>
    [] t = "SELECT" -> <<Select>>
    [] OTHER -> <<Stop("error")>>

LooseUpdate == <<Tok("UPDATE"), Loose(Names), Rule("set", 0)>>   \* the error of another token
ParseUpdate == <<Tok("UPDATE"), Ident, Rule("set", 0)>>
ParseSet == <<Tok("SET"), Ident, Tok("="), Expression, More("set", 0)>>
ParseImport ==
  <<Tok("IMPORT"), Tok("CSV"), Tok("string"), Tok("INTO"), Ident, Engine>>

ParseStatement(t) ==
  CASE t = "SELECT" -> <<Select, Opt("UNION", <<Opt("ALL", <<>>), Select>>)>>
    [] t = "CREATE" -> ParseCreateTable
    [] t \in {"DROP", "TRUNCATE"} -> ParseDropOrTruncate(t)
    [] t = "ALTER" -> ParseAlterTable
    [] t = "DELETE" -> ParseDeleteFrom
    [] t = "INSERT" -> ParseInsertInto
    [] t = "UPDATE" -> ParseUpdate
    [] t = "IMPORT" -> ParseImport
    [] t = "SHOW" -> <<Tok("SHOW"), Tok("TABLES")>>
    [] t = "PRINT" -> <<Tok("PRINT"), Rule("statement", 0)>>
    [] OTHER -> <<Stop("error")>>

(* What follows a column of CREATE TABLE; hasCheck: the CHECK of the table *)
(* was given.                                                              *)
ParseChecks(t, hasCheck) ==
  CASE t = "CHECK" /\ hasCheck -> <<Stop("error")>>
    [] t = "CHECK" /\ ~hasCheck -> <<Tok("CHECK"), Expression, Rule("checks", TRUE)>>
    [] t = "CONSTRAINT" ->
         <<Tok("CONSTRAINT"), Ident, MayFail, Tok("CHECK"), Expression, Rule("checks", hasCheck)>>
    [] OTHER -> <<More("columns", hasCheck)>>

(* parse_column; set: which of unique, not_null and default_value are set *)
ParseParams(t, set) ==
  LET Then(adds, without) ==
        IF without \cap set = {} THEN <<Rule("params", set \cup adds)>> ELSE <<Stop("error")>>
  IN CASE t = "AUTO_INCREMENT" -> <<Tok(t), Rule("params", set)>>
       [] t \in Names \ {"AUTO_INCREMENT"} -> <<Stop("error")>>
       [] t = "UNIQUE" -> <<Tok(t)>> \o Then({"unique"}, {"unique"})
       [] t = "NOT" -> <<Tok(t), Tok("NULL")>> \o Then({"not null"}, {"not null"})
       [] t = "DEFAULT" -> <<Tok(t), Rule("literal", 0)>> \o Then({"default"}, {"default"})
       [] t = "PRIMARY" ->
            <<Tok(t), Tok("KEY")>> \o Then({"unique", "not null"}, {"unique", "not null"})
       [] t = "FOREIGN" ->
            <<Tok(t), Tok("KEY"), Tok("REFERENCES"), Ident, Tok("("), Ident, Tok(")"),
              Rule("params", set)>>
       [] OTHER -> <<>>

(* A check that is added, altered or dropped twice is no error: the return *)
(* is missing.                                                             *)
ParseOption(t) ==
  IF t \in {"ADD", "ALTER", "DROP"} THEN <<Tok(t), Rule("thing", t), More("option", 0)>>
  ELSE <<Stop("error")>>
ParseThing(t, verb) ==
  CASE t = "CHECK" -> <<Tok(t)>> \o (IF verb = "DROP" THEN <<>> ELSE <<Expression>>)
    [] t = "CONSTRAINT" ->
         <<Tok(t), Ident>> \o (IF verb = "DROP" THEN <<>> ELSE <<Tok("CHECK"), Expression>>)
    [] t = "COLUMN" /\ verb = "ALTER" -> <<Tok(t)>> \o Column
    [] t = "COLUMN" /\ verb = "DROP" -> <<Tok(t), Rule("names", 0)>>
    [] t \in Names /\ verb = "ADD" -> Column
    [] OTHER -> <<Loose({})>>

(***************************************************************************)
(* SELECT and its tables                                                   *)
(***************************************************************************)
(* byIndex: a column may be named by its number in ORDER BY. *)
Clauses(byIndex) ==
  <<Opt("INTO", <<Ident>>), Opt("FROM", <<TableExpression>>), Opt("WHERE", <<Expression>>),
    Opt("GROUP", <<Loose({"BY"}), Rule("expressions", 0)>>),
    Opt("PARTITION", <<Loose({"BY"}), Rule("expressions", 0)>>),
    Opt("HAVING", <<Expression>>),
    Opt("ORDER", <<Loose({"BY"}), Rule("order", byIndex)>>)>>

ParseSelect ==
  <<Tok("SELECT"), Opt("DISTINCT", <<>>), Opt("TOP", <<Tok("int"), Opt("PERC", <<>>)>>),
    Rule("what", 0)>>
ParseSelectColumns(t) ==
  IF t = "*" THEN <<Tok("*")>> \o Clauses(FALSE)
  ELSE <<Rule("select columns", 0)>> \o Clauses(TRUE)
SelectColumns == <<Expression, Opt("AS", <<Ident>>), More("select columns", 0)>>

ParseOrder(t, byIndex) ==
  (CASE t = "bigint" -> <<Stop("thrown")>>
     [] t = "int" -> IF byIndex THEN <<Tok(t), MayFail>> ELSE <<Stop("error")>>
     [] OTHER -> <<Expression>>) \o <<Opt("ASC", <<>>), More("order", byIndex)>>

ParseTableExpression(t) ==
  CASE t \in Names -> <<Ident, Rule("alias", 0), Rule("join", 0)>>
    [] t = "(" -> <<Tok(t), Rule("in table parens", 0), Unchecked(")"), Rule("join", 0)>>
    [] OTHER -> <<Stop("error")>>
ParseAlias(t) ==
  CASE t \in Names \ {"LEFT"} -> <<Ident>>
    [] t = "AS" -> <<Tok(t), Ident>>
    [] OTHER -> <<>>
ParseJoinExpression(t) ==
  CASE t = "," -> <<Tok(t), TableExpression, Rule("join", 0)>>
    [] t \in {"LEFT", "INNER", "OUTER", "FULL"} ->
         <<Tok(t)>> \o (IF t = "FULL" THEN <<Tok("OUTER")>> ELSE <<>>)
           \o <<Tok("JOIN"), TableExpression, Tok("ON"), Ident, Opt(".", <<Ident>>), Tok("="),
                Ident, Opt(".", <<Ident>>), Rule("join", 0)>>
    [] OTHER -> <<>>

(***************************************************************************)
(* Expressions.  d: how many values there were before.                     *)
(***************************************************************************)
Operators == {"=", "LIKE", "IS", "BETWEEN", "IN", "AND", "OR", "/", "+", "-", "*"}

(* The `*` the lexer gives is an Asterisk, which is not in the table. *)
PrecedenceOf(t) ==
  CASE t \in {"=", "LIKE", "IS"} -> 500
    [] t \in {"BETWEEN", "IN"} -> 200
    [] t = "AND" -> 150
    [] t = "OR" -> 100
    [] t = "/" -> 15
    [] t \in {"+", "-"} -> 10
    [] OTHER -> 100000

ParseLiteral(t) ==
  CASE t = "bigint" -> <<Stop("thrown")>>   \* std::stoi
    [] t = "date" -> <<Leaf({t}), MayFail>>
    [] t \in Literals \ {"bigint", "date"} -> <<Leaf({t})>>
    [] OTHER -> <<Stop("error")>>

ParseExpression(t, min, d) ==
  (CASE t \in Names -> <<Leaf(Names), Rule("postfix", <<t, d>>)>>
     [] t = "-" -> <<Tok(t), Rule("expression", 501), Collect("-", d)>>
     [] t = "(" -> <<Tok(t), Rule("in parens", 0), Unchecked(")"), Collect("(", d)>>
     [] t = "CASE" -> <<Tok(t), Rule("cases", 0), Collect("CASE", d)>>
     [] OTHER -> ParseLiteral(t)) \o <<Rule("operand", min)>>

ParseCases(t) ==
  CASE t = "WHEN" -> <<Tok(t), Expression, Tok("THEN"), Expression, Rule("cases", 0)>>
    [] t = "ELSE" -> <<Tok(t), Expression, Tok("END")>>
    [] t = "END" -> <<Tok(t)>>
    [] OTHER -> <<Stop("error")>>

(* parse_identifier, parse_function *)
ParsePostfix(t, name, d) ==
  CASE t = "(" /\ name = "COUNT" ->
         <<Tok(t), Expression, Loose({")"}),
           Opt("OVER", <<Loose({"("}), Loose({"PARTITION"}), Loose({"BY"}), Loose(Names),
                         Loose({")"})>>), Collect("call", d)>>
    [] t = "(" /\ name # "COUNT" -> <<Rule("arguments", 0), Collect("call", d)>>
    [] t = "." -> <<Tok(t), Leaf(Names), Collect(".", d)>>
    [] OTHER -> <<>>

(* parse_expression_list *)
ParseArguments == <<Tok("("), Rule("first argument", 0)>>
ParseFirstArgument(t) ==
  IF t = ")" THEN <<Tok(t)>> ELSE <<Rule("expressions", 0), Tok(")")>>

AtLeast(t, min) == PrecedenceOf(t) >= min    \* groups to the right
Above(t, min) == PrecedenceOf(t) > min

ParseRhs(t) ==
  CASE t = "BETWEEN" ->
         <<Rule("expression", 201), Loose({"AND"}), Rule("expression", 201)>>
    [] t = "IN" -> <<Tok("("), Rule("expressions", 0), Tok(")")>>
    [] t = "IS" -> <<Rule("is", 0)>>
    [] OTHER -> <<Rule("expression", PrecedenceOf(t))>>
ParseIs(t) == (IF t = "NOT" THEN <<Leaf({t})>> ELSE <<>>) \o <<Leaf({"NULL"})>>

NoProgress(t, min, d) == <<Rule("operand", min)>>   \* looks at the operator again

ParseOperand(t, min, d) ==
  IF t \in Operators /\ Above(t, min)
  THEN <<Tok(t)>> \o ParseRhs(t) \o <<Rule("merge", <<t, d - 1>>), Rule("operand", min)>>
  ELSE <<>>

(* Before an operator that binds closer the right side would take it. *)
ParseMerge(t, op, depth) ==
  (IF PrecedenceOf(op) < PrecedenceOf(t) /\ op \notin {"IN", "IS"}
   THEN <<Rule("operand", 0)>> ELSE <<>>) \o <<Collect(op, depth)>>

Body(name, arg, t, d) ==
  CASE name = "list" -> ParseStatementList(t, arg)
    [] name = "statement" -> ParseStatement(t)
    [] name = "columns" -> Column \o <<Rule("checks", arg)>>
    [] name = "checks" -> ParseChecks(t, arg)
    [] name = "params" -> ParseParams(t, arg)
    [] name = "option" -> ParseOption(t)
    [] name = "thing" -> ParseThing(t, arg)
    [] name = "names" -> <<Ident, More("names", 0)>>
    [] name = "insert" -> ParseInsertBody(t)
    [] name = "source" -> ParseSource(t)
    [] name = "set" -> ParseSet
    [] name = "select" -> ParseSelect
    [] name = "what" -> ParseSelectColumns(t)
    [] name = "select columns" -> SelectColumns
    [] name = "order" -> ParseOrder(t, arg)
    [] name = "table" -> ParseTableExpression(t)
    [] name = "in table parens" -> IF t = "SELECT" THEN <<Select>> ELSE <<TableExpression>>
    [] name = "alias" -> ParseAlias(t)
    [] name = "join" -> ParseJoinExpression(t)
    [] name = "expression" -> ParseExpression(t, arg, d)
    [] name = "in parens" -> IF t = "SELECT" THEN <<Select>> ELSE <<Expression>>
    [] name = "literal" -> ParseLiteral(t)
    [] name = "cases" -> ParseCases(t)
    [] name = "postfix" -> ParsePostfix(t, arg[1], arg[2])
    [] name = "arguments" -> ParseArguments
    [] name = "first argument" -> ParseFirstArgument(t)
    [] name = "expressions" -> <<Expression, More("expressions", 0)>>
    [] name = "is" -> ParseIs(t)
    [] name = "operand" -> ParseOperand(t, arg, d)
    [] name = "merge" -> ParseMerge(t, arg[1], arg[2])

(***************************************************************************)
(* The machine                                                             *)
(***************************************************************************)
Entry(entry) ==
  IF entry = "list" THEN <<Rule("list", TRUE)>>
  ELSE <<Rule("statement", 0), Opt(";", <<>>)>>

ParseInit ==
  /\ alphabet \in Alphabets
  /\ tokens = alphabet.given /\ at = 0
  /\ stack = Entry(alphabet.entry) /\ values = <<>>
  /\ parsing = "runs"

EofRead == tokens # <<>> /\ tokens[Len(tokens)] = "Eof"
Peek == tokens[at + 1]
Ready == parsing = "runs" /\ at < Len(tokens)
Goal == stack[1]
Is(kinds) == stack # <<>> /\ Goal[1] \in kinds

TypeToken ==
  /\ parsing = "runs" /\ at = Len(tokens) /\ ~EofRead
  /\ \E t \in {"Eof"} \cup (IF at < alphabet.max THEN alphabet.types ELSE {}) :
       tokens' = Append(tokens, t)
  /\ UNCHANGED <<alphabet, at, stack, values, parsing>>

Outcome(outcome) ==
  /\ parsing' = outcome
  /\ UNCHANGED <<alphabet, tokens, at, stack, values>>

Replace(goals) ==
  /\ stack' = goals \o Tail(stack)
  /\ UNCHANGED <<alphabet, tokens, parsing>>

TakeToken ==
  /\ Ready /\ Is({"expect", "leaf", "loose", "unchecked"})
  /\ Peek \in Goal[2] \/ Goal[1] = "unchecked"
  /\ Replace(<<>>)
  /\ at' = at + 1
  /\ values' = IF Goal[1] = "leaf" THEN Append(values, <<Peek>>) ELSE values

RefuseToken ==
  /\ Ready /\ Is({"expect", "leaf", "loose"}) /\ Peek \notin Goal[2]
  /\ Outcome(IF Goal[1] = "loose" /\ Peek = "Eof" THEN "undefined" ELSE "error")

Skip ==
  /\ Ready /\ Is({"optional"})
  /\ Replace(IF Peek \in Goal[2] THEN Goal[3] ELSE <<>>)
  /\ UNCHANGED <<at, values>>

Call ==
  /\ Ready /\ Is({"rule"})
  /\ Replace(Body(Goal[2], Goal[3], Peek, Len(values)))
  /\ UNCHANGED <<at, values>>

Build ==
  /\ parsing = "runs" /\ Is({"collect"})
  /\ values' = Append(SubSeq(values, 1, Goal[3]),
                      <<Goal[2]>> \o SubSeq(values, Goal[3] + 1, Len(values)))
  /\ Replace(<<>>)
  /\ UNCHANGED at

Fail ==
  \/ parsing = "runs" /\ Is({"stop"}) /\ Outcome(Goal[2])
  \/ /\ parsing = "runs" /\ Is({"may fail"})
     /\ \/ Outcome("error")
        \/ Replace(<<>>) /\ UNCHANGED <<at, values>>

(* A look behind the last token, which an unchecked one has moved past *)
LookBeyond ==
  /\ parsing = "runs" /\ at = Len(tokens) /\ EofRead
  /\ ~Is({"collect", "stop", "may fail"})
  /\ Outcome("undefined")

Accept ==
  /\ Ready /\ stack = <<>>
  /\ Outcome(IF Peek = "Eof" THEN "accepted" ELSE "error")

ParseNext ==
  \/ TypeToken \/ TakeToken \/ RefuseToken \/ Skip \/ Call \/ Build \/ Fail
  \/ LookBeyond \/ Accept

(***************************************************************************)
(* Properties                                                              *)
(***************************************************************************)
RECURSIVE TextOf(_)
RECURSIVE TextOfAll(_)
TextOfAll(trees) ==
  FlattenSeq([i \in DOMAIN trees |->
    TextOf(trees[i]) \o (IF i < Len(trees) THEN <<",">> ELSE <<>>)])
TextOf(tree) ==
  LET kind == tree[1]
      Child(i) == TextOf(tree[i + 1])
      From(i) == SubSeq(tree, i, Len(tree))
      isPair(i) == i > 1 /\ i % 2 = 1
  IN CASE Len(tree) = 1 -> IF kind = "CASE" THEN <<kind, "END">> ELSE <<kind>>
       [] kind = "(" /\ Len(tree) > 1 -> <<"(">> \o Child(1) \o <<")">>
       [] kind = "call" -> Child(1) \o <<"(">> \o TextOfAll(From(3)) \o <<")">>
       [] kind = "IN" -> Child(1) \o <<"IN", "(">> \o TextOfAll(From(3)) \o <<")">>
       [] kind = "BETWEEN" -> Child(1) \o <<kind>> \o Child(2) \o <<"AND">> \o Child(3)
       [] kind = "IS" /\ Len(tree) > 1 ->
            Child(1) \o <<kind>> \o FlattenSeq([i \in 1..Len(From(3)) |-> From(3)[i]])
       [] kind = "CASE" /\ Len(tree) > 1 ->
            <<kind>> \o FlattenSeq([i \in 1..(Len(tree) - 1) |->
                (IF i % 2 = 0 THEN <<"THEN">>
                 ELSE IF i = Len(tree) - 1 THEN <<"ELSE">> ELSE <<"WHEN">>) \o Child(i)])
              \o <<"END">>
       [] kind = "-" /\ Len(tree) = 2 -> <<kind>> \o Child(1)
       [] OTHER -> Child(1) \o <<kind>> \o Child(2)

(* What an operator takes on its right binds closer than it, and on its    *)
(* left not less close, unless it is an IN or an IS: they end by           *)
(* themselves.                                                             *)
IsOperator(tree) == Len(tree) > 2 /\ tree[1] \in Operators
RECURSIVE BindsAsWritten(_)
BindsAsWritten(tree) ==
  /\ \A i \in 2..Len(tree) : BindsAsWritten(tree[i])
  /\ IsOperator(tree) /\ IsOperator(tree[2]) /\ tree[2][1] \notin {"IN", "IS"} =>
       PrecedenceOf(tree[2][1]) >= PrecedenceOf(tree[1])
  /\ IsOperator(tree) /\ tree[1] # "IN" /\ IsOperator(tree[3]) =>
       PrecedenceOf(tree[3][1]) > PrecedenceOf(tree[1])
  /\ tree[1] = "-" /\ Len(tree) = 2 /\ IsOperator(tree[2]) => PrecedenceOf(tree[2][1]) > 501

Count(t) == Cardinality({i \in DOMAIN tokens : tokens[i] = t})
OfExpressions ==
  Literals \cup Names \cup Operators \cup
    {"(", ")", ",", ".", "NOT", "CASE", "WHEN", "THEN", "ELSE", "END"}

(* SELECT with nothing but expressions reads back from the trees that were *)
(* built as it was written, if its parentheses are closed: no token is     *)
(* lost, doubled or moved, and the operators are grouped by their          *)
(* precedence and to the left.                                             *)
TreeReadsAsTheText ==
  LET written == SubSeq(tokens, 2, Len(tokens) - 1)
  IN parsing = "accepted" /\ ToSet(written) \subseteq OfExpressions /\ Count("(") = Count(")")
       /\ tokens[1] = "SELECT" /\ tokens[2] # "*" =>
       /\ TextOfAll(values) = written
       /\ \A i \in DOMAIN values : BindsAsWritten(values[i])

(* The parser looks behind the last token only if the text ends where BY,  *)
(* a part of OVER, the AND of BETWEEN, a thing to add, alter or drop, or a *)
(* `)` should be, or a list of statements is empty.                        *)
OnlyTheseReadPastTheEnd ==
  parsing = "undefined" =>
    LET last == tokens[Len(tokens) - 1]
    IN \/ Len(tokens) = 1 /\ alphabet.entry = "list"
       \/ Count("(") > Count(")")
       \/ last \in {"GROUP", "PARTITION", "ORDER", "OVER", "ADD", "ALTER", "DROP"}
       \/ Count("BETWEEN") > 0

=============================================================================
