------------------------------- MODULE Texts --------------------------------
(***************************************************************************)
(* Texts: every call of LIKE and of the string functions (SqlText) on two  *)
(* texts that are typed character by character, and tables that go through *)
(* a CSV file and back (CsvFile).                                          *)
(***************************************************************************)
EXTENDS SqlText, CsvFile

CONSTANTS
  Letters,     \* the characters of the text
  Pieces,      \* what a pattern is made of: characters, classes in brackets
  MaxText,     \* bound: characters of the text
  MaxPattern,  \* bound: pieces of the pattern
  MaxNumber    \* bound: the number given to a function, below from -1

VARIABLES
  text,     \* the first argument
  pieces,   \* the second one, in pieces
  answer    \* what was called: f, numbers m and n, and the result

typeVars == <<text, pieces, answer>>
vars == <<typeVars, csvVars>>

Nothing == [f |-> "nothing", m |-> 0, n |-> 0, result |-> NullText]
NoTable == [hint |-> TRUE, columns |-> <<>>, rows |-> <<>>]
pattern == FlattenSeq(pieces)
Numbers == -1..MaxNumber

Init ==
  /\ text = <<>> /\ pieces = <<>> /\ answer = Nothing
  /\ \/ CsvInit
     \/ /\ exported = NoTable /\ file = <<>> /\ lines = <<>> /\ imported = <<>>
        /\ csv = "idle"

TypeText ==
  /\ answer = Nothing /\ pieces = <<>> /\ Len(text) < MaxText
  /\ \E c \in Letters : text' = Append(text, c)
  /\ UNCHANGED <<pieces, answer>>

TypePattern ==
  /\ answer = Nothing /\ Len(pieces) < MaxPattern
  /\ \E piece \in Pieces : pieces' = Append(pieces, piece)
  /\ UNCHANGED <<text, answer>>

Answer(f, m, n, result) ==
  /\ answer' = [f |-> f, m |-> m, n |-> n, result |-> result]
  /\ UNCHANGED <<text, pieces>>

CallLike == answer = Nothing /\ Answer("LIKE", 0, 0, [type |-> Like(text, pattern), v |-> 0])

(* Functions of one text *)
CallText ==
  /\ answer = Nothing /\ pieces = <<>>
  /\ \/ Answer("LTRIM", 0, 0, LTrim(text))
     \/ Answer("RTRIM", 0, 0, RTrim(text))
     \/ Answer("TRIM", 0, 0, Trim(text))
     \/ Answer("LOWER", 0, 0, Lower(text))
     \/ Answer("UPPER", 0, 0, Upper(text))
     \/ Answer("REVERSE", 0, 0, ReverseOf(text))
     \/ Answer("LEN", 0, 0, Length(text))
     \/ \E n \in Numbers :
          \/ Answer("LEFT", n, 0, Left(text, n))
          \/ Answer("RIGHT", n, 0, RightOf(text, n))
          \/ Answer("REPLICATE", n, 0, Replicate(text, n))
          \/ \E len \in Numbers : Answer("SUBSTRING", n, len, Substring(text, n, len))

(* Functions of two texts; the third one is a letter, twice. *)
By == <<88, 88>>
CallTexts ==
  /\ answer = Nothing /\ Len(pieces) <= 2
  /\ pattern \in Seq(Letters)
  /\ \/ \E n \in Numbers : Answer("CHARINDEX", n, 0, CharIndex(pattern, text, n))
     \/ Answer("REPLACE", 0, 0, Replace(text, pattern, By))
     \/ Answer("TRANSLATE", 0, 0, Translate(text, pattern, By))
     \/ \E n, len \in Numbers : Answer("STUFF", n, len, Stuff(text, n, len, pattern))

Next ==
  \/ csv = "idle" /\ (TypeText \/ TypePattern \/ CallLike \/ CallText \/ CallTexts)
     /\ UNCHANGED csvVars
  \/ CsvNext /\ UNCHANGED typeVars

Spec == Init /\ [][Next]_vars

(***************************************************************************)
(* LIKE                                                                    *)
(***************************************************************************)
IsClass(piece) == Len(piece) > 1 /\ piece[Len(piece)] = Close
IsOpen(piece) == Len(piece) > 1 /\ piece[Len(piece)] # Close
Fits(c, piece) ==
  IF Len(piece) = 1
  THEN piece[1] = c \/ piece[1] = Question \/ (piece[1] = Hash /\ IsDigit(c))
  ELSE LET negated == piece[2] = Bang
           class == SubSeq(piece, IF negated THEN 3 ELSE 2, Len(piece) - 1)
           range == Len(class) = 3 /\ class[2] = Dash
       IN (c \in IF range THEN class[1]..class[3] ELSE ToSet(class)) # negated

(* An asterisk between two parts stands for one character or more, one at  *)
(* an end of the pattern for any number.                                   *)
RECURSIVE Matches(_, _)
Matches(s, ps) ==
  CASE ps = <<>> -> s = <<>>
    [] ps # <<>> /\ ps[1] = <<Asterisk>> ->
         \E k \in (IF Len(ps) \in {1, Len(pieces)} THEN 0 ELSE 1)..Len(s) :
           Matches(SubSeq(s, k + 1, Len(s)), Tail(ps))
    [] ps # <<>> /\ ps[1] # <<Asterisk>> ->
         s # <<>> /\ Fits(s[1], ps[1]) /\ Matches(Tail(s), Tail(ps))

BracketsEnd ==
  \A i \in DOMAIN pieces : Len(pieces[i]) > 1 => IsClass(pieces[i]) /\ i = Len(pieces)

(* A class that ends the pattern, or the part before an asterisk, is       *)
(* compared with two characters (its `[` and its `]` are counted): if the  *)
(* first of them fits, the second one is compared with what lies behind    *)
(* the end of the pattern (Expression.cpp:142-176).                        *)
ReadsBehindClass ==
  \E i \in DOMAIN pieces, k \in 1..(Len(text) - 1) :
    /\ IsClass(pieces[i])
    /\ i < Len(pieces) => pieces[i + 1] = <<Asterisk>>
    /\ Fits(text[k], pieces[i])

(* LIKE accepts every text that is not empty and matches the whole         *)
(* pattern, if a class in brackets stands only at the end of the pattern   *)
(* and no character of the text but the last one fits the class: else LIKE *)
(* may read behind the pattern.  (It accepts others as well: it looks for  *)
(* the pattern anywhere in the text.)                                      *)
LikeTakesWhatMatches ==
  answer.f = "LIKE" /\ text # <<>> /\ BracketsEnd /\ ~ReadsBehindClass
  /\ Matches(text, pieces) => answer.result.type = "yes"

(***************************************************************************)
(* The functions                                                           *)
(***************************************************************************)
Inside(n) == n \in 0..Len(text)
Result == answer.result.v
TextAnswer(f) == answer.f = f /\ answer.result.type = "text"
OccursAt(s, pos) ==
  pos + Len(pattern) <= Len(s) /\ SubSeq(s, pos + 1, pos + Len(pattern)) = pattern

(* The text with every word that ends with a space and is the pattern     *)
(* translated; the last word has no space behind it and stays as it is.    *)
Translated ==
  LET ends == SetToSortSeq({i \in DOMAIN text : IsSpace(text[i])}, <)
      start(k) == IF k = 1 THEN 1 ELSE ends[k - 1] + 1
      word(k) == SubSeq(text, start(k), ends[k] - 1)
      last == SubSeq(text, start(Len(ends) + 1), Len(text))
  IN FlattenSeq([k \in DOMAIN ends |->
                   Append(IF word(k) = pattern THEN By ELSE word(k), Space)]) \o last

(* What one function takes apart others put together again: LEFT and RIGHT *)
(* give the whole text, SUBSTRING is a LEFT of a RIGHT, RTRIM is an LTRIM  *)
(* of the reverse, TRIM is both other trims, STUFF keeps what is left and  *)
(* right of the hole, CHARINDEX points at the first place where SUBSTRING  *)
(* finds the text, REPLACE leaves none, REPLICATE is the text again and    *)
(* again, and TRANSLATE replaces all words but the last (Function.cpp).    *)
FunctionsFitTogether ==
  /\ TextAnswer("RIGHT") => Left(text, Len(text) - answer.m).v \o Result = text
  /\ TextAnswer("SUBSTRING") =>
       Result = Left(RightOf(text, Len(text) - answer.m).v, answer.n).v
  /\ TextAnswer("RTRIM") => Result = Reverse(LTrim(Reverse(text)).v)
  /\ TextAnswer("TRIM") => Result = LTrim(RTrim(text).v).v
  /\ TextAnswer("STUFF") /\ answer.m >= 0 /\ answer.n >= 0 =>
       Result = Left(text, answer.m).v \o pattern
                  \o RightOf(text, Len(text) - answer.m - answer.n).v
  /\ answer.f = "CHARINDEX" =>
       LET places == {pos \in 0..Len(text) :
                        pos >= answer.m /\ answer.m >= 0 /\ OccursAt(text, pos)}
       IN IF places = {} THEN answer.result = NullText
          ELSE Result \in places /\ \A pos \in places : Result <= pos
  /\ TextAnswer("REPLACE") =>
       \A pos \in 0..Len(Result) : ~OccursAt(Result, pos) \/ text = <<>>
  /\ TextAnswer("REPLICATE") =>
       /\ Len(Result) = answer.m * Len(text)
       /\ \A i \in DOMAIN Result : Result[i] = text[((i - 1) % Len(text)) + 1]
  /\ TextAnswer("TRANSLATE") => Result = Translated

(* LIKE and the string functions other than LOWER, UPPER, REVERSE and LEN, *)
(* each one line in the code and here, give what is said above.            *)
TextFunctionsAgree == LikeTakesWhatMatches /\ FunctionsFitTogether

(* A call ends the process with an exception, does not end, or reads what  *)
(* is not there, only if a number points outside of the text, the text to  *)
(* replace is empty, or LIKE has a bracket that is never closed or one of  *)
(* whose class it compares a second character (ReadsBehindClass).          *)
OnlyTheseEndTheProcess ==
  answer.result.type \in {"thrown", "endless", "undefined"} =>
    \/ answer.f \in {"SUBSTRING", "RIGHT"} /\ ~Inside(answer.m)
    \/ answer.f = "STUFF" /\ ~Inside(answer.m + answer.n)
    \/ answer.f = "REPLICATE" /\ answer.m < 0
    \/ answer.f = "REPLACE" /\ pattern = <<>>
    \/ /\ answer.f = "LIKE"
       /\ ReadsBehindClass \/ \E i \in DOMAIN pieces : IsOpen(pieces[i])

-----------------------------------------------------------------------------
(* The instance of the run *)
MCLetters == {98, 49, Space}
MCPieces ==
  {<<98>>, <<49>>, <<Space>>, <<Question>>, <<Hash>>, <<Asterisk>>,
   <<Open, 98, 49, Close>>, <<Open, Bang, 49, Close>>, <<Open, 97, Dash, 99, Close>>,
   <<Open, 98>>}

MCTexts ==
  {TextCell(s) : s \in {<<>>, <<120>>, <<49>>, <<Minus, 49>>, <<48, 49>>, <<120, Blank>>, <<Blank, 120>>,
                        <<120, Comma>>, <<Quote, 120>>, <<120, Quote>>, <<NullWord>>,
                        <<Newline>>}}
MCInts == {NullCell, IntCell(10), IntCell(-1)}
RowsOf(S) == UNION {[1..n -> S] : n \in 0..2}
MCExports ==
  {[hint |-> hint, columns |-> <<"varchar">>, rows |-> rows] :
     hint \in BOOLEAN, rows \in RowsOf([1..1 -> MCTexts \cup {NullCell}])}
  \cup {[hint |-> hint, columns |-> <<"int", "varchar">>, rows |-> rows] :
          hint \in BOOLEAN, rows \in RowsOf(MCInts \X MCTexts)}
  \cup {[hint |-> hint, columns |-> <<"varchar", "int">>, rows |-> rows] :
          hint \in BOOLEAN, rows \in RowsOf(MCTexts \X {IntCell(1)})}

=============================================================================
