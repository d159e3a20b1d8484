------------------------------ MODULE SqlLexer ------------------------------
(***************************************************************************)
(* The lexer of SQL (db/sql/Lexer.cpp): one step for each token, blank or  *)
(* comment.  The text is a sequence of the codes of its characters; places *)
(* in it are counted from 0, as the stream does.                           *)
(***************************************************************************)
EXTENDS Integers, SequencesExt

CONSTANTS
  Inputs,   \* the texts
  Keywords  \* the words the lexer knows, in upper case

VARIABLES
  input,   \* the text
  pos,     \* how much of it was read
  out,     \* the tokens: type, value, start, end
  lexing   \* "runs", "ended", or "undefined"

lexVars == <<input, pos, out, lexing>>

Eof == -1
Byte == 255       \* what Eof becomes as a char, and the char that reads as Eof
Period == 46
Symbols == [c \in {42, 44, 40, 41, 59, 43, 47, 61, 60, 62} |-> "symbol"]
IsBlank(c) == c \in 9..13 \/ c = 32
IsNumeral(c) == c \in 48..57
UpperCase(c) == IF c \in 97..122 THEN c - 32 ELSE c
IsAlpha(c) == UpperCase(c) \in 65..90
InWord(c) == IsAlpha(c) \/ IsNumeral(c) \/ c = 95
InNumber(c) == IsNumeral(c) \/ c = Period
Starts == [quote |-> 39, hash |-> 35, bracket |-> 91]
Ends == [quote |-> 39, hash |-> 35, bracket |-> 93]
Bang == 33
Equal == 61
Minus == 45
Newline == 10
Blank == 32

CharAt(i) == IF i < Len(input) THEN input[i + 1] ELSE Eof
Text(from, to) == SubSeq(input, from + 1, to)

(* Where the stream is when it has read up to the first place that stops. *)
RunTo(from, Stop(_)) ==
  LET stops == {i \in from..(Len(input) - 1) : Stop(CharAt(i))}
  IN IF stops = {} THEN Len(input) ELSE CHOOSE i \in stops : \A j \in stops : i <= j

(* A stream that looked at the end of the text tells 0. *)
Tell(i, looked) == IF looked /\ i = Len(input) THEN 0 ELSE i

Token(type, value, end) == [type |-> type, value |-> value, start |-> pos, end |-> end]

LexInit == input \in Inputs /\ pos = 0 /\ out = <<>> /\ lexing = "runs"

Take(token, to) ==
  /\ out' = Append(out, token)
  /\ pos' = to
  /\ UNCHANGED <<input, lexing>>

(* The end of the text, or a byte that reads as its end *)
LexEnd ==
  /\ lexing = "runs" /\ CharAt(pos) \in {Eof, Byte}
  /\ out' = Append(out, Token("Eof", <<>>, pos))
  /\ lexing' = "ended"
  /\ UNCHANGED <<input, pos>>

Upper(word) == [i \in DOMAIN word |-> UpperCase(word[i])]

LexWord ==
  /\ lexing = "runs" /\ (IsAlpha(CharAt(pos)) \/ CharAt(pos) = 95)
  /\ LET Stop(c) == ~InWord(c)
         to == RunTo(pos, Stop)
         word == Text(pos, to)
     IN IF Upper(word) \in Keywords
        THEN Take(Token("keyword", Upper(word), Tell(to, TRUE)), to)
        ELSE Take(Token("identifier", word, Tell(to, TRUE)), to)

LexBlanks ==
  /\ lexing = "runs" /\ IsBlank(CharAt(pos))
  /\ LET Stop(c) == ~IsBlank(c) IN pos' = RunTo(pos, Stop)
  /\ UNCHANGED <<input, out, lexing>>

(* A second period is read but belongs to nothing. *)
LexNumber ==
  /\ lexing = "runs" /\ InNumber(CharAt(pos))
  /\ LET Stop(c) == ~InNumber(c)
         run == RunTo(pos, Stop)
         seconds == {i \in pos..(run - 1) :
                       CharAt(i) = Period /\ \E j \in pos..(i - 1) : CharAt(j) = Period}
         end == IF seconds = {} THEN run ELSE CHOOSE i \in seconds : \A j \in seconds : i <= j
         number == Text(pos, end)
         to == IF seconds = {} THEN end ELSE end + 1
         type == IF number = <<Period>> THEN "period"
                 ELSE IF Period \in ToSet(number) THEN "float" ELSE "int"
     IN Take(Token(type, number, Tell(to, seconds = {})), to)

(* Only two dashes and a blank begin a comment. *)
LexMinus ==
  /\ lexing = "runs" /\ CharAt(pos) = Minus
  /\ \/ /\ CharAt(pos + 1) = Minus /\ CharAt(pos + 2) = Blank
        /\ LET Stop(c) == c = Newline
               to == RunTo(pos + 3, Stop)
           IN pos' = IF to = Len(input) THEN to ELSE to + 1
        /\ UNCHANGED <<input, out, lexing>>
     \/ /\ CharAt(pos + 1) # Minus \/ CharAt(pos + 2) # Blank
        /\ Take(Token("symbol", <<Minus>>, pos + 1), pos + 1)

LexSymbol ==
  /\ lexing = "runs" /\ CharAt(pos) \in DOMAIN Symbols
  /\ Take(Token("symbol", <<CharAt(pos)>>, pos + 1), pos + 1)

LexBang ==
  /\ lexing = "runs" /\ CharAt(pos) = Bang
  /\ IF CharAt(pos + 1) = Equal
     THEN Take(Token("symbol", <<Bang, Equal>>, pos + 1), pos + 2)
     ELSE Take(Token("symbol", <<Bang>>, Tell(pos + 1, TRUE)), pos + 1)

(* What stands between quotes: up to the closing one, or to the end of the *)
(* text and the char that its end becomes.  from: behind skipped blanks.   *)
Closing(from, quote) == LET Stop(c) == c = Ends[quote] IN RunTo(from, Stop)
Between(from, quote, skipped) ==
  LET close == Closing(from, quote)
  IN IF close < Len(input) THEN Text(from, close)
     ELSE Text(from, close) \o (IF skipped /\ from = Len(input) THEN <<>> ELSE <<Byte>>)
AtQuote(from, quote) == Closing(from, quote)        \* the closing quote is left

Behind(from, quote) == LET c == Closing(from, quote) IN IF c < Len(input) THEN c + 1 ELSE c
EndOf(from, quote) == LET c == Closing(from, quote) IN IF c < Len(input) THEN c + 1 ELSE 0

BehindBlanks == LET Stop(c) == ~IsBlank(c) IN RunTo(pos + 1, Stop)

LexString ==
  /\ lexing = "runs" /\ CharAt(pos) = Starts.quote
  /\ Take(Token("string", Between(pos + 1, "quote", FALSE), EndOf(pos + 1, "quote")),
          Behind(pos + 1, "quote"))

LexDate ==
  /\ lexing = "runs" /\ CharAt(pos) = Starts.hash
  /\ LET from == BehindBlanks
     IN Take(Token("date", Between(from, "hash", TRUE), EndOf(from, "hash")),
             Behind(from, "hash"))

(* Trailing blanks are taken away without a look at what is left. *)
LexBracket ==
  /\ lexing = "runs" /\ CharAt(pos) = Starts.bracket
  /\ LET from == BehindBlanks
         id == Between(from, "bracket", TRUE)
         letters == {i \in DOMAIN id : ~IsBlank(id[i])}
         last == CHOOSE i \in letters : \A j \in letters : j <= i
     IN IF letters = {}
        THEN lexing' = "undefined" /\ UNCHANGED <<input, pos, out>>
        ELSE Take(Token("bracket", SubSeq(id, 1, last), EndOf(from, "bracket")),
                  Behind(from, "bracket"))

Known(c) ==
  \/ c \in {Eof, Byte, Bang, Minus} \cup DOMAIN Symbols
  \/ InWord(c) \/ InNumber(c) \/ IsBlank(c)
  \/ \E quote \in DOMAIN Starts : c = Starts[quote]

LexGarbage ==
  /\ lexing = "runs" /\ ~Known(CharAt(pos))
  /\ Take(Token("garbage", <<CharAt(pos)>>, pos + 1), pos + 1)

LexNext ==
  \/ LexEnd \/ LexWord \/ LexBlanks \/ LexNumber \/ LexMinus \/ LexSymbol
  \/ LexBang \/ LexString \/ LexDate \/ LexBracket \/ LexGarbage

(***************************************************************************)
(* Properties                                                              *)
(***************************************************************************)
RECURSIVE IsSkipped(_)
IsSkipped(s) ==
  \/ s = <<>>
  \/ IsBlank(s[1]) /\ IsSkipped(Tail(s))
  \/ /\ Len(s) > 2 /\ SubSeq(s, 1, 3) = <<Minus, Minus, Blank>>
     /\ \E k \in 3..Len(s) :
          /\ \A i \in 4..(k - 1) : s[i] # Newline
          /\ k = Len(s) \/ s[k] = Newline
          /\ IsSkipped(SubSeq(s, k + 1, Len(s)))

WithoutBlanks(s) == SelectSeq(s, LAMBDA c : ~IsBlank(c))

(* The piece of the text a token was made of: from where it starts to      *)
(* where the next one does.                                                *)
Piece(k) == Text(out[k].start, IF k < Len(out) THEN out[k + 1].start ELSE pos)

ReadsAs(k) ==
  LET v == out[k].value
      piece == Piece(k)
      rest == SubSeq(piece, Len(v) + 1, Len(piece))
      closed == \E quote \in DOMAIN Ends :
                  /\ Len(piece) > 1 /\ piece[1] = Starts[quote]
                  /\ \E i \in 2..Len(piece) :
                       /\ piece[i] = Ends[quote]
                       /\ WithoutBlanks(SubSeq(piece, 2, i - 1)) = WithoutBlanks(v)
                       /\ IsSkipped(SubSeq(piece, i + 1, Len(piece)))
      open == v # <<>> /\ v[Len(v)] = Byte
  IN CASE out[k].type \in {"string", "date", "bracket"} ->
            closed \/ open \/ (v = <<>> /\ IsSkipped(Tail(piece)))
       [] out[k].type \in {"float", "period"} ->
            /\ SubSeq(piece, 1, Len(v)) = v
            /\ IsSkipped(rest) \/ (rest[1] = Period /\ IsSkipped(Tail(rest)))
       [] out[k].type \in {"keyword", "identifier"} ->
            Upper(SubSeq(piece, 1, Len(v))) = Upper(v) /\ IsSkipped(rest)
       [] OTHER -> SubSeq(piece, 1, Len(v)) = v /\ IsSkipped(rest)

(* The tokens are the text, in order: nothing but blanks and comments is   *)
(* lost between them, save the second period of a number, and nothing is   *)
(* added, save a byte 255 where a quote is not closed; only that byte ends *)
(* the text early.                                                         *)
TokensAreTheText ==
  lexing = "ended" =>
    /\ out # <<>> => IsSkipped(Text(0, out[1].start))
    /\ \A k \in DOMAIN out : ReadsAs(k)
    /\ pos = Len(input) \/ input[pos + 1] = Byte

=============================================================================
