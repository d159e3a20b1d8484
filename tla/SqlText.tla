------------------------------ MODULE SqlText -------------------------------
(***************************************************************************)
(* LIKE and the string functions of SQL (wildcard_parser in                *)
(* db/sql/ast/Expression.cpp, db/sql/ast/Function.cpp).  Operators without *)
(* state.  A text is a sequence of the codes of its characters; numbers    *)
(* are those of int, which become size_t where std::string takes one.      *)
(***************************************************************************)
EXTENDS Integers, SequencesExt

Text(s) == [type |-> "text", v |-> s]
Number(n) == [type |-> "number", v |-> n]
NullText == [type |-> "null", v |-> 0]
Thrown == [type |-> "thrown", v |-> 0]       \* an exception nobody catches
Endless == [type |-> "endless", v |-> 0]     \* a loop that does not end

Nul == 0
Space == 32
Bang == 33
Hash == 35
Asterisk == 42
Dash == 45
Question == 63
Open == 91
Close == 93
IsDigit(c) == c \in 48..57
IsSpace(c) == c \in {Space} \cup 9..13
ToLower(c) == IF c \in 65..90 THEN c + 32 ELSE c
ToUpper(c) == IF c \in 97..122 THEN c - 32 ELSE c

Lesser(m, n) == IF m < n THEN m ELSE n

(***************************************************************************)
(* LIKE.  The end of a string reads as NUL; what lies behind it is not     *)
(* defined.                                                                *)
(***************************************************************************)
ReadAt(s, i) == IF i <= Len(s) THEN s[i] ELSE Nul
NextOf(c, s, from) ==
  LET at == {i \in from..Len(s) : s[i] = c}
  IN IF at = {} THEN 0 ELSE CHOOSE i \in at : \A j \in at : i <= j

InBrackets(c, allowed) ==
  IF Len(allowed) = 3 /\ allowed[2] = Dash
  THEN allowed[1] <= c /\ c <= allowed[3]
  ELSE c \in ToSet(allowed)

(* is_string_valid: needle from n on and pattern from p on, both at the    *)
(* same step of the loop.  Behind a bracket the pattern moves twice.       *)
RECURSIVE IsValid(_, _, _, _)
IsValid(needle, pattern, n, p) ==
  LET c == ReadAt(pattern, p)
      inside == IF ReadAt(pattern, p + 1) = Bang THEN p + 2 ELSE p + 1
      close == NextOf(Close, pattern, inside)
      allowed == SubSeq(pattern, inside, close - 1)
      negate == inside = p + 2
  IN IF n > Len(needle) /\ p > Len(pattern) THEN "yes"
     ELSE IF p > Len(pattern) + 1 THEN "undefined"
     ELSE IF n > Len(needle) THEN "no"
     ELSE IF c = Question THEN IsValid(needle, pattern, n + 1, p + 1)
     ELSE IF c = Hash
     THEN IF IsDigit(needle[n]) THEN IsValid(needle, pattern, n + 1, p + 1) ELSE "no"
     ELSE IF c = Open
     THEN IF close = 0 THEN "undefined"
          ELSE IF InBrackets(needle[n], allowed) = negate THEN "no"
          ELSE IsValid(needle, pattern, n + 1, close + 2)
     ELSE IF c # needle[n] THEN "no"
     ELSE IsValid(needle, pattern, n + 1, p + 1)

(* The part of the pattern up to the next asterisk, and how much of the    *)
(* needle it is compared with: of a bracket only `[` and `]` count.        *)
Part(pattern, q) ==
  LET star == NextOf(Asterisk, pattern, q)
  IN SubSeq(pattern, q, IF star = 0 THEN Len(pattern) ELSE star - 1)

Width(part) ==
  Cardinality({i \in DOMAIN part :
                 part[i] = Close \/ \A j \in 1..(i - 1) : part[j] # Open})

(* wildcard_parser: a part that does not fit is tried one place further,   *)
(* without the asterisk; one that fits takes its width and one place more. *)
RECURSIVE Walk(_, _, _, _, _)
Walk(needle, pattern, n, p, result) ==
  LET q == IF ReadAt(pattern, p) = Asterisk THEN p + 1 ELSE p
      part == Part(pattern, q)
      valid == IsValid(SubSeq(needle, n, Lesser(n + Width(part) - 1, Len(needle))), part, 1, 1)
  IN IF n > Len(needle)
     THEN IF p <= Len(pattern) /\ pattern[Len(pattern)] # Asterisk THEN "no" ELSE result
     ELSE CASE valid = "undefined" -> "undefined"
            [] valid = "yes" -> Walk(needle, pattern, n + Width(part) + 1, q + Len(part), "yes")
            [] valid = "no" -> Walk(needle, pattern, n + 1, q, result)

Like(needle, pattern) == Walk(needle, pattern, 1, 1, "no")

(***************************************************************************)
(* std::string: substr throws out_of_range behind the end, and a negative  *)
(* int is more than any size.                                              *)
(***************************************************************************)
Huge == 1000  \* bound: more than the length of any text of a run
Size(n) == IF n < 0 THEN Huge + n ELSE n

Substr(s, pos, count) == SubSeq(s, pos + 1, Lesser(pos + count, Len(s)))
NotInside(s, pos) == pos >= Len(s)           \* off by one
OutOfRange(s, pos) == pos > Len(s)

Occurs(sub, s, pos) == pos + Len(sub) <= Len(s) /\ Substr(s, pos, Len(sub)) = sub
Find(sub, s, start) == {pos \in start..Len(s) : Occurs(sub, s, pos)}

(***************************************************************************)
(* The functions                                                           *)
(***************************************************************************)
CharIndex(sub, s, start) ==
  LET found == Find(sub, s, Size(start))
  IN IF found = {} THEN NullText
     ELSE Number(CHOOSE pos \in found : \A other \in found : pos <= other)

Substring(s, start, len) ==
  IF OutOfRange(s, Size(start)) THEN Thrown ELSE Text(Substr(s, start, Size(len)))

Left(s, len) == Text(Substr(s, 0, Size(len)))

RightOf(s, len) ==
  IF len < 0 \/ len > Len(s) THEN Thrown ELSE Text(Substr(s, Len(s) - len, len))

FirstLetter(s) == {i \in DOMAIN s : ~IsSpace(s[i])}
LTrim(s) ==
  Text(IF FirstLetter(s) = {} THEN <<>>
       ELSE SubSeq(s, CHOOSE i \in FirstLetter(s) : \A j \in FirstLetter(s) : i <= j, Len(s)))

RTrim(s) ==
  Text(IF FirstLetter(s) = {} THEN <<>>
       ELSE SubSeq(s, 1, CHOOSE i \in FirstLetter(s) : \A j \in FirstLetter(s) : j <= i))

WaitsTwice(acc, c) ==                        \* what waits is not taken away
  LET temp == IF acc.con THEN Append(acc.temp, c) ELSE acc.temp
  IN IF IsSpace(c) THEN [acc EXCEPT !.temp = temp]
     ELSE [con |-> TRUE, temp |-> temp,
           result |-> acc.result \o temp \o (IF acc.con THEN <<>> ELSE <<c>>)]

(* A character before the first letter is dropped, one behind it waits for *)
(* the next letter, which is added with what waits.                        *)
TrimStep(acc, c) ==
  LET temp == IF acc.con THEN Append(acc.temp, c) ELSE acc.temp
  IN IF IsSpace(c) THEN [acc EXCEPT !.temp = temp]
     ELSE [con |-> TRUE, temp |-> <<>>,
           result |-> acc.result \o temp \o (IF acc.con THEN <<>> ELSE <<c>>)]
Trim(s) ==
  Text(FoldLeft(TrimStep, [con |-> FALSE, temp |-> <<>>, result |-> <<>>], s).result)

(* The index is moved behind what was replaced; an empty text moves it     *)
(* back to where it is.                                                    *)
RECURSIVE ReplaceFrom(_, _, _, _)
ReplaceFrom(s, sub, by, i) ==
  IF i >= Len(s) THEN <<>>
  ELSE IF Substr(s, i, Len(sub)) = sub THEN by \o ReplaceFrom(s, sub, by, i + Len(sub))
  ELSE <<s[i + 1]>> \o ReplaceFrom(s, sub, by, i + 1)
Replace(s, sub, by) ==
  IF sub = <<>> /\ s # <<>> THEN Endless ELSE Text(ReplaceFrom(s, sub, by, 0))

Replicate(s, count) ==
  IF count < 0 THEN Endless ELSE Text(FlattenSeq([i \in 1..count |-> s]))

Stuff(s, index, len, sub) ==
  IF OutOfRange(s, Size(index + len)) THEN Thrown
  ELSE Text(Substr(s, 0, Size(index)) \o sub \o Substr(s, index + len, Huge))

(* A word ends with a space; the last one is left as it is, whatever it is *)
(* (`temp = to_translate`).                                                *)
TranslateStep(acc, c, from, to) ==
  LET word == IF IsSpace(c) /\ acc.temp = from THEN to ELSE acc.temp
      end == IF acc.temp = from THEN Space ELSE c
  IN IF IsSpace(c) THEN [temp |-> <<>>, result |-> Append(acc.result \o word, end)]
     ELSE [acc EXCEPT !.temp = Append(@, c)]
Translate(s, from, to) ==
  LET Step(acc, c) == TranslateStep(acc, c, from, to)
      acc == FoldLeft(Step, [temp |-> <<>>, result |-> <<>>], s)
  IN Text(acc.result \o acc.temp)

Lower(s) == Text([i \in DOMAIN s |-> ToLower(s[i])])
Upper(s) == Text([i \in DOMAIN s |-> ToUpper(s[i])])
ReverseOf(s) == Text(Reverse(s))
Length(s) == Number(Len(s))

=============================================================================
