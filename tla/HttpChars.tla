----------------------------- MODULE HttpChars -----------------------------
(***************************************************************************)
(* The character classes of parser.c (with HTTP_PARSER_STRICT, which       *)
(* parser.h sets).  A character is a string of length one; a text is a     *)
(* string, and At(text, i) its i-th character or "" beyond its end.        *)
(* (The back quote, a character of URLs and tokens, is left out: SANY      *)
(* takes it for the start of a comment.)                                   *)
(***************************************************************************)
EXTENDS Integers, SequencesExt

NoText == ""
At(text, i) == IF i \in 1..Len(text) THEN SubSeq(text, i, i) ELSE NoText
Chars(text) == {At(text, i) : i \in 1..Len(text)}

CR == "\r"
LF == "\n"
Blank == {" ", "\t"}
LineEnd == {CR, LF}

Small == "abcdefghijklmnopqrstuvwxyz"
Capital == "ABCDEFGHIJKLMNOPQRSTUVWXYZ"
Digits == "0123456789"
Marks == "-_.!~*'()"
Separators == "(),/:;<=>?@[]{}\\\""
Visible == Small \o Capital \o Digits \o Marks \o Separators \o "#$%&+^|"

IsNum == {"0", "1", "2", "3", "4", "5", "6", "7", "8", "9"}
IsAlpha == Chars(Small \o Capital)
IsCapital == Chars(Capital)
IsAlphaNum == IsAlpha \cup IsNum
HexDigits == <<{"0"}, {"1"}, {"2"}, {"3"}, {"4"}, {"5"}, {"6"}, {"7"}, {"8"}, {"9"},
               {"a", "A"}, {"b", "B"}, {"c", "C"}, {"d", "D"}, {"e", "E"}, {"f", "F"}>>
IsHex == UNION {HexDigits[i] : i \in 1..16}
IsUserInfoChar == IsAlphaNum \cup Chars(Marks) \cup Chars("%;:&=+$,")
IsHostChar == IsAlphaNum \cup {".", "-"}
IsUrlChar == Chars(Visible) \ {"#", "?"}
IsToken == Chars(Visible) \ (Chars(Separators) \cup LineEnd)

PlaceIn(text, c) == CHOOSE i \in 1..Len(text) : At(text, i) = c

\* LOWER for letters; no other character that it changes is told apart.
Lower(c) == IF c \in IsCapital THEN At(Small, PlaceIn(Capital, c)) ELSE c

Unhex(c) == CHOOSE value \in 0..15 : c \in HexDigits[value + 1]
DigitValue(c) == CHOOSE value \in 0..9 : c \in HexDigits[value + 1]

UpTo(n) == [i \in 1..n |-> i]

\* The number that a text of digits is.
NumberOf(text) ==
    FoldLeft(LAMBDA value, i : 10 * value + DigitValue(At(text, i)), 0, UpTo(Len(text)))
=============================================================================
