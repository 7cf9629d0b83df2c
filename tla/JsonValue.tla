----------------------------- MODULE JsonValue -----------------------------
(***************************************************************************)
(* Json::Value of jsoncpp: a tree of values.                               *)
(*                                                                         *)
(* A tree is a function from paths to nodes.  A path is a sequence of      *)
(* steps, a step the key of a std::map in the code: an index or a name     *)
(* (CZString).  A text is a sequence of characters, a character a string   *)
(* of length one, or Byte(n) where TLA+ has no such string.  The integer   *)
(* types are narrowed to the bounds below.  A real is int * 10^exp: only   *)
(* decimals that a double keeps occur.                                     *)
(***************************************************************************)
EXTENDS HttpChars, FiniteSets

CONSTANTS maxInt, maxLargestInt, maxLargestUInt

ASSUME WidthAssumption ==
    /\ {maxInt, maxLargestInt, maxLargestUInt} \subseteq Nat
    /\ maxInt <= maxLargestInt /\ maxLargestUInt = 2 * maxLargestInt + 1

T(string) == [i \in 1..Len(string) |-> At(string, i)]

\* The character with code n: those from 32 to 126 in the order of ASCII.
Printable == " !\"#$%&'()*+,-./0123456789:;<=>?@ABCDEFGHIJKLMNOPQRSTUVWXYZ[\\]^_"
    \o "?abcdefghijklmnopqrstuvwxyz{|}~"
NUL == "byte 0"
Byte(n) == CASE n = 0 -> NUL [] n = 9 -> "\t" [] n = 10 -> "\n" [] n = 12 -> "\f" [] n = 13 -> "\r"
             [] n \in (32..126) \ {96} -> At(Printable, n - 31)
             [] OTHER -> "byte " \o ToString(n)
CodeOf == [c \in {Byte(n) : n \in 0..255} |-> CHOOSE n \in 0..255 : Byte(n) = c]
IsControlCharacter == {Byte(n) : n \in 1..31}

\* Six bits of cp behind the first n, as a byte of a longer character.
Behind(cp, n) == Byte(128 + ((cp \div n) % 64))
CodePointToUTF8(cp) ==
    CASE cp <= 127 -> <<Byte(cp)>>
      [] cp \in 128..2047 -> <<Byte(192 + cp \div 64), Behind(cp, 1)>>
      [] cp \in 2048..65535 -> <<Byte(224 + cp \div 4096), Behind(cp, 64), Behind(cp, 1)>>
      [] cp \in 65536..1114111 -> <<Byte(240 + cp \div 262144), Behind(cp, 4096),
                                    Behind(cp, 64), Behind(cp, 1)>>
      [] OTHER -> <<>>

UintToString[n \in Nat] ==
    IF n < 10 THEN <<At(Digits, n + 1)>>
    ELSE Append(UintToString[n \div 10], At(Digits, (n % 10) + 1))

\* %.17g of a decimal: its digits, and the power of ten of the first of them.
Zeros(n) == [i \in 1..n |-> "0"]
Scientific(digits, power) ==
    <<Head(digits)>> \o (IF Len(digits) = 1 THEN <<>> ELSE <<".">> \o Tail(digits))
    \o T("e-") \o (IF power > -10 THEN <<"0">> ELSE <<>>) \o UintToString[-power]
Plain(digits, exp) ==
    IF exp >= 0 THEN digits \o Zeros(exp)
    ELSE IF Len(digits) > -exp
    THEN SubSeq(digits, 1, Len(digits) + exp) \o <<".">>
         \o SubSeq(digits, Len(digits) + exp + 1, Len(digits))
    ELSE T("0.") \o Zeros(-exp - Len(digits)) \o digits
RealToString(digits, exp) ==
    IF Len(digits) - 1 + exp < -4 THEN Scientific(digits, Len(digits) - 1 + exp)
                                  ELSE Plain(digits, exp)

\* valueToString of a number of any of the three types.
NumberToString(number) ==
    (IF number.int < 0 THEN <<"-">> ELSE <<>>)
    \o LET magnitude == UintToString[IF number.int < 0 THEN -number.int ELSE number.int]
       IN IF number.type = "real" THEN RealToString(magnitude, number.exp) ELSE magnitude

-----------------------------------------------------------------------------
Placements == {"commentBefore", "commentAfterOnSameLine", "commentAfter"}
NoComments == [placement \in Placements |-> <<>>]

\* int is also the value of a boolean, 0 or 1; text that of a string.
Value(type, int, exp, text) ==
    [type |-> type, int |-> int, exp |-> exp, text |-> text,
     start |-> 0, limit |-> 0, comments |-> NoComments]
Null == Value("null", 0, 0, <<>>)
Boolean(b) == Value("boolean", IF b THEN 1 ELSE 0, 0, <<>>)
String(text) == Value("string", 0, 0, text)
Container(type) == Value(type, 0, 0, <<>>)
Containers == {"array", "object"}

\* A real in lowest terms.
Lowest[r \in Int \X Int] ==
    IF r[1] = 0 THEN <<0, 0>>
    ELSE IF r[1] % 10 = 0 THEN Lowest[<<r[1] \div 10, r[2] + 1>>] ELSE r
Real(r) == Value("real", Lowest[r][1], Lowest[r][2], <<>>)

Payload(node) == [type |-> node.type, int |-> node.int, exp |-> node.exp, text |-> node.text]

Index(i) == [key |-> <<>>, index |-> i]
Name(text) == [key |-> text, index |-> -1]

ChildSteps(tree, path) ==
    {q[Len(q)] : q \in {q \in DOMAIN tree : Len(q) = Len(path) + 1 /\ IsPrefix(path, q)}}

\* size(): one more than the highest index, or the number of members.
Size(tree, path) ==
    CASE tree[path].type = "array" ->
             Max({step.index : step \in ChildSteps(tree, path)} \cup {-1}) + 1
      [] tree[path].type = "object" -> Cardinality(ChildSteps(tree, path))
      [] OTHER -> 0

\* CZString's operator<, and getMemberNames.
Before(a, b) ==
    \E n \in 0..Len(b) :
        /\ n <= Len(a) /\ SubSeq(a, 1, n) = SubSeq(b, 1, n)
        /\ n < Len(b) /\ (n = Len(a) \/ CodeOf[a[n + 1]] < CodeOf[b[n + 1]])
MemberNames(tree, path) == SetToSortSeq({step.key : step \in ChildSteps(tree, path)}, Before)

\* operator[]: a member that is not there is made, null.
Resolved(tree, path) ==
    IF path \in DOMAIN tree THEN tree
    ELSE [q \in DOMAIN tree \cup {path} |-> IF q = path THEN Null ELSE tree[q]]

\* operator[] of a const Value: null where there is none.
Found(tree, path) == IF path \in DOMAIN tree THEN tree[path] ELSE Null

\* swapPayload: the node keeps its comments and its offsets.
SwapPayload(tree, path, node) ==
    [q \in {q \in DOMAIN tree : ~IsStrictPrefix(path, q)} |->
        IF q # path THEN tree[q]
        ELSE [tree[q] EXCEPT !.type = node.type, !.int = node.int, !.exp = node.exp,
                             !.text = node.text]]

SetOffsetStart(tree, path, offset) == [tree EXCEPT ![path].start = offset]
SetOffsetLimit(tree, path, offset) == [tree EXCEPT ![path].limit = offset]

\* A trailing newline is discarded; the comment that was there is replaced.
Trimmed(comment) == IF comment # <<>> /\ Last(comment) = "\n" THEN Front(comment) ELSE comment
SetComment(tree, path, comment, placement) ==
    [tree EXCEPT ![path].comments[placement] = Trimmed(comment)]

Payloads(tree) == [path \in DOMAIN tree |-> Payload(tree[path])]
=============================================================================
