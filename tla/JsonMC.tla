------------------------------- MODULE JsonMC -------------------------------
(***************************************************************************)
(* Documents for the reader: what the writers write of trees, and words of *)
(* tokens, numbers, strings and comments, with what must become of them.   *)
(***************************************************************************)
EXTENDS JsonReader, JsonWriter

CONSTANT MaxWord   \* bound: tokens of a word

Document(chars, features, verdict, meant) ==
    [text |-> chars, features |-> features, stackLimit |-> 9, collect |-> TRUE,
     verdict |-> verdict, meant |-> meant]
Unsaid == <<>>

\* The modes that setDefaults and strictMode set, and one that allows all.
Default == {"allowComments"}
Strict == {"strictRoot", "failIfExtra", "rejectDupKeys"}
Lenient == {"allowComments", "allowDroppedNullPlaceholders", "allowNumericKeys",
            "allowSingleQuotes"}

-----------------------------------------------------------------------------
\* Trees, and what is read of what is written of them.

Leaf(node) == <<>> :> node
Under(step, tree) == [q \in {<<step>> \o p : p \in DOMAIN tree} |-> tree[Tail(q)]]
ArrayOf(trees) ==
    FoldLeftDomain(LAMBDA all, i : all @@ Under(Index(i - 1), trees[i]),
                   Leaf(Container("array")), trees)
ObjectOf(names, trees) ==
    FoldLeftDomain(LAMBDA all, i : all @@ Under(Name(T(names[i])), trees[i]),
                   Leaf(Container("object")), trees)
Commented(tree, placement, comment) == SetComment(tree, <<>>, T(comment), placement)

Power(n) == FoldLeft(LAMBDA all, i : 10 * all, 1, UpTo(n))
Integer(n) == Payload(Value(IF n <= maxInt THEN "int" ELSE "uint", n, 0, <<>>))
\* A number has the type its text has: a real without a fraction becomes an
\* integer, and an integer is unsigned only if it is larger than maxInt.
AsRead(node) ==
    CASE node.type = "real" /\ node.exp >= 0 -> Integer(node.int * Power(node.exp))
      [] node.type \in {"int", "uint"} -> Integer(node.int)
      [] OTHER -> Payload(node)
Holes(tree) == UNION {{Append(p, Index(i)) : i \in 0..(Size(tree, p) - 1)} :
                         p \in {p \in DOMAIN tree : tree[p].type = "array"}} \ DOMAIN tree
Meant(tree) == [p \in DOMAIN tree \cup Holes(tree) |-> AsRead(Found(tree, p))]

Numbers == {Value("int", n, 0, <<>>) : n \in {0, 7, 8, 10, -1, -127, -128, 127}}
    \cup {Value("uint", n, 0, <<>>) : n \in {7, 8, 128, 249, 250, 255}}
    \cup {Real(r) : r \in {<<0, 0>>, <<5, -1>>, <<-125, -2>>, <<1, -4>>, <<-12, -6>>,
                           <<7, 0>>, <<2, 2>>}}
Texts == {<<>>, T("a b"), T("\"\\/"), T("\n\r\t\f"), <<Byte(8), Byte(1), Byte(31)>>,
          <<"a", NUL, "b">>, CodePointToUTF8(233), CodePointToUTF8(8364), T("/*x*/")}
Leaves == {Leaf(node) : node \in Numbers \cup {String(t) : t \in Texts}
                                 \cup {Null, Boolean(TRUE), Boolean(FALSE)}}
Text1 == Leaf(String(T("a")))
One == Leaf(Value("int", 1, 0, <<>>))
Void == ArrayOf(<<>>)
Elements == {One, Text1, Leaf(Null), Void, ObjectOf(<<>>, <<>>), ArrayOf(<<One>>),
             ArrayOf(<<One, One, One, One>>), ObjectOf(<<"">>, <<One>>)}
Plains == Leaves \cup Elements
    \cup {ArrayOf(<<a>>) : a \in Leaves \cup Elements}
    \cup {ArrayOf(<<a, b>>) : a, b \in Elements}
    \cup {ObjectOf(<<"b", "a">>, <<a, b>>) : a, b \in Elements}
    \cup {ArrayOf(<<ObjectOf(<<"ab", "a", "\n">>, <<a, ArrayOf(<<a, a>>), a>>)>>) : a \in Elements}
    \cup {Leaf(Container("array")) @@ Under(Index(2), One)}

Notes == {<<"commentBefore", "/*b*/">>, <<"commentBefore", "// b\n// c">>,
          <<"commentAfterOnSameLine", "/* s */">>, <<"commentAfterOnSameLine", "// s">>,
          <<"commentAfter", "// a">>}
LineNotes == {note \in Notes : At(note[2], 2) = "/"}
CommentedWith(notes) ==
    UNION {{ArrayOf(<<x, One>>), ArrayOf(<<Void, x>>), ObjectOf(<<"a", "b">>, <<x, Void>>),
            ObjectOf(<<"a">>, <<ArrayOf(<<x>>)>>), x} :
               x \in {Commented(tree, note[1], note[2]) :
                         tree \in {One, Void, ArrayOf(<<One, Text1>>), ObjectOf(<<"c">>, <<One>>)},
                         note \in notes}}

Tab == <<"\t">>
Indenting == {Built(Tab, TRUE, FALSE, FALSE, 12), Built(Tab, FALSE, TRUE, FALSE, 12)}
Compact == {Built(<<>>, comments, FALSE, FALSE, 12) : comments \in BOOLEAN}
Fasts == {Fast(FALSE, FALSE, FALSE), Fast(TRUE, FALSE, TRUE)}

Again(chars, tree, features) == Document(chars, features, "accept", Meant(tree))
Layouts(trees) ==
    {Again(StyledWrite(tree, Styled(12)), tree, Default) : tree \in trees}
    \cup {Again(BuiltWrite(tree, w), tree, Default) : tree \in trees, w \in Indenting}
Written ==
    Layouts(Plains \cup CommentedWith(Notes))
    \cup {Again(FastWrite(tree, w), tree, Default) :
              tree \in Plains \cup CommentedWith(Notes), w \in Fasts}
    \cup {Again(BuiltWrite(tree, w), tree, Default) :
              tree \in Plains \cup CommentedWith(Notes \ LineNotes), w \in Compact}

\* Where nulls are left out, one that is alone in the document or in an array
\* is not seen.
SeenNulls(tree) ==
    /\ tree[<<>>].type # "null"
    /\ \A p \in DOMAIN tree :
           tree[p].type = "array" /\ Size(tree, p) = 1 =>
               Found(tree, Append(p, Index(0))).type # "null"
Dropping ==
    {Again(FastWrite(tree, Fast(FALSE, TRUE, FALSE)), tree, Lenient) :
         tree \in {tree \in Plains : SeenNulls(tree)}}
    \cup {Again(BuiltWrite(tree, Built(Tab, FALSE, FALSE, TRUE, 12)), tree, Lenient) :
              tree \in {tree \in Plains : SeenNulls(tree)}}

-----------------------------------------------------------------------------
\* Words of tokens, and which of them are JSON.

RECURSIVE IsValue(_), IsItems(_), IsMembers(_)
Inner(w) == SubSeq(w, 2, Len(w) - 1)
IsItems(w) == IsValue(w) \/ \E i \in 2..(Len(w) - 1) :
    w[i] = "," /\ IsValue(SubSeq(w, 1, i - 1)) /\ IsItems(SubSeq(w, i + 1, Len(w)))
IsMember(w) == Len(w) > 2 /\ w[1] = "\"a\"" /\ w[2] = ":" /\ IsValue(SubSeq(w, 3, Len(w)))
IsMembers(w) == IsMember(w) \/ \E i \in 4..(Len(w) - 1) :
    w[i] = "," /\ IsMember(SubSeq(w, 1, i - 1)) /\ IsMembers(SubSeq(w, i + 1, Len(w)))
IsValue(w) ==
    \/ w \in {<<"1">>, <<"\"a\"">>, <<"[", "]">>, <<"{", "}">>}
    \/ Len(w) > 2 /\ w[1] = "[" /\ w[Len(w)] = "]" /\ IsItems(Inner(w))
    \/ Len(w) > 2 /\ w[1] = "{" /\ w[Len(w)] = "}" /\ IsMembers(Inner(w))

TextOf(w) == Between([i \in DOMAIN w |-> T(w[i])], <<" ">>)
Verdict(accepted) == IF accepted THEN "accept" ELSE "refuse"
\* What follows a value is not looked at by default, and a strict root is a
\* container.
Accepts(features, w) ==
    IF features = Strict THEN IsValue(w) /\ w[1] \in {"[", "{"}
    ELSE \E n \in 1..Len(w) : IsValue(SubSeq(w, 1, n))
Alphabet == {"[", "]", "{", "}", ",", ":", "1", "\"a\""}
Words(n) == UNION {[1..k -> Alphabet] : k \in 0..n}
    \cup {<<a>> \o w : a \in {"[", "{"}, w \in [1..n -> Alphabet]}
    \cup {<<"{", "\"a\"", ":">> \o w : w \in [1..n -> Alphabet]}
Worded == {Document(TextOf(w), features, Verdict(Accepts(features, w)), Unsaid) :
               features \in {Default, Strict}, w \in Words(MaxWord)}

\* Comments between the tokens of a document: refused before a colon, and in an
\* array that is empty otherwise.
Bases == {<<"1">>, <<"[", "1", ",", "[", "]", "]">>,
          <<"{", "\"a\"", ":", "{", "}", ",", "\"b\"", ":", "1", "}">>}
Remarks == {"/*x*/", "/*x\n*/", "// x\n", "\n/*x*/"}
Other == "y" :> "/*y*/" @@ "z" :> "\n// y\r\n"
Inserted(w, i, remark) == SubSeq(w, 1, i) \o <<remark>> \o SubSeq(w, i + 1, Len(w))
IsRemark(string) == string \in Remarks \cup Range(Other)
RECURSIVE Misplaced(_, _)
Misplaced(w, i) ==
    CASE i > Len(w) -> FALSE
      [] i <= Len(w) /\ IsRemark(w[i]) ->
             \/ i < Len(w) /\ w[i + 1] = ":"
             \/ i < Len(w) /\ w[i + 1] = "]"
                /\ \E k \in 1..(i - 1) : w[k] = "[" /\ \A j \in (k + 1)..i : IsRemark(w[j])
             \/ Misplaced(w, i + 1)
      [] OTHER -> Misplaced(w, i + 1)
Remarked ==
    UNION {{Document(TextOf(w), Default, Verdict(~Misplaced(w, 1)), Unsaid) :
        w \in UNION {{Inserted(v, j, other) : j \in 0..Len(v), other \in Range(Other)} :
                  v \in {Inserted(base, i, remark) : i \in 0..Len(base), remark \in Remarks}}} :
        base \in Bases}

-----------------------------------------------------------------------------
\* Numbers, made from their parts, and strings.

Decimal(m, e) == Payload(Real(<<m, e>>))
Tenths == "" :> <<0, 0>> @@ ".0" :> <<0, 1>> @@ ".5" :> <<5, 1>> @@ ".25" :> <<25, 2>>
Tens == "" :> 0 @@ "e1" :> 1 @@ "E+1" :> 1 @@ "e-2" :> -2
Naturals_ == {0, 1, 12, maxInt, maxInt + 1, maxLargestInt, maxLargestInt + 1,
              maxLargestInt + 2, maxLargestUInt, maxLargestUInt + 1, 10 * maxLargestUInt}
Signed(n, sign) ==
    IF n > (IF sign = -1 THEN maxLargestInt + 1 ELSE maxLargestUInt) THEN Decimal(sign * n, 0)
    ELSE IF sign = -1 THEN Payload(Value("int", -n, 0, <<>>)) ELSE Integer(n)
Numbered ==
    {Document((IF sign = -1 THEN <<"-">> ELSE <<>>) \o UintToString[n] \o T(fraction) \o T(exp),
              {"failIfExtra"}, "accept",
              <<>> :> IF fraction = "" /\ exp = "" THEN Signed(n, sign)
                      ELSE Decimal(sign * (n * Power(Tenths[fraction][2]) + Tenths[fraction][1]),
                                   Tens[exp] - Tenths[fraction][2])) :
         n \in Naturals_, sign \in {1, -1}, fraction \in DOMAIN Tenths, exp \in DOMAIN Tens}

Quote(chars) == <<"\"">> \o chars \o <<"\"">>
Spelled(string, chars) ==
    Document(Quote(T(string)), {"failIfExtra"}, "accept", <<>> :> Payload(String(chars)))
Misspelled(string) == Document(T(string), {"failIfExtra"}, "refuse", Unsaid)
Stringed ==
    {Spelled("\\u0041\\u000a", T("A\n")), Spelled("\\u00e9", CodePointToUTF8(233)),
     Spelled("\\u20AC", CodePointToUTF8(8364)), Spelled("\\/\\b", <<"/", Byte(8)>>),
     Spelled("\\\\", T("\\")), Spelled("x\\ud83d\\ude00", <<"x">> \o CodePointToUTF8(128512)),
     Spelled("'", T("'"))}
    \cup {Misspelled(bad) :
        bad \in {"\"", "\"a", "\"a\\\"", "\"\\x\"", "\"\\u12\"", "\"\\u00g0\"", "\"\\ud83d\"",
                 "\"\\ud83dabcdef\"", "\"\\ud83d\\u12\"", "'a'", "tru", "-.", "-e1",
                 "+1", ".5", "1 2", "/", "/*", "[1}", "{1:2}", "{\"a\\x\":1}"}}

\* What the code reads though it is no JSON, and the limits.
Odd(string, features, meant) == Document(T(string), features, "accept", meant)
NumberOdd(string, n) == Odd(string, {"failIfExtra"}, <<>> :> Integer(n))
Odds ==
    {NumberOdd("-", 0), NumberOdd("007", 7), NumberOdd("1 x", 1),
     Odd("1.", {}, <<>> :> Decimal(1, 0)), Odd("-.5e", {}, <<>> :> Decimal(-5, -1)),
     Odd("{\"\":1,}", Strict, Meant(ObjectOf(<<"">>, <<One>>))),
     Odd("{\"a\":1/**/:\"b\":1}", {}, Meant(ObjectOf(<<"a", "b">>, <<One, One>>))),
     Odd("{\"a\":[2],\"a\":1}", Default, Meant(ObjectOf(<<"a">>, <<One>>))),
     Odd("{\"a\":[/*x*/ 2],\"a\":1}", Default, Meant(ObjectOf(<<"a">>, <<One>>))),
     Odd("{\"a\":/*x*/ 2,\"a\":/*y*/1}", Default, Meant(ObjectOf(<<"a">>, <<One>>))),
     Odd("{1:1,2.5:1}", Lenient, Meant(ObjectOf(<<"1", "2.5">>, <<One, One>>))),
     Odd("'a\"b'", Lenient, Meant(Text1))}
    \cup {Document(T("{\"a\":1,\"a\":1}"), Strict, "refuse", Unsaid),
          Document(T("'*x*/1"), Default, "throw", Unsaid),
          Document(T("1 '*x*/"), Default, "throw", Unsaid),
          Document(T("1\n'*x*/"), Default, "throw", Unsaid),
          Document(T("[1 /*x*/ /*x\n*/ 2] /*x*/"), Strict, "refuse", Unsaid),
          Document(T("{\"a\" '*x*/ 1}"), Default, "throw", Unsaid),
          Document(T("{\"a\":1 x '*y*/ }"), Default, "throw", Unsaid),
          Document(T("/*x*/ 1"), Strict, "refuse", Unsaid),
          Document(<<"1", NUL, "2">>, {"failIfExtra"}, "accept", <<>> :> Integer(1))}

\* Arrays and objects as deep as the limit, and deeper.
Nested(n) == FoldLeft(LAMBDA tree, i : IF i % 2 = 0 THEN ArrayOf(<<tree>>)
                                       ELSE ObjectOf(<<"a">>, <<tree>>), One, UpTo(n))
Limited == {[Document(FastWrite(Nested(n), Fast(FALSE, FALSE, TRUE)), Default,
                      IF n < limit THEN "accept" ELSE "throw", Unsaid)
                EXCEPT !.stackLimit = limit] : n \in 0..4, limit \in 0..5}

AllDocuments == Written \cup Dropping \cup Worded \cup Remarked \cup Numbered \cup Stringed
    \cup Odds \cup Limited
=============================================================================
