----------------------------- MODULE JsonReader -----------------------------
(***************************************************************************)
(* Json::OurReader, of which Json::Reader is a copy with fewer features.   *)
(*                                                                         *)
(* A step reads one token and does what the code does with it.  Positions  *)
(* count the characters before them, as the code's offsets from begin_ do. *)
(* The calls of readValue, readObject and readArray that are open are      *)
(* `levels'; nodes_ is the path of the value being read.                   *)
(***************************************************************************)
EXTENDS JsonValue

CONSTANT Documents   \* [text, features, stackLimit, collect, verdict, meant]

ASSUME DocumentsAssumption ==
    \A d \in Documents : d.stackLimit \in Nat /\ d.text \in Seq(STRING)

VARIABLES
    doc,             \* the document of this behaviour
    root,            \* the tree of values read
    path,            \* nodes_
    levels,          \* the containers being read: [type, name, index]
    phase,           \* where the reader is
    current,         \* current_
    token,           \* the token that readToken finds there
    depth,           \* stackDepth_
    errors,          \* errors_: the tokens they are about
    lastValueEnd,    \* lastValueEnd_, or -1
    lastValue,       \* lastValue_
    commentsBefore,  \* commentsBefore_
    successful,
    seen,            \* history: the comments collected, and where they stood
    replaced         \* history: whether a member was given a second value

vars == <<doc, root, path, levels, phase, current, token, depth, errors,
          lastValueEnd, lastValue, commentsBefore, successful, seen, replaced>>

\* "value": in readValue, behind its check of the depth; "name", "colon",
\* "comma", "anyComma": in readObject; "item": in readArray behind a value;
\* "recover": in recoverFromError; "extra": behind the root.
Phases == {"value", "name", "colon", "comma", "anyComma", "item", "recover",
           "extra", "done", "threw"}

text == doc.text
Has(feature) == feature \in doc.features
Collects == doc.collect /\ Has("allowComments")

-----------------------------------------------------------------------------
\* Tokens.

End == Len(text)
CharAt(i) == IF i \in 0..(End - 1) THEN text[i + 1] ELSE NUL
Slice(from, to) == SubSeq(text, from + 1, to)

FirstWhere(i, P(_)) == Min({j \in i..(End - 1) : P(j)} \cup {End})

Spaces == {" ", "\t", "\r", "\n"}
SkipSpaces(i) == FirstWhere(i, LAMBDA j : CharAt(j) \notin Spaces)

\* How many backslashes stand right before j, back to i; and the first quote
\* from i on that none of them takes away.
Backslashes(i, j) == j - Max({k \in i..j : k = i \/ CharAt(k - 1) # "\\"})
ClosingQuote(i, quote) ==
    FirstWhere(i, LAMBDA j : CharAt(j) = quote /\ Backslashes(i, j) % 2 = 0)

DigitsFrom(i) == FirstWhere(i, LAMBDA j : CharAt(j) \notin IsNum)
FractionFrom(i) == IF CharAt(i) = "." THEN DigitsFrom(i + 1) ELSE i
ExponentFrom(i) ==
    IF CharAt(i) \notin {"e", "E"} THEN i
    ELSE DigitsFrom(IF CharAt(i + 1) \in {"+", "-"} THEN i + 2 ELSE i + 1)
ReadNumber(i) == ExponentFrom(FractionFrom(DigitsFrom(i)))

Token(type, start, end) == [type |-> type, start |-> start, end |-> end]

ReadString(s, close) == IF close = End THEN Token("tokenError", s, End)
                                       ELSE Token("tokenString", s, close + 1)
ReadCStyleComment(s, star) ==
    IF star = End THEN Token("tokenError", s, End) ELSE Token("tokenComment", s, star + 2)
ReadCppStyleComment(s, eol) ==
    Token("tokenComment", s,
          IF eol = End THEN End
          ELSE IF CharAt(eol) = "\r" /\ CharAt(eol + 1) = "\n" THEN eol + 2 ELSE eol + 1)
ReadComment(s) ==
    CASE CharAt(s + 1) = "*" ->
             ReadCStyleComment(s, FirstWhere(s + 2,
                 LAMBDA j : CharAt(j) = "*" /\ CharAt(j + 1) = "/"))
      [] CharAt(s + 1) = "/" ->
             ReadCppStyleComment(s, FirstWhere(s + 2, LAMBDA j : CharAt(j) \in {"\r", "\n"}))
      [] OTHER -> Token("tokenError", s, Min({s + 2, End}))

Match(s, type, rest) ==
    IF Slice(s + 1, Min({s + 1 + Len(rest), End})) = rest
    THEN Token(type, s, s + 1 + Len(rest)) ELSE Token("tokenError", s, s + 1)

Punctuation == [c \in {"{", "}", "[", "]", ",", ":"} |->
    CASE c = "{" -> "tokenObjectBegin" [] c = "}" -> "tokenObjectEnd"
      [] c = "[" -> "tokenArrayBegin" [] c = "]" -> "tokenArrayEnd"
      [] c = "," -> "tokenArraySeparator" [] c = ":" -> "tokenMemberSeparator"]

Quotes == {"\""} \cup (IF Has("allowSingleQuotes") THEN {"'"} ELSE {})

\* A quote that is not allowed falls through to the case of a comment.
ReadFrom[s \in Nat] ==
    CASE s = End -> Token("tokenEndOfStream", s, s)
      [] CharAt(s) = NUL /\ s # End -> Token("tokenEndOfStream", s, s + 1)
      [] CharAt(s) \in DOMAIN Punctuation -> Token(Punctuation[CharAt(s)], s, s + 1)
      [] CharAt(s) \in Quotes ->
             ReadString(s, ClosingQuote(s + 1, CharAt(s)))
      [] CharAt(s) \in {"/", "'"} \ Quotes -> ReadComment(s)
      [] CharAt(s) \in IsNum \cup {"-"} -> Token("tokenNumber", s, ReadNumber(s + 1))
      [] CharAt(s) = "t" -> Match(s, "tokenTrue", <<"r", "u", "e">>)
      [] CharAt(s) = "f" -> Match(s, "tokenFalse", <<"a", "l", "s", "e">>)
      [] CharAt(s) = "n" -> Match(s, "tokenNull", <<"u", "l", "l">>)
      [] OTHER -> Token("tokenError", s, s + 1)
ReadToken(i) == ReadFrom[SkipSpaces(i)]

-----------------------------------------------------------------------------
\* What tokens stand for.

Decoded(ok, node) == [ok |-> ok, node |-> node]

Numeral[digits \in Seq(STRING)] ==
    IF digits = <<>> THEN 0 ELSE 10 * Numeral[Front(digits)] + DigitValue(Last(digits))
Exponent(chars) ==
    IF chars # <<>> /\ chars[1] \in {"+", "-"}
    THEN (IF chars[1] = "-" THEN -1 ELSE 1) * Numeral[Tail(chars)] ELSE Numeral[chars]

\* sscanf's %lf: the digits before e, and how many of them are behind the point.
DecodeDouble(mantissa, exponent) ==
    LET digits == SelectSeq(mantissa, LAMBDA c : c \in IsNum)
        fraction == Max({Len(mantissa) - i : i \in {i \in DOMAIN mantissa : mantissa[i] = "."}}
                        \cup {0})
        sign == IF mantissa[1] = "-" THEN -1 ELSE 1
    IN Decoded(digits # <<>>,
               Real(<<sign * Numeral[digits], Exponent(exponent) - fraction>>))
AsDouble(chars) ==
    LET e == Min({i \in DOMAIN chars : chars[i] \in {"e", "E"}} \cup {Len(chars) + 1})
    IN DecodeDouble(SubSeq(chars, 1, e - 1), SubSeq(chars, e + 1, Len(chars)))

\* The value of the digits up to the i-th, or -1: the number is read as a double.
Grown[value \in Int, digit \in STRING, last \in BOOLEAN, limit \in Nat] ==
    IF value = -1 \/ digit \notin IsNum THEN -1
    ELSE IF value >= limit \div 10
            /\ (value > limit \div 10 \/ ~last \/ DigitValue(digit) > limit % 10) THEN -1
    ELSE 10 * value + DigitValue(digit)
Grow(digits, limit) ==
    LET value[i \in 0..Len(digits)] ==
            IF i = 0 THEN 0 ELSE Grown[value[i - 1], digits[i], i = Len(digits), limit]
    IN value[Len(digits)]

Number(chars, value) ==
    CASE value = -1 -> AsDouble(chars)
      [] value # -1 /\ chars[1] = "-" -> Decoded(TRUE, Value("int", -value, 0, <<>>))
      [] value \in 0..maxInt /\ chars[1] # "-" -> Decoded(TRUE, Value("int", value, 0, <<>>))
      [] OTHER -> Decoded(TRUE, Value("uint", value, 0, <<>>))
DecodeNumber(chars) ==
    Number(chars, IF chars[1] = "-" THEN Grow(Tail(chars), maxLargestInt + 1)
                                    ELSE Grow(chars, maxLargestUInt))

Escapes == "\"" :> "\"" @@ "/" :> "/" @@ "\\" :> "\\" @@ "b" :> Byte(8)
    @@ "f" :> "\f" @@ "n" :> "\n" @@ "r" :> "\r" @@ "t" :> "\t"

\* Four hexadecimal digits at i, before end, or -1.
DecodeUnicodeEscapeSequence(i, end) ==
    IF end - i < 4 \/ \E j \in i..(i + 3) : CharAt(j) \notin IsHex THEN -1
    ELSE FoldLeft(LAMBDA value, c : 16 * value + Unhex(c), 0, Slice(i, i + 4))
IsHighSurrogate(unit) == unit \in 55296..56319

\* The code point at i, behind the \u, and what follows it, or -1.
WrongSurrogates(unit, i, end) ==
    IF end - i < 6 \/ Slice(i, i + 2) # T("\\u")
       \/ DecodeUnicodeEscapeSequence(i + 2, end) = -1
    THEN -1 ELSE (unit % 1024) * 1024 + (DecodeUnicodeEscapeSequence(i + 2, end) % 1024)
Surrogates(unit, i, end) ==
    IF end - i < 6 \/ Slice(i, i + 2) # T("\\u")
       \/ DecodeUnicodeEscapeSequence(i + 2, end) = -1
    THEN -1
    ELSE 65536 + (unit % 1024) * 1024 + (DecodeUnicodeEscapeSequence(i + 2, end) % 1024)
DecodeUnicodeCodePoint(unit, i, end) ==
    IF IsHighSurrogate(unit) THEN [cp |-> Surrogates(unit, i, end), next |-> i + 6]
                             ELSE [cp |-> unit, next |-> i]

Behind_(chars, rest) == [rest EXCEPT !.text = chars \o @]
DecodeString ==
    LET end == token.end - 1
        from[i \in token.start..end] ==
            IF i = end \/ CharAt(i) = "\"" THEN [ok |-> TRUE, text |-> <<>>]
            ELSE IF CharAt(i) # "\\" THEN Behind_(<<CharAt(i)>>, from[i + 1])
            ELSE IF i + 1 # end /\ CharAt(i + 1) \in DOMAIN Escapes
                 THEN Behind_(<<Escapes[CharAt(i + 1)]>>, from[i + 2])
            ELSE IF i + 1 # end /\ CharAt(i + 1) = "u"
                 THEN LET point == DecodeUnicodeCodePoint(
                                       DecodeUnicodeEscapeSequence(i + 2, end), i + 6, end)
                      IN IF point.cp = -1 THEN [ok |-> FALSE, text |-> <<>>]
                         ELSE Behind_(CodePointToUTF8(point.cp), from[point.next])
            ELSE [ok |-> FALSE, text |-> <<>>]
    IN from[token.start + 1]

Scalars == {"tokenNull", "tokenTrue", "tokenFalse", "tokenNumber", "tokenString"}
ScalarOf ==
    CASE token.type = "tokenNull" -> Decoded(TRUE, Null)
      [] token.type = "tokenTrue" -> Decoded(TRUE, Boolean(TRUE))
      [] token.type = "tokenFalse" -> Decoded(TRUE, Boolean(FALSE))
      [] token.type = "tokenNumber" -> DecodeNumber(Slice(token.start, token.end))
      [] token.type = "tokenString" ->
             Decoded(DecodeString.ok, String(DecodeString.text))

\* The name a token gives a member.
NameOf ==
    IF token.type = "tokenString" THEN DecodeString
    ELSE [ok |-> DecodeNumber(Slice(token.start, token.end)).ok,
          text |-> NumberToString(DecodeNumber(Slice(token.start, token.end)).node)]

-----------------------------------------------------------------------------
\* Comments.

NewLineIn(from, to) == \E j \in from..(to - 1) : CharAt(j) \in {"\r", "\n"}
NormalizeEOL(chars) ==
    FlattenSeq([i \in DOMAIN chars |->
        IF chars[i] # "\r" THEN <<chars[i]>>
        ELSE IF i # Len(chars) /\ chars[i + 1] = "\n" THEN <<>> ELSE <<"\n">>])

\* Whether a comment stands on the line on which the last value ended.
OnSameLine ==
    /\ lastValueEnd # -1 /\ ~NewLineIn(lastValueEnd, token.start)
    /\ CharAt(token.start + 1) # "*" \/ ~NewLineIn(token.start, token.end)

\* setComment throws if its text does not start with a slash.
Throws(comment) == comment # <<>> /\ comment[1] # "/"
CommentThrows ==
    token.type = "tokenComment" /\ Collects /\ OnSameLine
    /\ Throws(Slice(token.start, token.end))

\* addComment, and the tree and the pending comments behind it.
AddComment(comment) ==
    IF token.type # "tokenComment" \/ ~Collects THEN UNCHANGED <<root, commentsBefore, seen>>
    ELSE /\ seen' = Append(seen, [comment |-> Trimmed(comment), same |-> OnSameLine,
                                  value |-> lastValue])
         /\ IF OnSameLine
            THEN /\ root' = SetComment(root, lastValue, comment, "commentAfterOnSameLine")
                 /\ UNCHANGED commentsBefore
            ELSE commentsBefore' = commentsBefore \o comment /\ UNCHANGED root
TakeComments == AddComment(NormalizeEOL(Slice(token.start, token.end)))

-----------------------------------------------------------------------------
MoveTo(c) == current' = c /\ token' = ReadToken(c)
Took == MoveTo(token.end)
Seeing(types) == token.type \in types

Threw == phase' = "threw" /\ UNCHANGED <<doc, root, path, levels, current, token, depth, errors,
             lastValueEnd, lastValue, commentsBefore, successful, seen, replaced>>

\* Comments are skipped before a value and behind the root if they are allowed,
\* and inside of containers always.
Skips == CASE phase \in {"value", "extra"} -> Has("allowComments")
           [] phase \in {"name", "comma", "anyComma", "item", "recover"} -> TRUE
           [] OTHER -> FALSE
SkipComment ==
    /\ Skips /\ Seeing({"tokenComment"})
    /\ IF CommentThrows THEN Threw
       ELSE /\ TakeComments /\ Took
            /\ phase' = IF phase = "comma" THEN "anyComma" ELSE phase
            /\ UNCHANGED <<doc, path, levels, depth, errors, lastValueEnd, lastValue,
                           successful, replaced>>

-----------------------------------------------------------------------------
\* readValue.

\* The call for a member: the value is made, and the depth is counted.
Descend(tree, step) ==
    /\ root' = Resolved(tree, Append(path, step)) /\ path' = Append(path, step)
    /\ phase' = IF depth >= doc.stackLimit THEN "threw" ELSE "value"
    /\ depth' = IF depth >= doc.stackLimit THEN depth ELSE depth + 1

\* The return to the container around, which pops the value off nodes_ and goes
\* on or recovers, or to parse.
Continue(around, ok) ==
    /\ levels' = around
    /\ IF around = <<>>
       THEN path' = path /\ phase' = "extra" /\ successful' = ok
       ELSE /\ path' = Front(path) /\ UNCHANGED successful
            /\ phase' = IF ~ok THEN "recover"
                        ELSE IF Last(around).type = "array" THEN "item" ELSE "comma"

\* The end of readValue, when current_ is c.
Return(tree, around, c, ok) ==
    /\ root' = tree /\ MoveTo(c) /\ depth' = depth - 1
    /\ lastValueEnd' = IF Collects THEN c ELSE lastValueEnd
    /\ lastValue' = IF Collects THEN path ELSE lastValue
    /\ Continue(around, ok)

WrongDescribed == root
Described == IF commentsBefore = <<>> THEN root
             ELSE SetComment(root, path, commentsBefore, "commentBefore")

\* A token that begins a value, and what is done before the switch.
AtValue(types) ==
    /\ phase = "value" /\ Seeing(types)
    /\ ~(Skips /\ Seeing({"tokenComment"})) /\ ~Throws(commentsBefore)
    /\ commentsBefore' = <<>> /\ UNCHANGED <<doc, seen, replaced>>

AtValueThrows ==
    /\ phase = "value" /\ ~(Skips /\ Seeing({"tokenComment"})) /\ Throws(commentsBefore)
    /\ Threw

Placed(tree, start, limit) ==
    SetOffsetLimit(SetOffsetStart(tree, path, start), path, limit)

TakeScalar ==
    /\ AtValue(Scalars)
    /\ \E decoded \in {ScalarOf} :
           IF decoded.ok
           THEN /\ Return(Placed(SwapPayload(Described, path, decoded.node),
                                 token.start, token.end), levels, token.end, TRUE)
                /\ UNCHANGED errors
           ELSE /\ Return(Described, levels, token.end, FALSE)
                /\ errors' = Append(errors, token.start)

OpenedAs(type) ==
    SetOffsetStart(SwapPayload(Described, path, Container(type)), path, token.start)

OpenObject ==
    /\ AtValue({"tokenObjectBegin"})
    /\ root' = OpenedAs("object") /\ Took /\ phase' = "name"
    /\ levels' = Append(levels, [type |-> "object", name |-> <<>>, at |-> 0, index |-> 0])
    /\ UNCHANGED <<path, depth, errors, lastValueEnd, lastValue, successful>>

OpenArray ==
    /\ AtValue({"tokenArrayBegin"})
    /\ IF CharAt(SkipSpaces(token.end)) = "]"
       THEN Return(SetOffsetLimit(OpenedAs("array"), path, SkipSpaces(token.end) + 1),
                   levels, SkipSpaces(token.end) + 1, TRUE)
       ELSE /\ Descend(OpenedAs("array"), Index(0)) /\ MoveTo(SkipSpaces(token.end))
            /\ levels' = Append(levels, [type |-> "array", name |-> <<>>, at |-> 0, index |-> 0])
            /\ UNCHANGED <<lastValueEnd, lastValue, successful>>
    /\ UNCHANGED errors

\* Separators and ends: nothing, if null may be left out.
Droppable == {"tokenArraySeparator", "tokenObjectEnd", "tokenArrayEnd"}
DropNull ==
    /\ AtValue(Droppable) /\ Has("allowDroppedNullPlaceholders")
    /\ Return(Placed(SwapPayload(Described, path, Null), token.end - 2, token.end - 1),
              levels, token.end - 1, TRUE)
    /\ UNCHANGED errors

\* The error of readValue itself: it returns before the depth is counted down.
NoValue ==
    /\ AtValue({"tokenMemberSeparator", "tokenComment", "tokenError", "tokenEndOfStream"}
               \cup IF Has("allowDroppedNullPlaceholders") THEN {} ELSE Droppable)
    /\ root' = Placed(Described, token.start, token.end) /\ Took
    /\ errors' = Append(errors, token.start)
    /\ Continue(levels, FALSE)
    /\ UNCHANGED <<depth, lastValueEnd, lastValue>>

-----------------------------------------------------------------------------
\* readObject and readArray.

\* The container's call returns, and with it readValue's.
WrongClose(ok) ==
    /\ Return(root, Front(levels), token.end, ok)
    /\ UNCHANGED <<doc, errors, commentsBefore, seen, replaced>>
Close(ok) ==
    /\ Return(SetOffsetLimit(root, path, token.end), Front(levels), token.end, ok)
    /\ UNCHANGED <<doc, errors, commentsBefore, seen, replaced>>

\* addError, and the token that recoverFromError looks for.
Recover(at) ==
    /\ errors' = Append(errors, at) /\ phase' = "recover" /\ Took
    /\ UNCHANGED <<doc, path, levels, depth, lastValueEnd, lastValue, successful, replaced>>

Within(here, types) == phase = here /\ Seeing(types)
Level == levels[Len(levels)]
Going(to) == /\ phase' = to /\ Took
             /\ UNCHANGED <<doc, root, path, depth, errors, lastValueEnd, lastValue,
                            commentsBefore, successful, seen, replaced>>

IsName == Seeing({"tokenString"} \cup IF Has("allowNumericKeys") THEN {"tokenNumber"} ELSE {})
WrongEndsObject == Seeing({"tokenObjectEnd"})
EndsObject == Seeing({"tokenObjectEnd"}) /\ Level.name = <<>>
EndObject == phase = "name" /\ EndsObject /\ Close(TRUE)
TakeName ==
    /\ phase = "name" /\ IsName
    /\ \E name \in {NameOf} :
           IF name.ok
           THEN /\ Going("colon")
                /\ levels' = Front(levels) \o <<[Level EXCEPT !.name = name.text,
                                                              !.at = token.start]>>
           ELSE Recover(token.start) /\ UNCHANGED <<root, commentsBefore, seen>>
NoName ==
    /\ phase = "name" /\ ~IsName /\ ~EndsObject /\ ~Seeing({"tokenComment"})
    /\ Recover(token.start) /\ UNCHANGED <<root, commentsBefore, seen>>

Exists == Append(path, Name(Level.name)) \in DOMAIN root
Twice == Exists /\ Has("rejectDupKeys")
Colon ==
    /\ Within("colon", {"tokenMemberSeparator"})
    /\ IF Twice THEN Recover(Level.at) /\ UNCHANGED <<root, commentsBefore, seen>>
       ELSE /\ Descend(root, Name(Level.name)) /\ Took
            /\ replaced' = (replaced \/ Exists)
            /\ UNCHANGED <<doc, levels, errors, lastValueEnd, lastValue, commentsBefore,
                           successful, seen>>
NoColon ==
    /\ phase = "colon" /\ ~Seeing({"tokenMemberSeparator"})
    /\ IF CommentThrows THEN Threw
       ELSE TakeComments /\ Recover(token.start)

\* Behind a comment any token that does not end the object serves as the comma.
EndOfMembers ==
    phase \in {"comma", "anyComma"} /\ Seeing({"tokenObjectEnd"}) /\ Close(TRUE)
Comma ==
    /\ \/ Within("comma", {"tokenArraySeparator"})
       \/ phase = "anyComma" /\ ~Seeing({"tokenObjectEnd", "tokenComment"})
    /\ Going("name") /\ UNCHANGED levels
NoComma ==
    /\ phase = "comma" /\ ~Seeing({"tokenArraySeparator", "tokenObjectEnd", "tokenComment"})
    /\ Recover(token.start) /\ UNCHANGED <<root, commentsBefore, seen>>

NextItem ==
    /\ Within("item", {"tokenArraySeparator"})
    /\ levels' = Front(levels) \o <<[Level EXCEPT !.index = @ + 1]>>
    /\ Descend(root, Index(Level.index + 1)) /\ Took
    /\ UNCHANGED <<doc, errors, lastValueEnd, lastValue, commentsBefore, successful, seen,
                   replaced>>
EndArray == Within("item", {"tokenArrayEnd"}) /\ Close(TRUE)
NoItem ==
    /\ phase = "item" /\ ~Seeing({"tokenArraySeparator", "tokenArrayEnd", "tokenComment"})
    /\ Recover(token.start) /\ UNCHANGED <<root, commentsBefore, seen>>

\* recoverFromError: the container ends where its end, or the document's, is.
ItsEnd == IF Level.type = "array" THEN "tokenArrayEnd" ELSE "tokenObjectEnd"
WrongSkipUntil == {ItsEnd}
SkipUntil == {ItsEnd, "tokenEndOfStream"}
Recovered == phase = "recover" /\ Seeing(SkipUntil) /\ Close(FALSE)
SkipToken ==
    /\ phase = "recover" /\ ~Seeing(SkipUntil \cup {"tokenComment"})
    /\ Going(phase) /\ UNCHANGED levels

-----------------------------------------------------------------------------
\* The rest of parse.

Finish(ok) ==
    /\ phase' = "done" /\ successful' = ok
    /\ UNCHANGED <<doc, path, levels, depth, lastValueEnd, lastValue, commentsBefore, seen,
                   replaced>>
\* The type of the root is not an object's or array's, though it should be.
BadRoot == Has("strictRoot") /\ root[<<>>].type \notin Containers
Parsed ==
    /\ phase = "extra" /\ ~(Skips /\ Seeing({"tokenComment"}))
    /\ IF Has("failIfExtra") /\ ~Seeing({"tokenError", "tokenEndOfStream"})
       THEN Took /\ errors' = Append(errors, token.start) /\ Finish(FALSE) /\ UNCHANGED root
       ELSE IF Throws(commentsBefore) THEN Threw
       ELSE /\ root' = IF commentsBefore = <<>> THEN root
                       ELSE SetComment(root, <<>>, commentsBefore, "commentAfter")
            /\ errors' = IF BadRoot THEN Append(errors, 0) ELSE errors
            /\ Took /\ Finish(successful /\ ~BadRoot)

Init ==
    /\ doc \in Documents
    /\ root = [p \in {<<>>} |-> Null] /\ path = <<>> /\ levels = <<>>
    /\ current = 0 /\ errors = <<>>
    /\ lastValueEnd = -1 /\ lastValue = <<>> /\ commentsBefore = <<>>
    /\ successful = FALSE /\ seen = <<>> /\ replaced = FALSE
    /\ phase = (IF doc.stackLimit = 0 THEN "threw" ELSE "value")
    /\ depth = (IF doc.stackLimit = 0 THEN 0 ELSE 1)
    /\ token = ReadToken(0)

Next ==
    \/ SkipComment \/ AtValueThrows \/ TakeScalar \/ OpenObject \/ OpenArray
    \/ DropNull \/ NoValue \/ EndObject \/ TakeName \/ NoName \/ Colon \/ NoColon
    \/ EndOfMembers \/ Comma \/ NoComma \/ NextItem \/ EndArray \/ NoItem
    \/ Recovered \/ SkipToken \/ Parsed

Spec == Init /\ [][Next]_vars /\ WF_vars(Next)

-----------------------------------------------------------------------------
\* What must hold.

Ended == phase \in {"done", "threw"}

\* The calls of readValue that are open never exceed the limit that guards the
\* call stack, also where errors leave stackDepth_ behind (readValue).
CallsBounded ==
    /\ Len(levels) + (IF phase = "value" THEN 1 ELSE 0) <= depth
    /\ depth <= doc.stackLimit

\* Without errors the depth is that of the open calls.
TypeOK ==
    /\ phase \in Phases /\ current \in 0..End
    /\ errors = <<>> /\ ~Ended => depth = Len(levels) + (IF phase = "value" THEN 1 ELSE 0)
    /\ path \in DOMAIN root /\ lastValue \in DOMAIN root

\* A document is refused if and only if an error is reported (parse).
RefusedWithError == phase = "done" => (successful <=> errors = <<>>)

\* A document is accepted, refused or thrown at as its grammar and the features
\* say, and refused with an error.
AcceptedAsMeant ==
    /\ Ended => doc.verdict = CASE phase = "threw" -> "throw"
                                [] phase = "done" /\ successful -> "accept"
                                [] phase = "done" /\ ~successful -> "refuse"
    /\ RefusedWithError

\* A document is read as the tree it stands for: the tree a writer wrote it
\* from, or the number or text that its digits or escapes mean.
ReadAsMeant ==
    phase = "done" /\ successful /\ DOMAIN doc.meant # {} => Payloads(root) = doc.meant

\* The offsets of a value lead to its text: they lie in the document and within
\* those of the container, apart from those of its other members, and the
\* container's brackets stand at them.  (A null that is left out has no text.)
Spans(node) ==
    /\ node.start \in 0..(End - 1) /\ node.limit \in (node.start + 1)..End
    /\ <<CharAt(node.start), CharAt(node.limit - 1)>> \in
           CASE node.type = "array" -> {<<"[", "]">>}
             [] node.type = "object" -> {<<"{", "}">>}
             [] OTHER -> (Range(text) \ (DOMAIN Punctuation \cup Spaces)) \X
                         (Range(text) \ (DOMAIN Punctuation \cup Spaces))
Apart(a, b) == a.limit <= b.start \/ b.limit <= a.start
OffsetsNest ==
    phase = "done" /\ successful /\ ~Has("allowDroppedNullPlaceholders") =>
        \A p \in DOMAIN root :
            /\ Spans(root[p])
            /\ p # <<>> =>
                   /\ root[Front(p)].start < root[p].start
                   /\ root[p].limit < root[Front(p)].limit
                   /\ \A q \in DOMAIN root \ {p} :
                          Len(q) = Len(p) /\ Front(q) = Front(p) => Apart(root[p], root[q])

\* A comment of an accepted document is kept by one of its values, unless a
\* later comment behind the same value, on its line, has taken its place, or a
\* member was given a second value, with which the first one's go (addComment,
\* setComment, swapPayload).
IsPart(part, whole) ==
    \E i \in 0..(Len(whole) - Len(part)) : SubSeq(whole, i + 1, i + Len(part)) = part
Kept(tree, note) ==
    IF note.same THEN tree[note.value].comments["commentAfterOnSameLine"] = note.comment
    ELSE \E p \in DOMAIN tree, placement \in {"commentBefore", "commentAfter"} :
             IsPart(note.comment, tree[p].comments[placement])
Displaced(notes, i) ==
    /\ notes[i].same
    /\ \E j \in (i + 1)..Len(notes) : notes[j].same /\ notes[j].value = notes[i].value
CommentsKept ==
    phase = "done" /\ successful /\ ~replaced =>
        \A i \in DOMAIN seen : Kept(root, seen[i]) \/ Displaced(seen, i)

\* Every document is read to an end, also one that ends in the middle.
Finishes == <>Ended
=============================================================================
