---------------------------- MODULE JsonWriter ----------------------------
(***************************************************************************)
(* jsoncpp's writers: FastWriter, StyledWriter, and the writer that        *)
(* StreamWriterBuilder builds (BuiltStyledStreamWriter), which is laid out *)
(* as StyledWriter is but for what `built' tells apart.                    *)
(***************************************************************************)
EXTENDS JsonValue

Capitals(digit) == At("0123456789ABCDEF", digit + 1)
ShortEscapes == "\"" :> "\"" @@ "\\" :> "\\" @@ Byte(8) :> "b" @@ "\f" :> "f"
    @@ "\n" :> "n" @@ "\r" :> "r" @@ "\t" :> "t"
Escaped(c) ==
    CASE c \in DOMAIN ShortEscapes -> <<"\\", ShortEscapes[c]>>
      [] c \in IsControlCharacter \cup {NUL} /\ c \notin DOMAIN ShortEscapes ->
             T("\\u00") \o <<Capitals(CodeOf[c] \div 16), Capitals(CodeOf[c] % 16)>>
      [] OTHER -> <<c>>
QuotedN(text) == <<"\"">> \o FlattenSeq([i \in DOMAIN text |-> Escaped(text[i])]) \o <<"\"">>

\* valueToQuotedString: the name ends where a C string does.
CString(text) ==
    SubSeq(text, 1, Min({i \in DOMAIN text : text[i] = NUL} \cup {Len(text) + 1}) - 1)
Quoted(text) == QuotedN(CString(text))

ScalarText(node, null) ==
    CASE node.type = "null" -> null
      [] node.type \in {"int", "uint", "real"} -> NumberToString(node)
      [] node.type = "string" -> QuotedN(node.text)
      [] node.type = "boolean" -> IF node.int = 1 THEN T("true") ELSE T("false")

\* The steps to the children, in the order in which they are written.
ChildrenOf(tree, path) ==
    CASE Found(tree, path).type = "array" ->
             [i \in 1..Size(tree, path) |-> Index(i - 1)]
      [] Found(tree, path).type = "object" ->
             [i \in 1..Size(tree, path) |-> Name(MemberNames(tree, path)[i])]
      [] OTHER -> <<>>

Between(parts, separator) ==
    FoldLeftDomain(LAMBDA all, i : all \o (IF i = 1 THEN <<>> ELSE separator) \o parts[i],
                   <<>>, parts)

-----------------------------------------------------------------------------
\* FastWriter.

RECURSIVE FastValue(_, _, _)
FastMember(tree, path, step, w) ==
    (IF step.index # -1 THEN <<>> ELSE QuotedN(step.key) \o w.colon)
    \o FastValue(tree, Append(path, step), w)
FastChildren(tree, path, steps, w) ==
    Between([i \in DOMAIN steps |-> FastMember(tree, path, steps[i], w)], <<",">>)
FastValue(tree, path, w) ==
    CASE Found(tree, path).type = "array" ->
             <<"[">> \o FastChildren(tree, path, ChildrenOf(tree, path), w) \o <<"]">>
      [] Found(tree, path).type = "object" ->
             <<"{">> \o FastChildren(tree, path, ChildrenOf(tree, path), w) \o <<"}">>
      [] OTHER -> ScalarText(Found(tree, path), w.null)
FastWrite(tree, w) == FastValue(tree, <<>>, w) \o (IF w.omitEndingLineFeed THEN <<>> ELSE <<"\n">>)

-----------------------------------------------------------------------------
\* The styled writers.  w is the writer: what it has written, how far it is
\* indented, whether it stands behind an indentation, and its settings.

Say(w, text) == [w EXCEPT !.text = @ \o text]

\* writeIndent of StyledWriter looks at what is written; the built writer
\* remembers, and puts no newlines if it does not indent.
StyledIndent(w) ==
    IF w.text # <<>> /\ Last(w.text) = " " THEN w
    ELSE IF w.text # <<>> /\ Last(w.text) # "\n" THEN Say(w, <<"\n">> \o w.pad)
    ELSE Say(w, w.pad)
BuiltIndent(w) == IF w.indentation = <<>> THEN w ELSE Say(w, <<"\n">> \o w.pad)
WriteIndent(w) == IF w.built THEN BuiltIndent(w) ELSE StyledIndent(w)
Indented(w) == IF w.built /\ w.indented THEN w ELSE WriteIndent(w)
WithIndent(w, text) == [Say(Indented(w), text) EXCEPT !.indented = FALSE]
Indent(w) == [w EXCEPT !.pad = @ \o w.indentation]
Unindent(w) == [w EXCEPT !.pad = SubSeq(@, 1, Len(@) - Len(w.indentation))]

\* A comment, with every line of it that starts with a slash indented.
StyledComment(w, comment) ==
    FoldLeftDomain(LAMBDA was, i :
        IF comment[i] = "\n" /\ i # Len(comment) /\ comment[i + 1] = "/"
        THEN (IF was.built THEN Say(was, <<"\n">> \o was.pad) ELSE WriteIndent(Say(was, <<"\n">>)))
        ELSE Say(was, <<comment[i]>>), w, comment)
CommentBefore(w, comments) ==
    IF ~w.comments \/ comments["commentBefore"] = <<>> THEN w
    ELSE IF w.built
    THEN [StyledComment(Indented(w), comments["commentBefore"]) EXCEPT !.indented = FALSE]
    ELSE Say(StyledComment(WriteIndent(Say(w, <<"\n">>)), comments["commentBefore"]), <<"\n">>)

SameLine(w, comment) == IF comment = <<>> THEN w ELSE Say(w, <<" ">> \o comment)
After(w, comment) ==
    IF comment = <<>> THEN w
    ELSE IF w.built THEN Say(WriteIndent(w), comment)
    ELSE Say(w, <<"\n">> \o comment \o <<"\n">>)
CommentAfter(w, comments) ==
    IF ~w.comments THEN w
    ELSE After(SameLine(w, comments["commentAfterOnSameLine"]), comments["commentAfter"])

\* isMultineArray.  The lengths are counted only of arrays of scalars and empty
\* containers.
HasComment(node) == node.comments # NoComments
InLine(tree, path, null) ==
    CASE Found(tree, path).type = "array" -> T("[]")
      [] Found(tree, path).type = "object" -> T("{}")
      [] OTHER -> ScalarText(Found(tree, path), null)
IsMultiline(tree, path, steps, w) ==
    \/ 3 * Len(steps) >= w.rightMargin
    \/ \E step \in Range(steps) : ChildrenOf(tree, Append(path, step)) # <<>>
    \/ \E step \in Range(steps) : HasComment(Found(tree, Append(path, step)))
    \/ 4 + 2 * (Len(steps) - 1)
         + Len(FlattenSeq([i \in DOMAIN steps |-> InLine(tree, Append(path, steps[i]), w.null)]))
       >= w.rightMargin
Multiline(tree, path, steps, w) == (w.built /\ w.comments) \/ IsMultiline(tree, path, steps, w)

OneLine(tree, path, steps, w) ==
    LET edge == IF w.built /\ w.indentation = <<>> THEN <<>> ELSE <<" ">>
    IN Say(w, <<"[">> \o edge
              \o Between([i \in DOMAIN steps |-> InLine(tree, Append(path, steps[i]), w.null)],
                         T(", "))
              \o edge \o <<"]">>)

RECURSIVE WriteValue(_, _, _)
WriteItem(tree, path, w) == [WriteValue(tree, path, [Indented(w) EXCEPT !.indented = TRUE])
                                EXCEPT !.indented = FALSE]
WriteMember(tree, path, w) ==
    WriteValue(tree, path,
        Say(WithIndent(w, IF w.built THEN QuotedN(Last(path).key) ELSE Quoted(Last(path).key)),
            w.colon))
WriteChild(tree, path, w, separator) ==
    CommentAfter(
        Say(IF Last(path).index # -1
            THEN WriteItem(tree, path, CommentBefore(w, Found(tree, path).comments))
            ELSE WriteMember(tree, path, CommentBefore(w, Found(tree, path).comments)),
            separator),
        Found(tree, path).comments)
WriteChildren(tree, path, steps, w) ==
    FoldLeftDomain(LAMBDA was, i :
        WriteChild(tree, Append(path, steps[i]), was, IF i = Len(steps) THEN <<>> ELSE <<",">>),
        w, steps)
Enclosed(tree, path, steps, open, close, w) ==
    WithIndent(Unindent(WriteChildren(tree, path, steps, Indent(WithIndent(w, open)))), close)
WriteArray(tree, path, steps, w) ==
    CASE steps = <<>> -> Say(w, T("[]"))
      [] steps # <<>> /\ Multiline(tree, path, steps, w) ->
             Enclosed(tree, path, steps, <<"[">>, <<"]">>, w)
      [] OTHER -> OneLine(tree, path, steps, w)
WriteObject(tree, path, steps, w) ==
    IF steps = <<>> THEN Say(w, T("{}")) ELSE Enclosed(tree, path, steps, <<"{">>, <<"}">>, w)
WriteValue(tree, path, w) ==
    CASE Found(tree, path).type = "array" -> WriteArray(tree, path, ChildrenOf(tree, path), w)
      [] Found(tree, path).type = "object" -> WriteObject(tree, path, ChildrenOf(tree, path), w)
      [] OTHER -> Say(w, ScalarText(Found(tree, path), w.null))

\* write: StyledWriter ends with a newline.
StyledWrite(tree, w) ==
    Say(CommentAfter(WriteValue(tree, <<>>, CommentBefore(w, tree[<<>>].comments)),
                     tree[<<>>].comments), <<"\n">>).text
BuiltWrite(tree, w) ==
    CommentAfter(WriteValue(tree, <<>>,
                     [Indented(CommentBefore(w, tree[<<>>].comments)) EXCEPT !.indented = TRUE]),
                 tree[<<>>].comments).text

\* The settings of StreamWriterBuilder::newStreamWriter.
Built(indentation, comments, yaml, dropNull, rightMargin) ==
    [built |-> TRUE, text |-> <<>>, pad |-> <<>>, indented |-> TRUE,
     indentation |-> indentation, comments |-> comments, rightMargin |-> rightMargin,
     colon |-> IF yaml THEN T(": ") ELSE IF indentation = <<>> THEN T(":") ELSE T(" : "),
     null |-> IF dropNull THEN <<>> ELSE T("null")]
Styled(rightMargin) ==
    [built |-> FALSE, text |-> <<>>, pad |-> <<>>, indented |-> FALSE,
     indentation |-> T("   "), comments |-> TRUE, rightMargin |-> rightMargin,
     colon |-> T(" : "), null |-> T("null")]
Fast(yaml, dropNull, omit) ==
    [colon |-> IF yaml THEN T(": ") ELSE T(":"), null |-> IF dropNull THEN <<>> ELSE T("null"),
     omitEndingLineFeed |-> omit]
=============================================================================
