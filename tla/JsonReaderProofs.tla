-------------------------- MODULE JsonReaderProofs --------------------------
(***************************************************************************)
(* Theorems about the JSON reader, for any documents, features and limits. *)
(***************************************************************************)
EXTENDS JsonReader, SequenceTheorems, WellFoundedInduction, TLAPS

Inside == {"name", "colon", "comma", "anyComma", "item", "recover"}

\* A sequence, of whatever it holds.
IsSeq(s) == s \in Seq(Range(s))

\* The calls that are open, and what guards them.
Nesting ==
    /\ depth \in Nat /\ doc \in Documents /\ successful \in BOOLEAN
    /\ IsSeq(levels) /\ IsSeq(errors)
    /\ phase \in Inside => levels # <<>>
    /\ CallsBounded

\* An error is being recovered from, or has made the document a refused one:
\* an error anywhere is passed on by every call that is open.
Failing == phase = "recover" \/ (phase \in {"extra", "done"} /\ ~successful)
Reporting == phase # "threw" => (errors = <<>> <=> ~Failing)

ReaderInv == Nesting /\ Reporting

-----------------------------------------------------------------------------
LEMMA AnySeq == ASSUME NEW S, NEW s \in Seq(S) PROVE IsSeq(s)
BY SeqOfRange DEF IsSeq

LEMMA LenIsNat == ASSUME NEW s, IsSeq(s) PROVE Len(s) \in Nat
BY LenProperties DEF IsSeq

LEMMA Longer ==
    ASSUME NEW s, IsSeq(s), NEW e
    PROVE  /\ IsSeq(Append(s, e)) /\ Append(s, e) # <<>>
           /\ Len(Append(s, e)) = Len(s) + 1
<1> DEFINE S == Range(s) \cup {e}
<1>1. Range(s) \subseteq S /\ e \in S OBVIOUS
<1>2. s \in Seq(S) BY <1>1, SeqMonotonic DEF IsSeq
<1> HIDE DEF S
<1>3. /\ Append(s, e) \in Seq(S) /\ Append(s, e) # <<>>
      /\ Len(Append(s, e)) = Len(s) + 1
  BY <1>1, <1>2, AppendProperties
<1>4. IsSeq(Append(s, e)) BY <1>3, AnySeq
<1> QED BY <1>3, <1>4

LEMMA Fronted ==
    ASSUME NEW s, IsSeq(s), s # <<>>
    PROVE  IsSeq(Front(s)) /\ Len(Front(s)) = Len(s) - 1 /\ Len(s) \in Nat \ {0}
<1> DEFINE R == Range(s)
           m == Len(s) - 1
<1>1. s \in Seq(R) /\ Len(s) \in Nat BY LenIsNat DEF IsSeq
<1>2. Len(s) # 0 BY <1>1, EmptySeq
<1>3. m \in Nat /\ \A i \in 1..m : i \in 1..Len(s) BY <1>1, <1>2
<1>4. \A i \in 1..m : s[i] \in R BY <1>1, <1>3, LenProperties
<1> HIDE DEF R, m
<1>5. SubSeq(s, 1, m) \in Seq(R)
  BY <1>3, <1>4, SubSeqProperties
<1>6. Len(SubSeq(s, 1, m)) = m
  BY <1>3, <1>4, SubSeqProperties
<1>7. IsSeq(SubSeq(s, 1, m)) BY <1>5, AnySeq
<1>8. Front(s) = SubSeq(s, 1, m) BY DEF Front, m
<1>9. Len(Front(s)) = Len(s) - 1 BY <1>6, <1>8 DEF m
<1> QED BY <1>1, <1>2, <1>7, <1>8, <1>9

\* The last element is put back changed.
LEMMA Replaced ==
    ASSUME NEW s, IsSeq(s), s # <<>>, NEW e
    PROVE  /\ IsSeq(Front(s) \o <<e>>) /\ Len(Front(s) \o <<e>>) = Len(s)
           /\ Front(s) \o <<e>> # <<>>
<1> DEFINE f == Front(s)
           S == Range(f) \cup {e}
<1>1. IsSeq(f) /\ Len(f) = Len(s) - 1 /\ Len(s) \in Nat \ {0} BY Fronted
<1>2. Range(f) \subseteq S /\ e \in S OBVIOUS
<1>3. f \in Seq(S) BY <1>1, <1>2, SeqMonotonic DEF IsSeq
<1> HIDE DEF f, S
<1>4. <<e>> \in Seq(S) /\ Len(<<e>>) = 1 BY <1>2
<1>5. f \o <<e>> \in Seq(S) /\ Len(f \o <<e>>) = Len(f) + Len(<<e>>)
  BY <1>3, <1>4, ConcatProperties
<1>6. IsSeq(f \o <<e>>) BY <1>5, AnySeq
<1>7. Len(f \o <<e>>) = Len(s) BY <1>1, <1>4, <1>5
<1>8. f \o <<e>> # <<>> BY <1>1, <1>7
<1> QED BY <1>6, <1>7, <1>8 DEF f
-----------------------------------------------------------------------------
LEMMA InitReaderInv == Init => ReaderInv
<1> SUFFICES ASSUME Init PROVE ReaderInv OBVIOUS
<1>1. IsSeq(<<>>) /\ Len(<<>>) = 0 BY AnySeq, EmptySeq
<1>2. doc.stackLimit \in Nat BY DocumentsAssumption DEF Init
<1>3. /\ doc \in Documents /\ successful \in BOOLEAN /\ levels = <<>> /\ errors = <<>>
      /\ phase \notin Inside
  BY DEF Init, Inside
<1>4. depth \in Nat /\ (IF phase = "value" THEN 1 ELSE 0) <= depth
      /\ depth <= doc.stackLimit
  BY <1>2 DEF Init
<1>5. Nesting
  <2>1. IsSeq(levels) /\ IsSeq(errors) /\ Len(levels) = 0 BY <1>1, <1>3
  <2> QED BY <1>3, <1>4, <2>1 DEF Nesting, CallsBounded
<1>6. Reporting BY DEF Init, Reporting, Failing
<1> QED BY <1>5, <1>6 DEF ReaderInv

\* The state that a step leaves in ReaderInv, by what it may change.
\* A step that goes on in the same container.
LEMMA GoingOn ==
    ASSUME ReaderInv, phase \in Inside, phase' \in Inside,
           IsSeq(levels'), Len(levels') = Len(levels), levels' # <<>>,
           UNCHANGED <<doc, depth, errors, successful>>,
           phase' = "recover" <=> phase = "recover"
    PROVE  ReaderInv'
<1>1. Nesting' BY DEF ReaderInv, Nesting, CallsBounded, Inside
<1>2. Reporting' BY DEF ReaderInv, Reporting, Failing, Inside
<1> QED BY <1>1, <1>2 DEF ReaderInv

\* An error in a container.
LEMMA RecoverKeeps ==
    ASSUME ReaderInv, phase \in Inside,
           errors' = Append(errors, token.start) \/ errors' = Append(errors, Level.at),
           phase' = "recover", UNCHANGED <<doc, levels, depth, successful>>
    PROVE  ReaderInv'
<1>1. IsSeq(errors') /\ errors' # <<>> BY Longer DEF ReaderInv, Nesting
<1>2. Nesting' BY <1>1 DEF ReaderInv, Nesting, CallsBounded, Inside
<1>3. Reporting' BY <1>1 DEF Reporting, Failing
<1> QED BY <1>2, <1>3 DEF ReaderInv

\* The call for a member, from a container that is open.
LEMMA DescendKeeps ==
    ASSUME ReaderInv, phase \in {"value", "colon", "item"},
           phase' = IF depth >= doc.stackLimit THEN "threw" ELSE "value",
           depth' = IF depth >= doc.stackLimit THEN depth ELSE depth + 1,
           IsSeq(levels'), Len(levels') \in Nat, Len(levels') <= depth,
           UNCHANGED <<doc, errors, successful>>
    PROVE  ReaderInv'
<1>1. doc.stackLimit \in Nat /\ depth \in Nat
  BY DocumentsAssumption DEF ReaderInv, Nesting
<1>2. Nesting'
  BY <1>1 DEF ReaderInv, Nesting, CallsBounded, Inside
<1>3. Reporting' BY DEF ReaderInv, Reporting, Failing
<1> QED BY <1>2, <1>3 DEF ReaderInv

\* The return of a call to the container around it.
LEMMA ReturnKeeps ==
    ASSUME ReaderInv, NEW STATE around, NEW ok \in BOOLEAN, Continue(around, ok),
           IsSeq(around), UNCHANGED doc, IsSeq(errors'),
           depth' \in Nat, Len(around) <= depth', depth' <= depth,
           errors' = <<>> <=> ok
    PROVE  ReaderInv'
<1>1. Len(around) \in Nat /\ doc.stackLimit \in Nat /\ depth \in Nat
  BY LenIsNat, DocumentsAssumption DEF ReaderInv, Nesting
<1>2. /\ levels' = around /\ phase' \in {"extra", "recover", "item", "comma"}
      /\ phase' # "extra" <=> around # <<>>
      /\ successful' \in BOOLEAN
      /\ phase' = "recover" \/ (phase' = "extra" /\ ~successful') <=> ~ok
  BY DEF Continue, ReaderInv, Nesting
<1>3. Nesting' BY <1>1, <1>2 DEF ReaderInv, Nesting, CallsBounded, Inside
<1>4. Reporting' BY <1>2 DEF Reporting, Failing
<1> QED BY <1>3, <1>4 DEF ReaderInv

\* The end of a container.
LEMMA CloseKeeps ==
    ASSUME ReaderInv, phase \in Inside, NEW ok \in BOOLEAN, Close(ok),
           ok <=> phase # "recover"
    PROVE  ReaderInv'
<1>1. levels # <<>> /\ IsSeq(levels) BY DEF ReaderInv, Nesting
<1>2. /\ IsSeq(Front(levels)) /\ Len(Front(levels)) = Len(levels) - 1
      /\ Len(levels) \in Nat \ {0}
  BY <1>1, Fronted
<1>3. Len(levels) <= depth /\ depth \in Nat /\ IsSeq(errors)
  BY DEF ReaderInv, Nesting, CallsBounded, Inside
<1>4. errors = <<>> <=> ok BY DEF ReaderInv, Reporting, Failing, Inside
<1>5. /\ Continue(Front(levels), ok) /\ depth' = depth - 1
      /\ UNCHANGED <<doc, errors>>
  BY DEF Close, Return
<1>6. depth' \in Nat /\ Len(Front(levels)) <= depth' /\ depth' <= depth
  BY <1>2, <1>3, <1>5
<1> QED BY <1>2, <1>3, <1>4, <1>5, <1>6, ReturnKeeps
\* An exception.
LEMMA ThrewKeeps == ASSUME ReaderInv, Threw PROVE ReaderInv'
<1>1. Len(levels) \in Nat BY LenIsNat DEF ReaderInv, Nesting
<1>2. doc.stackLimit \in Nat BY DocumentsAssumption DEF ReaderInv, Nesting
<1>3. Nesting' BY <1>1, <1>2 DEF Threw, ReaderInv, Nesting, CallsBounded, Inside
<1>4. Reporting' BY DEF Threw, Reporting
<1> QED BY <1>3, <1>4 DEF ReaderInv

\* readValue ends, for a container that is open or for the root.
LEMMA ValueKeeps ==
    ASSUME ReaderInv, phase = "value", NEW ok \in BOOLEAN, Continue(levels, ok),
           depth' \in {depth - 1, depth}, UNCHANGED doc,
           errors' = IF ok THEN errors ELSE Append(errors, token.start)
    PROVE  ReaderInv'
<1>1. /\ Len(levels) \in Nat /\ IsSeq(levels) /\ IsSeq(errors) /\ depth \in Nat
      /\ Len(levels) + 1 <= depth
  BY LenIsNat DEF ReaderInv, Nesting, CallsBounded
<1>2. errors = <<>> BY DEF ReaderInv, Reporting, Failing
<1>3. IsSeq(errors') /\ (errors' = <<>> <=> ok) BY <1>1, <1>2, Longer
<1>4. depth' \in Nat /\ Len(levels) <= depth' /\ depth' <= depth BY <1>1
<1> QED BY <1>1, <1>3, <1>4, ReturnKeeps

-----------------------------------------------------------------------------
LEMMA NextReaderInv == ReaderInv /\ [Next]_vars => ReaderInv'
<1> SUFFICES ASSUME ReaderInv, [Next]_vars PROVE ReaderInv' OBVIOUS
<1>1. CASE SkipComment
  <2>1. CASE CommentThrows BY <1>1, <2>1, ThrewKeeps DEF SkipComment
  <2>2. CASE ~CommentThrows
    <3>1. /\ phase' = IF phase = "comma" THEN "anyComma" ELSE phase
          /\ UNCHANGED <<doc, levels, depth, errors, successful>>
      BY <1>1, <2>2 DEF SkipComment
    <3>2. CASE phase \in Inside BY <3>1, <3>2, GoingOn DEF ReaderInv, Nesting, Inside
    <3>3. CASE phase \notin Inside
      <4>1. phase' = phase BY <3>1, <3>3 DEF Inside
      <4> QED BY <3>1, <4>1 DEF ReaderInv, Nesting, CallsBounded, Reporting, Failing
    <3> QED BY <3>2, <3>3
  <2> QED BY <2>1, <2>2
<1>2. CASE AtValueThrows BY <1>2, ThrewKeeps DEF AtValueThrows
<1>3. CASE TakeScalar
  <2>1. PICK decoded \in {ScalarOf} :
            IF decoded.ok
            THEN /\ Continue(levels, TRUE) /\ depth' = depth - 1
                 /\ UNCHANGED errors
            ELSE /\ Continue(levels, FALSE) /\ depth' = depth - 1
                 /\ errors' = Append(errors, token.start)
    BY <1>3 DEF TakeScalar, Return
  <2>2. phase = "value" /\ UNCHANGED doc BY <1>3 DEF TakeScalar, AtValue
  <2> QED BY <2>1, <2>2, ValueKeeps
<1>4. CASE OpenObject
  <2>1. /\ phase = "value" /\ phase' = "name" /\ \E l : levels' = Append(levels, l)
        /\ UNCHANGED <<doc, depth, errors, successful>>
    BY <1>4 DEF OpenObject, AtValue
  <2>2. /\ IsSeq(levels') /\ levels' # <<>> /\ Len(levels') = Len(levels) + 1
        /\ Len(levels) \in Nat
    BY <2>1, Longer, LenIsNat DEF ReaderInv, Nesting
  <2>3. Nesting' BY <2>1, <2>2 DEF ReaderInv, Nesting, CallsBounded, Inside
  <2>4. Reporting' BY <2>1 DEF ReaderInv, Reporting, Failing
  <2> QED BY <2>3, <2>4 DEF ReaderInv
<1>5. CASE OpenArray
  <2>1. phase = "value" /\ UNCHANGED <<doc, errors>> BY <1>5 DEF OpenArray, AtValue
  <2>2. CASE CharAt(SkipSpaces(token.end)) = "]"
    <3>1. Continue(levels, TRUE) /\ depth' = depth - 1
      BY <1>5, <2>2 DEF OpenArray, Return
    <3> QED BY <2>1, <3>1, ValueKeeps
  <2>3. CASE CharAt(SkipSpaces(token.end)) # "]"
    <3>1. /\ phase' = IF depth >= doc.stackLimit THEN "threw" ELSE "value"
          /\ depth' = IF depth >= doc.stackLimit THEN depth ELSE depth + 1
          /\ \E l : levels' = Append(levels, l)
          /\ UNCHANGED successful
      BY <1>5, <2>3 DEF OpenArray, Descend
    <3>2. /\ IsSeq(levels') /\ Len(levels') = Len(levels) + 1 /\ Len(levels) \in Nat
      BY <3>1, Longer, LenIsNat DEF ReaderInv, Nesting
    <3>3. Len(levels') \in Nat /\ Len(levels') <= depth
      BY <2>1, <3>2 DEF ReaderInv, Nesting, CallsBounded
    <3> QED BY <2>1, <3>1, <3>2, <3>3, DescendKeeps
  <2> QED BY <2>2, <2>3
<1>6. CASE DropNull
  <2>1. /\ phase = "value" /\ Continue(levels, TRUE) /\ depth' = depth - 1
        /\ UNCHANGED <<doc, errors>>
    BY <1>6 DEF DropNull, AtValue, Return
  <2> QED BY <2>1, ValueKeeps
<1>7. CASE NoValue
  <2>1. /\ phase = "value" /\ Continue(levels, FALSE) /\ UNCHANGED <<doc, depth>>
        /\ errors' = Append(errors, token.start)
    BY <1>7 DEF NoValue, AtValue
  <2> QED BY <2>1, ValueKeeps
<1>8. CASE EndObject
  <2>1. phase \in Inside /\ phase # "recover" /\ Close(TRUE)
    BY <1>8 DEF EndObject, Within, Inside
  <2> QED BY <2>1, CloseKeeps
<1>9. CASE TakeName
  <2>1. PICK name \in {NameOf} :
            IF name.ok
            THEN /\ phase' = "colon"
                 /\ \E l : levels' = Front(levels) \o <<l>>
                 /\ UNCHANGED <<doc, depth, errors, successful>>
            ELSE /\ phase' = "recover" /\ errors' = Append(errors, token.start)
                 /\ UNCHANGED <<doc, levels, depth, successful>>
    BY <1>9 DEF TakeName, Going, Recover
  <2>2. /\ phase = "name" /\ phase \in Inside
        /\ levels # <<>> /\ IsSeq(levels)
    BY <1>9 DEF TakeName, Inside, ReaderInv, Nesting
  <2>3. CASE name.ok
    <3>1. /\ IsSeq(levels') /\ Len(levels') = Len(levels) /\ levels' # <<>>
          /\ phase' \in Inside /\ phase # "recover" /\ phase' # "recover"
      BY <2>1, <2>2, <2>3, Replaced DEF Inside
    <3> QED BY <2>1, <2>2, <2>3, <3>1, GoingOn
  <2>4. CASE ~name.ok BY <2>1, <2>2, <2>4, RecoverKeeps
  <2> QED BY <2>3, <2>4
<1>10. CASE NoName
  <2>1. /\ phase \in Inside /\ phase' = "recover" /\ errors' = Append(errors, token.start)
        /\ UNCHANGED <<doc, levels, depth, successful>>
    BY <1>10 DEF NoName, Within, Recover, Inside
  <2> QED BY <2>1, RecoverKeeps
<1>11. CASE Colon
  <2>1. phase = "colon" /\ phase \in Inside BY <1>11 DEF Colon, Within, Inside
  <2>2. CASE Twice
    <3>1. /\ phase' = "recover" /\ errors' = Append(errors, Level.at)
          /\ UNCHANGED <<doc, levels, depth, successful>>
      BY <1>11, <2>2 DEF Colon, Recover
    <3> QED BY <2>1, <3>1, RecoverKeeps
  <2>3. CASE ~Twice
    <3>1. /\ phase' = IF depth >= doc.stackLimit THEN "threw" ELSE "value"
          /\ depth' = IF depth >= doc.stackLimit THEN depth ELSE depth + 1
          /\ UNCHANGED <<doc, levels, errors, successful>>
      BY <1>11, <2>3 DEF Colon, Descend
    <3>2. IsSeq(levels) /\ Len(levels) \in Nat /\ Len(levels) <= depth
      BY <2>1, LenIsNat DEF ReaderInv, Nesting, CallsBounded, Inside
    <3>3. IsSeq(levels') /\ Len(levels') \in Nat /\ Len(levels') <= depth BY <3>1, <3>2
    <3> QED BY <2>1, <3>1, <3>3, DescendKeeps
  <2> QED BY <2>2, <2>3
<1>12. CASE NoColon
  <2>1. phase \in Inside BY <1>12 DEF NoColon, Inside
  <2>2. CASE CommentThrows BY <1>12, <2>2, ThrewKeeps DEF NoColon
  <2>3. CASE ~CommentThrows
    <3>1. /\ phase' = "recover" /\ errors' = Append(errors, token.start)
          /\ UNCHANGED <<doc, levels, depth, successful>>
      BY <1>12, <2>3 DEF NoColon, Recover
    <3> QED BY <2>1, <3>1, RecoverKeeps
  <2> QED BY <2>2, <2>3
<1>13. CASE EndOfMembers
  <2>1. phase \in Inside /\ phase # "recover" /\ Close(TRUE)
    BY <1>13 DEF EndOfMembers, Within, Inside
  <2> QED BY <2>1, CloseKeeps
<1>14. CASE Comma
  <2>1. /\ phase \in Inside /\ phase' \in Inside /\ (phase' = "recover" <=> phase = "recover")
        /\ UNCHANGED <<doc, depth, errors, successful, levels>>
    BY <1>14 DEF Comma, Going, Within, Inside
  <2>2. levels # <<>> /\ IsSeq(levels) BY <2>1 DEF ReaderInv, Nesting
  <2>3. IsSeq(levels') /\ Len(levels') = Len(levels) /\ levels' # <<>> BY <2>1, <2>2
  <2> QED BY <2>1, <2>3, GoingOn
<1>15. CASE NoComma
  <2>1. /\ phase \in Inside /\ phase' = "recover" /\ errors' = Append(errors, token.start)
        /\ UNCHANGED <<doc, levels, depth, successful>>
    BY <1>15 DEF NoComma, Within, Recover, Inside
  <2> QED BY <2>1, RecoverKeeps
<1>16. CASE NextItem
  <2>1. /\ phase = "item" /\ \E l : levels' = Front(levels) \o <<l>>
        /\ phase' = IF depth >= doc.stackLimit THEN "threw" ELSE "value"
        /\ depth' = IF depth >= doc.stackLimit THEN depth ELSE depth + 1
        /\ UNCHANGED <<doc, errors, successful>>
    BY <1>16 DEF NextItem, Within, Descend
  <2>2. /\ levels # <<>> /\ IsSeq(levels)
        /\ Len(levels) \in Nat /\ Len(levels) <= depth
    BY <2>1, LenIsNat DEF ReaderInv, Nesting, CallsBounded, Inside
  <2>3. IsSeq(levels') /\ Len(levels') = Len(levels) BY <2>1, <2>2, Replaced
  <2> QED BY <2>1, <2>2, <2>3, DescendKeeps
<1>17. CASE EndArray
  <2>1. phase \in Inside /\ phase # "recover" /\ Close(TRUE)
    BY <1>17 DEF EndArray, Within, Inside
  <2> QED BY <2>1, CloseKeeps
<1>18. CASE NoItem
  <2>1. /\ phase \in Inside /\ phase' = "recover" /\ errors' = Append(errors, token.start)
        /\ UNCHANGED <<doc, levels, depth, successful>>
    BY <1>18 DEF NoItem, Within, Recover, Inside
  <2> QED BY <2>1, RecoverKeeps
<1>19. CASE Recovered
  <2>1. phase \in Inside /\ phase = "recover" /\ Close(FALSE)
    BY <1>19 DEF Recovered, Within, Inside
  <2> QED BY <2>1, CloseKeeps
<1>20. CASE SkipToken
  <2>1. /\ phase \in Inside /\ phase' \in Inside /\ (phase' = "recover" <=> phase = "recover")
        /\ UNCHANGED <<doc, depth, errors, successful, levels>>
    BY <1>20 DEF SkipToken, Going, Inside
  <2>2. levels # <<>> /\ IsSeq(levels) BY <2>1 DEF ReaderInv, Nesting
  <2>3. IsSeq(levels') /\ Len(levels') = Len(levels) /\ levels' # <<>> BY <2>1, <2>2
  <2> QED BY <2>1, <2>3, GoingOn
<1>21. CASE Parsed
  <2>1. phase = "extra" BY <1>21 DEF Parsed
  <2>2. CASE Threw BY <2>2, ThrewKeeps
  <2>3. CASE ~Threw
    <3>1. /\ phase' = "done" /\ UNCHANGED <<doc, levels, depth>>
          /\ \/ errors' = Append(errors, token.start) /\ successful' = FALSE
             \/ errors' = Append(errors, 0) /\ successful' = FALSE
             \/ errors' = errors /\ successful' = successful
      <4>1. CASE Has("failIfExtra") /\ ~Seeing({"tokenError", "tokenEndOfStream"})
        BY <1>21, <4>1 DEF Parsed, Finish
      <4>2. CASE ~(Has("failIfExtra") /\ ~Seeing({"tokenError", "tokenEndOfStream"}))
        <5>1. /\ errors' = IF BadRoot THEN Append(errors, 0) ELSE errors
              /\ Finish(successful /\ ~BadRoot)
          BY <1>21, <2>3, <4>2 DEF Parsed
        <5>2. successful \in BOOLEAN BY DEF ReaderInv, Nesting
        <5> QED BY <5>1, <5>2 DEF Finish
      <4> QED BY <4>1, <4>2
    <3>2. IsSeq(errors) /\ Len(levels) \in Nat /\ successful \in BOOLEAN
      BY LenIsNat DEF ReaderInv, Nesting
    <3>3. IsSeq(errors') /\ (errors' # errors => errors' # <<>>) BY <3>1, <3>2, Longer
    <3>4. /\ errors' = Append(errors, token.start) => errors' # <<>>
          /\ errors' = Append(errors, 0) => errors' # <<>>
      BY <3>2, Longer
    <3>5. Nesting' BY <2>1, <3>1, <3>2, <3>3 DEF ReaderInv, Nesting, CallsBounded, Inside
    <3>6. Reporting'
      BY <2>1, <3>1, <3>4 DEF ReaderInv, Reporting, Failing
    <3> QED BY <3>5, <3>6 DEF ReaderInv
  <2> QED BY <2>2, <2>3
<1>22. CASE UNCHANGED vars
  BY <1>22 DEF vars, ReaderInv, Nesting, CallsBounded, Reporting, Failing
<1> QED BY <1>1, <1>2, <1>3, <1>4, <1>5, <1>6, <1>7, <1>8, <1>9, <1>10, <1>11, <1>12,
           <1>13, <1>14, <1>15, <1>16, <1>17, <1>18, <1>19, <1>20, <1>21, <1>22 DEF Next

-----------------------------------------------------------------------------
\* The open calls of readValue never exceed stackLimit, which guards the call
\* stack against a document of many brackets (readValue).
THEOREM DepthIsBounded == Spec => []CallsBounded
<1>1. ReaderInv => CallsBounded BY DEF ReaderInv, Nesting
<1> QED BY <1>1, InitReaderInv, NextReaderInv, PTL DEF Spec

\* No document is refused without an error that says where, and none with an
\* error is accepted, however deep the calls that pass the failure on (parse,
\* recoverFromError).
THEOREM RefusalsAreReported == Spec => []RefusedWithError
<1>1. ReaderInv => RefusedWithError
  BY DEF ReaderInv, Reporting, Failing, RefusedWithError
<1> QED BY <1>1, InitReaderInv, NextReaderInv, PTL DEF Spec
-----------------------------------------------------------------------------
\* Prefixes.

\* The first n elements.
LEMMA FirstElements ==
    ASSUME NEW s, IsSeq(s), NEW n \in 0..Len(s)
    PROVE  /\ IsSeq(SubSeq(s, 1, n)) /\ Len(SubSeq(s, 1, n)) = n
           /\ \A i \in 1..n : SubSeq(s, 1, n)[i] = s[i]
<1> DEFINE R == Range(s)
           f == SubSeq(s, 1, n)
<1>1. s \in Seq(R) /\ Len(s) \in Nat BY LenIsNat DEF IsSeq
<1>2. n \in Nat /\ \A i \in 1..n : i \in 1..Len(s) BY <1>1
<1>3. \A i \in 1..n : s[i] \in R BY <1>1, <1>2, LenProperties
<1> HIDE DEF R
<1>4. /\ f \in Seq(R) /\ Len(f) = IF 1 <= n THEN n - 1 + 1 ELSE 0
      /\ \A i \in 1..(n - 1 + 1) : f[i] = s[1 + i - 1]
  BY <1>2, <1>3, SubSeqProperties
<1>5. IsSeq(f) BY <1>4, AnySeq
<1>6. n - 1 + 1 = n /\ (IF 1 <= n THEN n - 1 + 1 ELSE 0) = n
      /\ \A i \in 1..n : 1 + i - 1 = i
  BY <1>2
<1> HIDE DEF f
<1>7. Len(f) = n /\ \A i \in 1..n : f[i] = s[i] BY <1>4, <1>6
<1> QED BY <1>5, <1>7 DEF f

\* Sequences with the same elements are the same.
LEMMA SameElements ==
    ASSUME NEW s, IsSeq(s), NEW t, IsSeq(t), Len(s) = Len(t),
           \A i \in 1..Len(s) : s[i] = t[i]
    PROVE  s = t
<1> DEFINE S == Range(s) \cup Range(t)
<1>1. s \in Seq(S) /\ t \in Seq(S) BY SeqMonotonic DEF IsSeq
<1> HIDE DEF S
<1> QED BY <1>1, SeqEqual

LEMMA PrefixAt ==
    ASSUME NEW s, IsSeq(s), NEW t, IsSeq(t)
    PROVE  IsPrefix(s, t) <=> /\ Len(s) <= Len(t)
                              /\ \A i \in 1..Len(s) : s[i] = t[i]
<1>1. Len(s) \in Nat /\ Len(t) \in Nat BY LenIsNat
<1> SUFFICES ASSUME Len(s) <= Len(t)
             PROVE  IsPrefix(s, t) <=> \A i \in 1..Len(s) : s[i] = t[i]
  BY DEF IsPrefix
<1> DEFINE n == Len(s)
           a == SubSeq(s, 1, n)
           b == SubSeq(t, 1, n)
<1>2. n \in 0..Len(s) /\ n \in 0..Len(t) BY <1>1
<1>3. IsSeq(a) /\ Len(a) = n /\ \A i \in 1..n : a[i] = s[i] BY <1>2, FirstElements
<1>4. IsSeq(b) /\ Len(b) = n /\ \A i \in 1..n : b[i] = t[i] BY <1>2, FirstElements
<1>5. IsPrefix(s, t) <=> a = b BY DEF IsPrefix
<1> HIDE DEF a, b
<1>6. a = b <=> \A i \in 1..n : a[i] = b[i] BY <1>3, <1>4, SameElements
<1> QED BY <1>3, <1>4, <1>5, <1>6

LEMMA PrefixOfItself == ASSUME NEW s, IsSeq(s) PROVE IsPrefix(s, s)
BY LenIsNat, PrefixAt

LEMMA PrefixOfPrefix ==
    ASSUME NEW s, IsSeq(s), NEW t, IsSeq(t), NEW u, IsSeq(u),
           IsPrefix(s, t), IsPrefix(t, u)
    PROVE  IsPrefix(s, u)
<1>1. Len(s) \in Nat /\ Len(t) \in Nat /\ Len(u) \in Nat BY LenIsNat
<1>2. Len(s) <= Len(t) /\ \A i \in 1..Len(s) : s[i] = t[i] BY PrefixAt
<1>3. Len(t) <= Len(u) /\ \A i \in 1..Len(t) : t[i] = u[i] BY PrefixAt
<1>4. Len(s) <= Len(u) /\ \A i \in 1..Len(s) : s[i] = u[i] BY <1>1, <1>2, <1>3
<1> QED BY <1>4, PrefixAt

\* Of two prefixes the shorter one is a prefix of the other.
LEMMA PrefixesNest ==
    ASSUME NEW s, IsSeq(s), NEW t, IsSeq(t), NEW u, IsSeq(u),
           IsPrefix(s, u), IsPrefix(t, u), Len(s) <= Len(t)
    PROVE  IsPrefix(s, t)
<1>1. Len(s) \in Nat /\ Len(t) \in Nat BY LenIsNat
<1>2. \A i \in 1..Len(s) : s[i] = u[i] BY PrefixAt
<1>3. \A i \in 1..Len(t) : t[i] = u[i] BY PrefixAt
<1>4. \A i \in 1..Len(s) : s[i] = t[i] BY <1>1, <1>2, <1>3
<1> QED BY <1>4, PrefixAt

\* A prefix that is as long is the whole.
LEMMA WholePrefix ==
    ASSUME NEW s, IsSeq(s), NEW t, IsSeq(t), IsPrefix(s, t), Len(t) <= Len(s)
    PROVE  s = t
<1>1. Len(s) \in Nat /\ Len(t) \in Nat BY LenIsNat
<1>2. Len(s) = Len(t) /\ \A i \in 1..Len(s) : s[i] = t[i] BY <1>1, PrefixAt
<1> QED BY <1>2, SameElements

LEMMA FrontIsPrefix ==
    ASSUME NEW s, IsSeq(s), s # <<>>
    PROVE  /\ IsSeq(Front(s)) /\ Len(Front(s)) = Len(s) - 1 /\ Len(s) \in Nat \ {0}
           /\ IsPrefix(Front(s), s) /\ Front(s) # s
           /\ \A i \in 1..(Len(s) - 1) : Front(s)[i] = s[i]
<1>1. IsSeq(Front(s)) /\ Len(Front(s)) = Len(s) - 1 /\ Len(s) \in Nat \ {0} BY Fronted
<1>2. Len(s) - 1 \in 0..Len(s) /\ Len(s) - 1 <= Len(s) /\ Len(s) - 1 # Len(s) BY <1>1
<1>3. \A i \in 1..(Len(s) - 1) : Front(s)[i] = s[i]
  BY <1>2, FirstElements DEF Front
<1>4. IsPrefix(Front(s), s)
  <2>1. Len(Front(s)) <= Len(s) BY <1>1, <1>2
  <2>2. \A i \in 1..Len(Front(s)) : Front(s)[i] = s[i] BY <1>1, <1>3
  <2> QED BY <1>1, <2>1, <2>2, PrefixAt
<1>5. Front(s) # s BY <1>1, <1>2
<1> QED BY <1>1, <1>3, <1>4, <1>5

\* A prefix that is not the whole is one of its front.
LEMMA StrictPrefix ==
    ASSUME NEW s, IsSeq(s), NEW t, IsSeq(t), IsPrefix(s, t), s # t
    PROVE  t # <<>> /\ Len(s) < Len(t) /\ IsPrefix(s, Front(t))
<1>1. Len(s) \in Nat /\ Len(t) \in Nat /\ Len(s) <= Len(t) BY LenIsNat, PrefixAt
<1>2. Len(s) < Len(t) BY <1>1, WholePrefix
<1>3. t # <<>> BY <1>1, <1>2, EmptySeq
<1>4. IsSeq(Front(t)) /\ Len(Front(t)) = Len(t) - 1 /\ IsPrefix(Front(t), t)
  BY <1>3, FrontIsPrefix
<1>5. Len(s) <= Len(Front(t)) BY <1>1, <1>2, <1>4
<1> QED BY <1>2, <1>3, <1>4, <1>5, PrefixesNest

LEMMA AppendAt ==
    ASSUME NEW s, IsSeq(s), NEW e
    PROVE  /\ IsSeq(Append(s, e)) /\ Append(s, e) # <<>>
           /\ Len(Append(s, e)) = Len(s) + 1 /\ Len(s) \in Nat
           /\ \A i \in 1..Len(s) : Append(s, e)[i] = s[i]
           /\ Append(s, e)[Len(s) + 1] = e
           /\ IsPrefix(s, Append(s, e)) /\ Front(Append(s, e)) = s
<1> DEFINE S == Range(s) \cup {e}
           a == Append(s, e)
<1>1. s \in Seq(S) /\ e \in S BY SeqMonotonic DEF IsSeq
<1>2. Len(s) \in Nat BY LenIsNat
<1> HIDE DEF S
<1>3. /\ a \in Seq(S) /\ a # <<>> /\ Len(a) = Len(s) + 1
      /\ \A i \in 1..Len(s) : a[i] = s[i]
      /\ a[Len(s) + 1] = e
  BY <1>1, AppendProperties
<1>4. IsSeq(a) BY <1>3, AnySeq
<1> HIDE DEF a
<1>5. IsPrefix(s, a)
  <2>1. Len(s) <= Len(a) BY <1>2, <1>3
  <2> QED BY <1>3, <1>4, <2>1, PrefixAt
<1>6. Front(a) = s
  <2>1. IsSeq(Front(a)) /\ Len(Front(a)) = Len(a) - 1
        /\ \A i \in 1..(Len(a) - 1) : Front(a)[i] = a[i]
    BY <1>3, <1>4, FrontIsPrefix
  <2>2. Len(a) - 1 = Len(s) BY <1>2, <1>3
  <2>3. Len(Front(a)) = Len(s) /\ \A i \in 1..Len(Front(a)) : Front(a)[i] = s[i]
    BY <1>3, <2>1, <2>2
  <2> QED BY <2>1, <2>3, SameElements
<1> QED BY <1>2, <1>3, <1>4, <1>5, <1>6 DEF a

\* The prefixes of a longer sequence that are no longer than what it extends.
LEMMA PrefixOfLonger ==
    ASSUME NEW s, IsSeq(s), NEW p, IsSeq(p), NEW e, Len(p) <= Len(s)
    PROVE  IsPrefix(p, Append(s, e)) <=> IsPrefix(p, s)
<1>1. IsSeq(Append(s, e)) /\ IsPrefix(s, Append(s, e)) BY AppendAt
<1>2. IsPrefix(p, s) => IsPrefix(p, Append(s, e)) BY <1>1, PrefixOfPrefix
<1>3. IsPrefix(p, Append(s, e)) => IsPrefix(p, s) BY <1>1, PrefixesNest
<1> QED BY <1>2, <1>3

-----------------------------------------------------------------------------
\* Where the values of a tree lie, while the value at path pa is read.

Fields == {"type", "int", "exp", "text", "start", "limit", "comments"}
IsTree(t) ==
    \A p \in DOMAIN t :
        /\ IsSeq(p) /\ (p # <<>> => Front(p) \in DOMAIN t)
        /\ DOMAIN t[p] = Fields /\ DOMAIN t[p].comments = Placements

\* lv are the containers that are open; w says that the value at pa is still to
\* be begun, so that what the tree has there is an older value or none.
Placing(t, pa, lv, w) ==
    /\ IsTree(t) /\ IsSeq(pa) /\ IsSeq(lv) /\ pa \in DOMAIN t
    /\ \A i \in 1..Len(lv) : lv[i].type \in Containers
    /\ w => Len(pa) = Len(lv)
    /\ ~w => Len(pa) = Len(lv) - 1 \/ (lv = <<>> /\ pa = <<>>)

Reading(p, pa, lv) == Len(p) < Len(lv) /\ IsPrefix(p, pa)
Waiting(p, pa, w) == w /\ IsPrefix(pa, p)
Done(p, pa, lv, w) == ~Reading(p, pa, lv) /\ ~Waiting(p, pa, w)

Siblings(p, q) == p # q /\ Len(p) = Len(q) /\ Front(p) = Front(q)
Opening(type) == IF type = "array" THEN "[" ELSE "{"
Closing(type) == IF type = "array" THEN "]" ELSE "}"

\* What lies where, when c characters have been read.
Begun(t, p, lv, c) ==
    /\ t[p].type = lv[Len(p) + 1].type
    /\ t[p].start \in 0..(c - 1) /\ CharAt(t[p].start) = Opening(t[p].type)
Ended_(t, p, c) == Spans(t[p]) /\ t[p].limit <= c
Offsets(t, pa, lv, w, c) ==
    \A p \in DOMAIN t :
        /\ Reading(p, pa, lv) => Begun(t, p, lv, c)
        /\ Done(p, pa, lv, w) => Ended_(t, p, c)
        /\ p # <<>> /\ ~Waiting(p, pa, w) => t[Front(p)].start < t[p].start
        /\ p # <<>> /\ Done(p, pa, lv, w) /\ Done(Front(p), pa, lv, w) =>
               t[p].limit < t[Front(p)].limit
        /\ \A q \in DOMAIN t : Siblings(p, q) /\ Done(p, pa, lv, w) =>
               /\ Done(q, pa, lv, w) => Apart(t[p], t[q])
               /\ Reading(q, pa, lv) => t[p].limit <= t[q].start

\* The nodes at p in t and u are of the same type and lie at the same place.
SamePlace(t, u, p) == /\ u[p].type = t[p].type
                      /\ u[p].start = t[p].start /\ u[p].limit = t[p].limit

LEMMA SamePlaceBegun ==
    ASSUME NEW t, NEW u, NEW p, NEW lv, NEW lw, NEW c \in Nat, NEW e \in Nat, c <= e,
           SamePlace(t, u, p), Begun(t, p, lv, c), lw[Len(p) + 1].type = lv[Len(p) + 1].type
    PROVE  Begun(u, p, lw, e)
BY DEF SamePlace, Begun

LEMMA SamePlaceEnded ==
    ASSUME NEW t, NEW u, NEW p, NEW c \in Nat, NEW e \in Nat, End \in Nat,
           c <= e, SamePlace(t, u, p), Ended_(t, p, c)
    PROVE  Ended_(u, p, e)
<1>1. Spans(u[p]) BY DEF SamePlace, Ended_, Spans
<1>2. t[p].limit \in Int
  <2>1. t[p].start \in 0..(End - 1) /\ t[p].limit \in (t[p].start + 1)..End
    BY DEF Ended_, Spans
  <2> QED BY <2>1
<1> QED BY <1>1, <1>2 DEF SamePlace, Ended_

\* Where things lie as numbers.
LEMMA PlaceNumbers ==
    ASSUME NEW t, NEW pa, NEW lv, NEW w, NEW c \in Nat, End \in Nat,
           Offsets(t, pa, lv, w, c), NEW p \in DOMAIN t
    PROVE  /\ Reading(p, pa, lv) => t[p].start \in Nat /\ t[p].start < c
           /\ Done(p, pa, lv, w) => /\ t[p].start \in Nat /\ t[p].limit \in Nat
                                    /\ t[p].start < t[p].limit /\ t[p].limit <= c
                                    /\ c <= c
<1>1. CASE Reading(p, pa, lv)
  <2>1. Begun(t, p, lv, c) BY <1>1 DEF Offsets
  <2> QED BY <1>1, <2>1 DEF Begun, Done
<1>2. CASE Done(p, pa, lv, w)
  <2>1. Ended_(t, p, c) BY <1>2 DEF Offsets
  <2>2. t[p].start \in 0..(End - 1) /\ t[p].limit \in (t[p].start + 1)..End
        /\ t[p].limit <= c
    BY <2>1 DEF Ended_, Spans
  <2> QED BY <1>2, <2>2 DEF Done
<1> QED BY <1>1, <1>2

\* In a tree what is above or beside what.
LEMMA FrontFacts ==
    ASSUME NEW t, IsTree(t), NEW p \in DOMAIN t, p # <<>>
    PROVE  /\ Front(p) \in DOMAIN t /\ IsSeq(Front(p)) /\ Len(Front(p)) = Len(p) - 1
           /\ Len(p) \in Nat \ {0} /\ IsPrefix(Front(p), p) /\ Front(p) # p
BY FrontIsPrefix DEF IsTree

\* What is above something that is not waiting does not wait either.
LEMMA FrontIsNotWaiting ==
    ASSUME NEW t, IsTree(t), NEW pa, IsSeq(pa), NEW w,
           NEW p \in DOMAIN t, p # <<>>, ~Waiting(p, pa, w)
    PROVE  ~Waiting(Front(p), pa, w)
<1>1. IsSeq(p) BY DEF IsTree
<1>2. IsSeq(Front(p)) /\ IsPrefix(Front(p), p) BY FrontFacts
<1> QED BY <1>1, <1>2, PrefixOfPrefix DEF Waiting

-----------------------------------------------------------------------------
\* A container is begun at pa.
LEMMA Opened ==
    ASSUME End \in Nat, NEW t, NEW pa, NEW lv, NEW c \in Nat,
           Placing(t, pa, lv, TRUE), Offsets(t, pa, lv, TRUE, c),
           NEW s \in Nat, NEW e \in Nat, c <= s, s < e,
           NEW l, l.type \in Containers, CharAt(s) = Opening(l.type),
           NEW u, DOMAIN u = {q \in DOMAIN t : ~IsStrictPrefix(pa, q)},
           \A q \in DOMAIN u : q # pa => SamePlace(t, u, q),
           u[pa].type = l.type, u[pa].start = s
    PROVE  Offsets(u, pa, Append(lv, l), FALSE, e)
<1> DEFINE lw == Append(lv, l)
           OldReading(p) == Reading(p, pa, lv)
           NewReading(p) == Reading(p, pa, lw)
           OldDone(p) == Done(p, pa, lv, TRUE)
           NewDone(p) == Done(p, pa, lw, FALSE)
<1>1. /\ IsTree(t) /\ IsSeq(pa) /\ IsSeq(lv) /\ pa \in DOMAIN t /\ Len(pa) = Len(lv)
      /\ Len(pa) \in Nat /\ Len(lv) \in Nat
  BY LenIsNat DEF Placing
<1>2. Len(lw) = Len(lv) + 1 /\ lw[Len(lv) + 1] = l /\ \A i \in 1..Len(lv) : lw[i] = lv[i]
  BY <1>1, AppendAt
<1>3. \A p \in DOMAIN u : p \in DOMAIN t /\ IsSeq(p) /\ Len(p) \in Nat
  BY <1>1, LenIsNat DEF IsTree
<1>4. \A p \in DOMAIN u : IsPrefix(pa, p) => p = pa BY DEF IsStrictPrefix
<1>5. IsPrefix(pa, pa) BY <1>1, PrefixOfItself
<1>6. ASSUME NEW p \in DOMAIN u
      PROVE  /\ NewReading(p) <=> OldReading(p) \/ p = pa
             /\ NewDone(p) => OldDone(p) /\ p # pa
             /\ p # pa => ~Waiting(p, pa, TRUE)
             /\ OldReading(p) => p # pa
  <2>1. IsSeq(p) /\ Len(p) \in Nat BY <1>3
  <2>2. IsPrefix(p, pa) /\ Len(p) = Len(pa) => p = pa BY <1>1, <2>1, WholePrefix
  <2>3. OldReading(p) => p # pa BY <1>1 DEF Reading
  <2>4. NewReading(p) <=> OldReading(p) \/ p = pa
    <3>1. Len(p) < Len(lw) <=> Len(p) < Len(lv) \/ Len(p) = Len(pa) BY <1>1, <1>2, <2>1
    <3>2. p = pa => NewReading(p) BY <1>5, <3>1 DEF Reading
    <3> HIDE DEF lw
    <3> QED BY <2>2, <3>1, <3>2 DEF Reading
  <2>5. p # pa => ~Waiting(p, pa, TRUE) BY <1>4 DEF Waiting
  <2> QED BY <2>3, <2>4, <2>5 DEF Done
<1> HIDE DEF lw
<1>7. ASSUME NEW p \in DOMAIN u
      PROVE  /\ NewReading(p) => Begun(u, p, lw, e)
             /\ NewDone(p) => Ended_(u, p, e)
  <2>1. CASE p = pa
    <3>1. s \in 0..(e - 1) OBVIOUS
    <3>2. lw[Len(p) + 1].type = l.type BY <1>1, <1>2, <2>1
    <3> QED BY <1>6, <2>1, <3>1, <3>2 DEF Begun
  <2>2. CASE p # pa
    <3>1. NewReading(p) => Begun(u, p, lw, e)
      <4> SUFFICES ASSUME NewReading(p) PROVE Begun(u, p, lw, e)
        OBVIOUS
      <4>1. OldReading(p) BY <1>6, <2>2
      <4>2. Begun(t, p, lv, c) BY <1>3, <4>1 DEF Offsets
      <4>3. Len(p) + 1 \in 1..Len(lv) BY <1>1, <1>3, <4>1 DEF Reading
      <4>4. lw[Len(p) + 1].type = lv[Len(p) + 1].type BY <1>2, <4>3
      <4>5. c <= e /\ SamePlace(t, u, p) BY <2>2
      <4> QED BY <4>2, <4>4, <4>5, SamePlaceBegun
    <3>2. NewDone(p) => Ended_(u, p, e)
      <4> SUFFICES ASSUME NewDone(p) PROVE Ended_(u, p, e)
        OBVIOUS
      <4>1. Ended_(t, p, c) BY <1>3, <1>6 DEF Offsets
      <4> QED BY <2>2, <4>1, SamePlaceEnded
    <3> QED BY <3>1, <3>2
  <2> QED BY <2>1, <2>2
<1>8. ASSUME NEW p \in DOMAIN u, p # <<>>
      PROVE  /\ u[Front(p)].start < u[p].start
             /\ NewDone(p) /\ NewDone(Front(p)) => u[p].limit < u[Front(p)].limit
  <2> DEFINE f == Front(p)
  <2>1. /\ f \in DOMAIN t /\ IsSeq(f) /\ Len(f) = Len(p) - 1 /\ Len(p) \in Nat \ {0}
        /\ IsPrefix(f, p) /\ f # p
    BY <1>1, <1>3, <1>8, FrontFacts
  <2>2. f # pa /\ ~IsStrictPrefix(pa, f)
    <3>1. ~IsPrefix(pa, f)
      <4> SUFFICES ASSUME IsPrefix(pa, f) PROVE FALSE
        OBVIOUS
      <4>1. IsPrefix(pa, p) BY <1>1, <1>3, <2>1, PrefixOfPrefix
      <4>2. p = pa BY <1>4, <4>1
      <4>3. Len(pa) <= Len(f) BY <2>1, <1>1, PrefixAt
      <4> QED BY <2>1, <4>2, <4>3
    <3> QED BY <1>5, <3>1 DEF IsStrictPrefix
  <2>3. f \in DOMAIN u /\ SamePlace(t, u, f) BY <2>1, <2>2
  <2> HIDE DEF f
  <2>4. CASE p = pa
    <3>1. OldReading(f)
      <4>1. Len(f) < Len(lv) BY <1>1, <2>1, <2>4
      <4> QED BY <2>1, <2>4, <4>1 DEF Reading
    <3>2. t[f].start \in Nat /\ t[f].start < c BY <2>1, <3>1, PlaceNumbers
    <3>3. u[f].start < u[p].start BY <2>3, <2>4, <3>2 DEF SamePlace
    <3> QED BY <1>6, <2>4, <3>3 DEF f
  <2>5. CASE p # pa
    <3>1. ~Waiting(p, pa, TRUE) /\ SamePlace(t, u, p) BY <1>6, <2>5
    <3>2. t[f].start < t[p].start BY <1>3, <1>8, <3>1 DEF Offsets, f
    <3>3. NewDone(p) /\ NewDone(f) => t[p].limit < t[f].limit
      BY <1>3, <1>6, <1>8, <2>3 DEF Offsets, f
    <3> QED BY <2>3, <3>1, <3>2, <3>3 DEF SamePlace, f
  <2> QED BY <2>4, <2>5
<1>9. ASSUME NEW p \in DOMAIN u, NEW q \in DOMAIN u, Siblings(p, q), NewDone(p)
      PROVE  /\ NewDone(q) => Apart(u[p], u[q])
             /\ NewReading(q) => u[p].limit <= u[q].start
  <2>1. p \in DOMAIN t /\ q \in DOMAIN t /\ OldDone(p) /\ p # pa /\ SamePlace(t, u, p)
    BY <1>3, <1>6, <1>9
  <2>2. CASE q = pa
    <3>1. t[p].limit \in Nat /\ t[p].limit <= c BY <2>1, PlaceNumbers
    <3>2. u[p].limit <= u[q].start BY <2>1, <2>2, <3>1 DEF SamePlace
    <3> QED BY <1>6, <2>2, <3>2
  <2>3. CASE q # pa
    <3>1. SamePlace(t, u, q) /\ (NewDone(q) => OldDone(q)) /\ (NewReading(q) => OldReading(q))
      BY <1>6, <2>3
    <3>2. /\ OldDone(q) => Apart(t[p], t[q])
          /\ OldReading(q) => t[p].limit <= t[q].start
      BY <1>9, <2>1 DEF Offsets
    <3> QED BY <2>1, <3>1, <3>2 DEF SamePlace, Apart
  <2> QED BY <2>2, <2>3
<1> HIDE DEF NewReading, NewDone
<1>10. \A p \in DOMAIN u :
        /\ NewReading(p) => Begun(u, p, lw, e)
        /\ NewDone(p) => Ended_(u, p, e)
        /\ p # <<>> /\ ~Waiting(p, pa, FALSE) => u[Front(p)].start < u[p].start
        /\ p # <<>> /\ NewDone(p) /\ NewDone(Front(p)) => u[p].limit < u[Front(p)].limit
        /\ \A q \in DOMAIN u : Siblings(p, q) /\ NewDone(p) =>
               /\ NewDone(q) => Apart(u[p], u[q])
               /\ NewReading(q) => u[p].limit <= u[q].start
  BY <1>7, <1>8, <1>9
<1> QED BY <1>10 DEF Offsets, NewReading, NewDone, lw

-----------------------------------------------------------------------------
\* A member or element of the container at pa is about to be read.
LEMMA Descended ==
    ASSUME End \in Nat, NEW t, NEW pa, NEW lv, lv # <<>>, NEW c \in Nat,
           Placing(t, pa, lv, FALSE), Offsets(t, pa, lv, FALSE, c),
           NEW e \in Nat, c <= e, NEW step
    PROVE  Offsets(Resolved(t, Append(pa, step)), Append(pa, step), lv, TRUE, e)
<1> DEFINE pb == Append(pa, step)
           u == Resolved(t, pb)
           NewReading(p) == Reading(p, pb, lv)
           NewDone(p) == Done(p, pb, lv, TRUE)
<1>1. /\ IsTree(t) /\ IsSeq(pa) /\ IsSeq(lv) /\ Len(pa) = Len(lv) - 1
      /\ Len(pa) \in Nat /\ Len(lv) \in Nat
  BY LenIsNat DEF Placing
<1>2. IsSeq(pb) /\ Len(pb) = Len(pa) + 1 /\ IsPrefix(pb, pb) BY <1>1, AppendAt, PrefixOfItself
<1>3. /\ DOMAIN u = DOMAIN t \cup {pb}
      /\ \A p \in DOMAIN t : u[p] = t[p]
  BY DEF Resolved
<1>4. \A p \in DOMAIN u : IsSeq(p) /\ Len(p) \in Nat
  BY <1>1, <1>2, <1>3, LenIsNat DEF IsTree
<1> HIDE DEF pb, u
<1>5. ASSUME NEW p \in DOMAIN u
      PROVE  /\ NewReading(p) <=> Reading(p, pa, lv)
             /\ NewDone(p) => Done(p, pa, lv, FALSE) /\ p \in DOMAIN t
             /\ NewReading(p) => p \in DOMAIN t
             /\ ~Waiting(p, pb, TRUE) => p \in DOMAIN t /\ ~Waiting(p, pa, FALSE)
  <2>1. IsSeq(p) /\ Len(p) \in Nat BY <1>4
  <2>2. Len(p) < Len(lv) => Len(p) <= Len(pa) BY <1>1, <2>1
  <2>3. NewReading(p) <=> Reading(p, pa, lv)
    BY <1>1, <2>1, <2>2, PrefixOfLonger DEF Reading, pb
  <2>4. ~Waiting(p, pb, TRUE) => p \in DOMAIN t BY <1>2, <1>3 DEF Waiting
  <2>5. NewReading(p) => p # pb BY <1>1, <1>2 DEF Reading
  <2> QED BY <1>3, <2>3, <2>4, <2>5 DEF Done, Waiting
<1>6. ASSUME NEW p \in DOMAIN u
      PROVE  /\ NewReading(p) => Begun(u, p, lv, e)
             /\ NewDone(p) => Ended_(u, p, e)
  <2>1. p \in DOMAIN t => SamePlace(t, u, p) BY <1>3 DEF SamePlace
  <2>2. NewReading(p) => Begun(t, p, lv, c) BY <1>5 DEF Offsets
  <2>3. NewDone(p) => Ended_(t, p, c) BY <1>5 DEF Offsets
  <2>4. NewReading(p) => Begun(u, p, lv, e) BY <1>5, <2>1, <2>2, SamePlaceBegun
  <2>5. NewDone(p) => Ended_(u, p, e) BY <1>5, <2>1, <2>3, SamePlaceEnded
  <2> QED BY <2>4, <2>5
<1>7. ASSUME NEW p \in DOMAIN u, p # <<>>, ~Waiting(p, pb, TRUE)
      PROVE  /\ u[Front(p)].start < u[p].start
             /\ NewDone(p) /\ NewDone(Front(p)) => u[p].limit < u[Front(p)].limit
  <2>1. p \in DOMAIN t /\ ~Waiting(p, pa, FALSE) BY <1>5, <1>7
  <2>2. Front(p) \in DOMAIN t BY <1>1, <1>7, <2>1, FrontFacts
  <2>3. Front(p) \in DOMAIN u BY <1>3, <2>2
  <2>4. u[p] = t[p] /\ u[Front(p)] = t[Front(p)] BY <1>3, <2>1, <2>2
  <2>5. t[Front(p)].start < t[p].start BY <1>7, <2>1 DEF Offsets
  <2>6. NewDone(p) /\ NewDone(Front(p)) => t[p].limit < t[Front(p)].limit
    BY <1>5, <1>7, <2>1, <2>3 DEF Offsets
  <2> QED BY <2>4, <2>5, <2>6
<1>8. ASSUME NEW p \in DOMAIN u, NEW q \in DOMAIN u, Siblings(p, q), NewDone(p)
      PROVE  /\ NewDone(q) => Apart(u[p], u[q])
             /\ NewReading(q) => u[p].limit <= u[q].start
  <2>1. p \in DOMAIN t /\ Done(p, pa, lv, FALSE) /\ u[p] = t[p] BY <1>3, <1>5, <1>8
  <2>2. /\ NewDone(q) => q \in DOMAIN t /\ Done(q, pa, lv, FALSE) /\ u[q] = t[q]
        /\ NewReading(q) => q \in DOMAIN t /\ Reading(q, pa, lv) /\ u[q] = t[q]
    BY <1>3, <1>5
  <2>3. /\ NewDone(q) => Apart(t[p], t[q])
        /\ NewReading(q) => t[p].limit <= t[q].start
    BY <1>8, <2>1, <2>2 DEF Offsets
  <2> QED BY <2>1, <2>2, <2>3
<1>9. \A p \in DOMAIN u : p # <<>> /\ NewDone(p) => ~Waiting(p, pb, TRUE)
  BY DEF Done
<1> HIDE DEF NewReading, NewDone
<1>10. \A p \in DOMAIN u :
        /\ NewReading(p) => Begun(u, p, lv, e)
        /\ NewDone(p) => Ended_(u, p, e)
        /\ p # <<>> /\ ~Waiting(p, pb, TRUE) => u[Front(p)].start < u[p].start
        /\ p # <<>> /\ NewDone(p) /\ NewDone(Front(p)) => u[p].limit < u[Front(p)].limit
        /\ \A q \in DOMAIN u : Siblings(p, q) /\ NewDone(p) =>
               /\ NewDone(q) => Apart(u[p], u[q])
               /\ NewReading(q) => u[p].limit <= u[q].start
  BY <1>6, <1>7, <1>8, <1>9
<1>11. Offsets(u, pb, lv, TRUE, e) BY <1>10 DEF Offsets, NewReading, NewDone
<1> QED BY <1>11 DEF u, pb

\* Where the reader is behind the value at pa.
Past(pa, around) == IF around = <<>> THEN pa ELSE Front(pa)

\* A value without members is read at pa.
LEMMA ReadWhole ==
    ASSUME End \in Nat, NEW t, NEW pa, NEW lv, NEW c \in Nat,
           Placing(t, pa, lv, TRUE), Offsets(t, pa, lv, TRUE, c), NEW e \in Nat, c <= e,
           NEW u, DOMAIN u = {q \in DOMAIN t : ~IsStrictPrefix(pa, q)},
           \A q \in DOMAIN u : q # pa => SamePlace(t, u, q),
           Spans(u[pa]), u[pa].start \in Nat, c <= u[pa].start, u[pa].limit <= e
    PROVE  Offsets(u, Past(pa, lv), lv, FALSE, e)
<1> DEFINE pb == Past(pa, lv)
           OldReading(p) == Reading(p, pa, lv)
           NewReading(p) == Reading(p, pb, lv)
           OldDone(p) == Done(p, pa, lv, TRUE)
           NewDone(p) == Done(p, pb, lv, FALSE)
<1>1. /\ IsTree(t) /\ IsSeq(pa) /\ IsSeq(lv) /\ pa \in DOMAIN t /\ Len(pa) = Len(lv)
      /\ Len(pa) \in Nat /\ Len(lv) \in Nat
  BY LenIsNat DEF Placing
<1>2. \A p \in DOMAIN u : p \in DOMAIN t /\ IsSeq(p) /\ Len(p) \in Nat
  BY <1>1, LenIsNat DEF IsTree
<1>3. \A p \in DOMAIN u : IsPrefix(pa, p) => p = pa BY DEF IsStrictPrefix
<1>4. IsPrefix(pa, pa) BY <1>1, PrefixOfItself
<1>5. ASSUME NEW p, IsSeq(p), Len(p) \in Nat, Len(p) < Len(lv)
      PROVE  IsPrefix(p, pb) <=> IsPrefix(p, pa)
  <2>1. lv # <<>> /\ pa # <<>> BY <1>1, <1>5, EmptySeq
  <2>2. pb = Front(pa) BY <2>1 DEF Past
  <2>3. IsSeq(pb) /\ Len(pb) = Len(pa) - 1 /\ IsPrefix(pb, pa)
    BY <1>1, <2>1, <2>2, FrontIsPrefix
  <2>4. Len(p) <= Len(pb) BY <1>1, <1>5, <2>3
  <2> HIDE DEF pb
  <2>5. IsPrefix(p, pb) => IsPrefix(p, pa) BY <1>1, <1>5, <2>3, PrefixOfPrefix
  <2>6. IsPrefix(p, pa) => IsPrefix(p, pb) BY <1>1, <1>5, <2>3, <2>4, PrefixesNest
  <2> QED BY <2>5, <2>6
<1>6. ASSUME NEW p \in DOMAIN u
      PROVE  /\ NewReading(p) <=> OldReading(p)
             /\ NewDone(p) <=> OldDone(p) \/ p = pa
             /\ p # pa => ~Waiting(p, pa, TRUE)
             /\ OldReading(p) => p # pa
  <2>1. IsSeq(p) /\ Len(p) \in Nat BY <1>2
  <2>2. NewReading(p) <=> OldReading(p) BY <1>5, <2>1 DEF Reading
  <2>3. OldReading(p) => p # pa BY <1>1 DEF Reading
  <2>4. p # pa => ~Waiting(p, pa, TRUE) BY <1>3 DEF Waiting
  <2> HIDE DEF pb
  <2>5. NewDone(p) <=> ~NewReading(p) BY DEF Done, Waiting
  <2>6. OldDone(p) \/ p = pa <=> ~OldReading(p) BY <2>3, <2>4 DEF Done
  <2> QED BY <2>2, <2>3, <2>4, <2>5, <2>6
<1> HIDE DEF pb
<1>7. ASSUME NEW p \in DOMAIN u
      PROVE  /\ NewReading(p) => Begun(u, p, lv, e)
             /\ NewDone(p) => Ended_(u, p, e)
  <2>1. CASE p = pa BY <1>6, <2>1 DEF Ended_
  <2>2. CASE p # pa
    <3>1. SamePlace(t, u, p) BY <2>2
    <3>2. NewReading(p) => Begun(t, p, lv, c) BY <1>2, <1>6 DEF Offsets
    <3>3. NewDone(p) => Ended_(t, p, c) BY <1>2, <1>6, <2>2 DEF Offsets
    <3> QED BY <3>1, <3>2, <3>3, SamePlaceBegun, SamePlaceEnded
  <2> QED BY <2>1, <2>2
<1>8. ASSUME NEW p \in DOMAIN u, p # <<>>
      PROVE  /\ u[Front(p)].start < u[p].start
             /\ NewDone(p) /\ NewDone(Front(p)) => u[p].limit < u[Front(p)].limit
  <2> DEFINE f == Front(p)
  <2>1. /\ f \in DOMAIN t /\ IsSeq(f) /\ Len(f) = Len(p) - 1 /\ Len(p) \in Nat \ {0}
        /\ IsPrefix(f, p) /\ f # p
    BY <1>1, <1>2, <1>8, FrontFacts
  <2>2. f # pa /\ ~IsStrictPrefix(pa, f)
    <3>1. ~IsPrefix(pa, f)
      <4> SUFFICES ASSUME IsPrefix(pa, f) PROVE FALSE
        OBVIOUS
      <4>1. IsPrefix(pa, p) BY <1>1, <1>2, <2>1, PrefixOfPrefix
      <4>2. p = pa BY <1>3, <4>1
      <4>3. Len(pa) <= Len(f) BY <2>1, <1>1, PrefixAt
      <4> QED BY <2>1, <4>2, <4>3
    <3> QED BY <1>4, <3>1 DEF IsStrictPrefix
  <2>3. f \in DOMAIN u /\ SamePlace(t, u, f) BY <2>1, <2>2
  <2> HIDE DEF f
  <2>4. CASE p = pa
    <3>1. OldReading(f)
      <4>1. Len(f) < Len(lv) BY <1>1, <2>1, <2>4
      <4> QED BY <2>1, <2>4, <4>1 DEF Reading
    <3>2. t[f].start \in Nat /\ t[f].start < c BY <2>1, <3>1, PlaceNumbers
    <3>3. u[f].start < u[p].start BY <2>3, <2>4, <3>2 DEF SamePlace
    <3>4. ~NewDone(f) BY <1>6, <2>3, <3>1 DEF Done
    <3> QED BY <3>3, <3>4 DEF f
  <2>5. CASE p # pa
    <3>1. ~Waiting(p, pa, TRUE) /\ SamePlace(t, u, p) BY <1>6, <2>5
    <3>2. t[f].start < t[p].start BY <1>2, <1>8, <3>1 DEF Offsets, f
    <3>3. NewDone(p) /\ NewDone(f) => t[p].limit < t[f].limit
      BY <1>2, <1>6, <1>8, <2>2, <2>3, <2>5 DEF Offsets, f
    <3> QED BY <2>3, <3>1, <3>2, <3>3 DEF SamePlace, f
  <2> QED BY <2>4, <2>5
<1>9. ASSUME NEW p \in DOMAIN u, NEW q \in DOMAIN u, Siblings(p, q), NewDone(p)
      PROVE  /\ NewDone(q) => Apart(u[p], u[q])
             /\ NewReading(q) => u[p].limit <= u[q].start
  <2>1. p \in DOMAIN t /\ q \in DOMAIN t /\ p # q BY <1>2, <1>9 DEF Siblings
  <2>2. CASE p = pa
    <3>1. ~NewReading(q)
      <4>1. Len(q) = Len(lv) BY <1>1, <1>9, <2>2 DEF Siblings
      <4> QED BY <1>1, <4>1 DEF Reading
    <3>2. NewDone(q) => t[q].limit \in Nat /\ t[q].limit <= c BY <1>6, <2>1, <2>2, PlaceNumbers
    <3>3. NewDone(q) => u[q].limit <= u[p].start BY <2>1, <2>2, <3>2 DEF SamePlace
    <3> QED BY <3>1, <3>3 DEF Apart
  <2>3. CASE p # pa /\ q = pa
    <3>1. t[p].limit \in Nat /\ t[p].limit <= c BY <1>6, <1>9, <2>1, <2>3, PlaceNumbers
    <3>2. u[p].limit <= u[q].start BY <2>1, <2>3, <3>1 DEF SamePlace
    <3> QED BY <3>2 DEF Apart
  <2>4. CASE p # pa /\ q # pa
    <3>1. /\ SamePlace(t, u, p) /\ SamePlace(t, u, q) /\ OldDone(p)
          /\ (NewDone(q) => OldDone(q)) /\ (NewReading(q) => OldReading(q))
      BY <1>6, <1>9, <2>4
    <3>2. /\ OldDone(q) => Apart(t[p], t[q])
          /\ OldReading(q) => t[p].limit <= t[q].start
      BY <1>9, <2>1, <3>1 DEF Offsets
    <3> QED BY <3>1, <3>2 DEF SamePlace, Apart
  <2> QED BY <2>2, <2>3, <2>4
<1> HIDE DEF NewReading, NewDone
<1>10. \A p \in DOMAIN u :
        /\ NewReading(p) => Begun(u, p, lv, e)
        /\ NewDone(p) => Ended_(u, p, e)
        /\ p # <<>> /\ ~Waiting(p, pb, FALSE) => u[Front(p)].start < u[p].start
        /\ p # <<>> /\ NewDone(p) /\ NewDone(Front(p)) => u[p].limit < u[Front(p)].limit
        /\ \A q \in DOMAIN u : Siblings(p, q) /\ NewDone(p) =>
               /\ NewDone(q) => Apart(u[p], u[q])
               /\ NewReading(q) => u[p].limit <= u[q].start
  BY <1>7, <1>8, <1>9
<1>11. Offsets(u, pb, lv, FALSE, e) BY <1>10 DEF Offsets, NewReading, NewDone
<1> QED BY <1>11 DEF pb

-----------------------------------------------------------------------------
\* The container at pa ends.
LEMMA Closed ==
    ASSUME End \in Nat, NEW t, NEW pa, NEW lv, lv # <<>>, NEW c \in Nat,
           Placing(t, pa, lv, FALSE), Offsets(t, pa, lv, FALSE, c),
           NEW e \in Nat, c < e, e <= End, CharAt(e - 1) = Closing(lv[Len(lv)].type),
           NEW u, DOMAIN u = DOMAIN t,
           \A q \in DOMAIN u : q # pa => SamePlace(t, u, q),
           u[pa].type = t[pa].type, u[pa].start = t[pa].start, u[pa].limit = e
    PROVE  Offsets(u, Past(pa, Front(lv)), Front(lv), FALSE, e)
<1> DEFINE lw == Front(lv)
           pb == Past(pa, lw)
           OldReading(p) == Reading(p, pa, lv)
           NewReading(p) == Reading(p, pb, lw)
           OldDone(p) == Done(p, pa, lv, FALSE)
           NewDone(p) == Done(p, pb, lw, FALSE)
<1>1. /\ IsTree(t) /\ IsSeq(pa) /\ IsSeq(lv) /\ pa \in DOMAIN t /\ Len(pa) = Len(lv) - 1
      /\ Len(pa) \in Nat /\ Len(lv) \in Nat /\ pa \in DOMAIN u
      /\ \A i \in 1..Len(lv) : lv[i].type \in Containers
  BY LenIsNat DEF Placing
<1>2. \A p \in DOMAIN u : p \in DOMAIN t /\ IsSeq(p) /\ Len(p) \in Nat
  BY <1>1, LenIsNat DEF IsTree
<1>3. /\ IsSeq(lw) /\ Len(lw) = Len(lv) - 1
      /\ \A i \in 1..(Len(lv) - 1) : lw[i] = lv[i]
  BY <1>1, FrontIsPrefix
<1>4. IsPrefix(pa, pa) /\ OldReading(pa)
  BY <1>1, PrefixOfItself DEF Reading
<1> HIDE DEF lw
<1>5. ASSUME NEW p, IsSeq(p), Len(p) \in Nat, Len(p) < Len(lw)
      PROVE  IsPrefix(p, pb) <=> IsPrefix(p, pa)
  <2>1. lw # <<>> /\ pa # <<>> BY <1>1, <1>3, <1>5, EmptySeq
  <2>2. pb = Front(pa) BY <2>1 DEF Past
  <2>3. IsSeq(pb) /\ Len(pb) = Len(pa) - 1 /\ IsPrefix(pb, pa)
    BY <1>1, <2>1, <2>2, FrontIsPrefix
  <2>4. Len(p) <= Len(pb) BY <1>1, <1>3, <1>5, <2>3
  <2> HIDE DEF pb
  <2>5. IsPrefix(p, pb) => IsPrefix(p, pa) BY <1>1, <1>5, <2>3, PrefixOfPrefix
  <2>6. IsPrefix(p, pa) => IsPrefix(p, pb) BY <1>1, <1>5, <2>3, <2>4, PrefixesNest
  <2> QED BY <2>5, <2>6
<1>6. ASSUME NEW p \in DOMAIN u
      PROVE  /\ NewReading(p) <=> OldReading(p) /\ p # pa
             /\ NewDone(p) <=> OldDone(p) \/ p = pa
             /\ OldDone(p) <=> ~OldReading(p)
  <2>1. IsSeq(p) /\ Len(p) \in Nat BY <1>2
  <2>2. IsPrefix(p, pa) /\ Len(p) = Len(pa) => p = pa BY <1>1, <2>1, WholePrefix
  <2>3. Len(p) < Len(lv) <=> Len(p) < Len(lw) \/ Len(p) = Len(pa) BY <1>1, <1>3, <2>1
  <2>4. p = pa => ~(Len(p) < Len(lw)) BY <1>1, <1>3
  <2>5. NewReading(p) <=> OldReading(p) /\ p # pa
    BY <1>5, <2>1, <2>2, <2>3, <2>4 DEF Reading
  <2> HIDE DEF pb
  <2>6. NewDone(p) <=> ~NewReading(p) BY DEF Done, Waiting
  <2>7. OldDone(p) <=> ~OldReading(p) BY DEF Done, Waiting
  <2> QED BY <2>5, <2>6, <2>7, <1>4
<1> HIDE DEF pb
<1>7. Begun(t, pa, lv, c) BY <1>1, <1>4 DEF Offsets
<1>8. Spans(u[pa])
  <2>1. /\ t[pa].start \in 0..(c - 1) /\ t[pa].type = lv[Len(lv)].type
        /\ CharAt(t[pa].start) = Opening(t[pa].type)
    <3>1. Len(pa) + 1 = Len(lv) BY <1>1
    <3> QED BY <1>7, <3>1 DEF Begun
  <2>2. lv[Len(lv)].type \in Containers
    <3>1. Len(lv) \in 1..Len(lv) BY <1>1
    <3> QED BY <1>1, <3>1
  <2>3. u[pa].start \in 0..(End - 1) /\ u[pa].limit \in (u[pa].start + 1)..End BY <2>1
  <2>4. /\ CharAt(u[pa].start) = Opening(u[pa].type)
        /\ CharAt(u[pa].limit - 1) = Closing(u[pa].type)
        /\ u[pa].type \in {"array", "object"}
    BY <2>1, <2>2 DEF Containers
  <2> QED BY <2>3, <2>4 DEF Spans, Opening, Closing
<1>9. ASSUME NEW p \in DOMAIN u
      PROVE  /\ NewReading(p) => Begun(u, p, lw, e)
             /\ NewDone(p) => Ended_(u, p, e)
  <2>1. CASE p = pa
    <3>1. u[pa].limit <= e OBVIOUS
    <3>2. Ended_(u, pa, e) BY <1>8, <3>1 DEF Ended_
    <3>3. ~NewReading(p) BY <1>6, <2>1
    <3> QED BY <2>1, <3>2, <3>3
  <2>2. CASE p # pa
    <3>1. SamePlace(t, u, p) /\ c <= e BY <2>2
    <3>2. NewReading(p) => Begun(t, p, lv, c) BY <1>2, <1>6 DEF Offsets
    <3>3. NewDone(p) => Ended_(t, p, c) BY <1>2, <1>6, <2>2 DEF Offsets
    <3>4. NewReading(p) => lw[Len(p) + 1].type = lv[Len(p) + 1].type
      <4> SUFFICES ASSUME NewReading(p) PROVE lw[Len(p) + 1].type = lv[Len(p) + 1].type
        OBVIOUS
      <4>1. Len(p) + 1 \in 1..(Len(lv) - 1) BY <1>1, <1>2, <1>3 DEF Reading
      <4> QED BY <1>3, <4>1
    <3>5. NewReading(p) => Begun(u, p, lw, e) BY <3>1, <3>2, <3>4, SamePlaceBegun
    <3>6. NewDone(p) => Ended_(u, p, e) BY <3>1, <3>3, SamePlaceEnded
    <3> QED BY <3>5, <3>6
  <2> QED BY <2>1, <2>2
<1>10. ASSUME NEW p \in DOMAIN u, p # <<>>
       PROVE  /\ u[Front(p)].start < u[p].start
              /\ NewDone(p) /\ NewDone(Front(p)) => u[p].limit < u[Front(p)].limit
  <2> DEFINE f == Front(p)
  <2>1. /\ f \in DOMAIN t /\ IsSeq(f) /\ Len(f) = Len(p) - 1 /\ Len(p) \in Nat \ {0}
        /\ IsPrefix(f, p) /\ f # p
    BY <1>1, <1>2, <1>10, FrontFacts
  <2>2. p \in DOMAIN t BY <1>2
  <2>3. t[f].start < t[p].start BY <1>10, <2>2 DEF Offsets, Waiting
  <2>4. OldDone(p) /\ OldDone(f) => t[p].limit < t[f].limit BY <1>10, <2>2 DEF Offsets
  <2> HIDE DEF f
  <2>5. u[f].start < u[p].start BY <1>2, <2>1, <2>3 DEF SamePlace
  <2>6. ASSUME NewDone(p), NewDone(f) PROVE u[p].limit < u[f].limit
    <3>1. CASE p = pa
      <4>1. Len(f) < Len(lv) BY <1>1, <2>1, <3>1
      <4>2. OldReading(f) BY <2>1, <3>1, <4>1 DEF Reading
      <4>3. f # pa BY <2>1, <3>1
      <4> QED BY <1>6, <2>1, <2>6, <4>2, <4>3
    <3>2. CASE p # pa /\ f = pa
      <4>1. OldDone(p) BY <1>6, <2>6, <3>2
      <4>2. t[p].limit \in Nat /\ t[p].limit <= c BY <2>2, <4>1, PlaceNumbers
      <4>3. u[p].limit = t[p].limit BY <3>2 DEF SamePlace
      <4> QED BY <3>2, <4>2, <4>3
    <3>3. CASE p # pa /\ f # pa
      <4>1. OldDone(p) /\ OldDone(f) BY <1>6, <2>1, <2>6, <3>3
      <4>2. u[p].limit = t[p].limit /\ u[f].limit = t[f].limit BY <2>1, <3>3 DEF SamePlace
      <4> QED BY <2>4, <4>1, <4>2
    <3> QED BY <3>1, <3>2, <3>3
  <2> QED BY <2>5, <2>6 DEF f
<1>11. ASSUME NEW q \in DOMAIN u, Siblings(q, pa)
       PROVE  OldDone(q) /\ u[q].limit <= u[pa].start
  <2>1. ~OldReading(q)
    <3> SUFFICES ASSUME OldReading(q) PROVE FALSE
      OBVIOUS
    <3>1. IsSeq(q) /\ IsPrefix(q, pa) BY <1>2 DEF Reading
    <3>2. Len(pa) <= Len(q) /\ q # pa BY <1>1, <1>11 DEF Siblings
    <3> QED BY <1>1, <3>1, <3>2, WholePrefix
  <2>2. OldDone(q) BY <1>6, <2>1
  <2>3. q \in DOMAIN t /\ pa \in DOMAIN t /\ q # pa BY <1>1, <1>2, <1>11 DEF Siblings
  <2>4. t[q].limit <= t[pa].start BY <1>4, <1>11, <2>2, <2>3 DEF Offsets
  <2> QED BY <2>2, <2>3, <2>4 DEF SamePlace
<1>12. ASSUME NEW p \in DOMAIN u, NEW q \in DOMAIN u, Siblings(p, q), NewDone(p)
       PROVE  /\ NewDone(q) => Apart(u[p], u[q])
              /\ NewReading(q) => u[p].limit <= u[q].start
  <2>1. p \in DOMAIN t /\ q \in DOMAIN t /\ p # q BY <1>2, <1>12 DEF Siblings
  <2>2. CASE p = pa
    <3>1. Siblings(q, pa) BY <1>12, <2>2 DEF Siblings
    <3>2. OldDone(q) /\ u[q].limit <= u[pa].start BY <1>11, <3>1
    <3>3. ~NewReading(q) BY <1>6, <3>2
    <3> QED BY <2>2, <3>2, <3>3 DEF Apart
  <2>3. CASE q = pa
    <3>1. u[p].limit <= u[q].start BY <1>11, <1>12, <2>3
    <3> QED BY <3>1 DEF Apart
  <2>4. CASE p # pa /\ q # pa
    <3>1. /\ SamePlace(t, u, p) /\ SamePlace(t, u, q) /\ OldDone(p)
          /\ (NewDone(q) => OldDone(q)) /\ (NewReading(q) => OldReading(q))
      BY <1>6, <1>12, <2>4
    <3>2. /\ OldDone(q) => Apart(t[p], t[q])
          /\ OldReading(q) => t[p].limit <= t[q].start
      BY <1>12, <2>1, <3>1 DEF Offsets
    <3> QED BY <3>1, <3>2 DEF SamePlace, Apart
  <2> QED BY <2>2, <2>3, <2>4
<1> HIDE DEF NewReading, NewDone
<1>13. \A p \in DOMAIN u :
        /\ NewReading(p) => Begun(u, p, lw, e)
        /\ NewDone(p) => Ended_(u, p, e)
        /\ p # <<>> /\ ~Waiting(p, pb, FALSE) => u[Front(p)].start < u[p].start
        /\ p # <<>> /\ NewDone(p) /\ NewDone(Front(p)) => u[p].limit < u[Front(p)].limit
        /\ \A q \in DOMAIN u : Siblings(p, q) /\ NewDone(p) =>
               /\ NewDone(q) => Apart(u[p], u[q])
               /\ NewReading(q) => u[p].limit <= u[q].start
  BY <1>9, <1>10, <1>12
<1>14. Offsets(u, pb, lw, FALSE, e) BY <1>13 DEF Offsets, NewReading, NewDone
<1> QED BY <1>14 DEF pb, lw

\* Reading on changes nothing of where things lie.
LEMMA Stays ==
    ASSUME End \in Nat, NEW t, NEW pa, NEW lv, NEW w, NEW c \in Nat,
           Placing(t, pa, lv, w), Offsets(t, pa, lv, w, c), NEW e \in Nat, c <= e,
           NEW u, DOMAIN u = DOMAIN t, \A q \in DOMAIN u : SamePlace(t, u, q),
           NEW lw, Len(lw) = Len(lv), \A i \in 1..Len(lv) : lw[i].type = lv[i].type
    PROVE  Offsets(u, pa, lw, w, e)
<1>1. \A p : Reading(p, pa, lw) <=> Reading(p, pa, lv) BY DEF Reading
<1>2. \A p : Done(p, pa, lw, w) <=> Done(p, pa, lv, w) BY <1>1 DEF Done
<1>3. IsTree(t) /\ Len(lv) \in Nat BY LenIsNat DEF Placing
<1>4. \A p \in DOMAIN t : Len(p) \in Nat BY <1>3, LenIsNat DEF IsTree
<1>5. ASSUME NEW p \in DOMAIN u
      PROVE  /\ Reading(p, pa, lw) => Begun(u, p, lw, e)
             /\ Done(p, pa, lw, w) => Ended_(u, p, e)
  <2>1. SamePlace(t, u, p) /\ p \in DOMAIN t OBVIOUS
  <2>2. Reading(p, pa, lw) => Begun(t, p, lv, c) BY <1>1, <2>1 DEF Offsets
  <2>3. Done(p, pa, lw, w) => Ended_(t, p, c) BY <1>2, <2>1 DEF Offsets
  <2>4. Reading(p, pa, lw) => lw[Len(p) + 1].type = lv[Len(p) + 1].type
    <3> SUFFICES ASSUME Reading(p, pa, lw) PROVE lw[Len(p) + 1].type = lv[Len(p) + 1].type
      OBVIOUS
    <3>1. Len(p) + 1 \in 1..Len(lv) BY <1>3, <1>4, <2>1 DEF Reading
    <3> QED BY <3>1
  <2> QED BY <2>1, <2>2, <2>3, <2>4, SamePlaceBegun, SamePlaceEnded
<1>6. ASSUME NEW p \in DOMAIN u, p # <<>>, ~Waiting(p, pa, w)
      PROVE  /\ u[Front(p)].start < u[p].start
             /\ Done(p, pa, lw, w) /\ Done(Front(p), pa, lw, w) =>
                    u[p].limit < u[Front(p)].limit
  <2>1. p \in DOMAIN t /\ Front(p) \in DOMAIN t BY <1>3, <1>6, FrontFacts
  <2>2. SamePlace(t, u, p) /\ SamePlace(t, u, Front(p)) BY <2>1
  <2>3. t[Front(p)].start < t[p].start BY <1>6, <2>1 DEF Offsets
  <2>4. Done(p, pa, lw, w) /\ Done(Front(p), pa, lw, w) => t[p].limit < t[Front(p)].limit
    BY <1>2, <1>6, <2>1 DEF Offsets
  <2> QED BY <2>2, <2>3, <2>4 DEF SamePlace
<1>7. ASSUME NEW p \in DOMAIN u, NEW q \in DOMAIN u, Siblings(p, q), Done(p, pa, lw, w)
      PROVE  /\ Done(q, pa, lw, w) => Apart(u[p], u[q])
             /\ Reading(q, pa, lw) => u[p].limit <= u[q].start
  <2>1. SamePlace(t, u, p) /\ SamePlace(t, u, q) OBVIOUS
  <2>2. Done(p, pa, lv, w) BY <1>2, <1>7
  <2>3. /\ Done(q, pa, lv, w) => Apart(t[p], t[q])
        /\ Reading(q, pa, lv) => t[p].limit <= t[q].start
    BY <1>7, <2>2 DEF Offsets
  <2> QED BY <1>1, <1>2, <2>1, <2>3 DEF SamePlace, Apart
<1>8. \A p : Done(p, pa, lw, w) => ~Waiting(p, pa, w) BY DEF Done
<1> QED BY <1>5, <1>6, <1>7, <1>8 DEF Offsets

-----------------------------------------------------------------------------
\* Where tokens lie, and which characters are at their ends.

\* A non-empty set of naturals has a least element.
LEMMA LeastNatural ==
    ASSUME NEW A, A \subseteq Nat, A # {}
    PROVE  \E x \in A : \A y \in A : x <= y
<1> DEFINE R == {ss \in Nat \X Nat : ss[1] < ss[2]}
<1>1. IsWellFoundedOn(R, Nat) BY NatLessThanWellFounded DEF OpToRel
<1>2. PICK x \in A : \A y \in A : <<y, x>> \notin R
  <2> HIDE DEF R
  <2> QED BY <1>1, WFMin
<1>3. ASSUME NEW y \in A PROVE x <= y
  <2>1. <<y, x>> \in Nat \X Nat OBVIOUS
  <2>2. <<y, x>> \notin R BY <1>2
  <2>3. ~(y < x) BY <2>1, <2>2
  <2> QED BY <2>3
<1> QED BY <1>3

\* The first place of a set of them, or the end.
LEMMA FirstOf ==
    ASSUME End \in Nat, NEW i \in 0..End, NEW S, S \subseteq i..(End - 1)
    PROVE  /\ Min(S \cup {End}) \in i..End
           /\ Min(S \cup {End}) # End => Min(S \cup {End}) \in S
           /\ \A j \in i..(Min(S \cup {End}) - 1) : j \notin S
<1> DEFINE A == S \cup {End}
           m == Min(A)
<1>1. A \subseteq Nat /\ A # {} OBVIOUS
<1>2. \E x \in A : \A y \in A : x <= y
  <2> HIDE DEF A
  <2> QED BY <1>1, LeastNatural
<1>3. m \in A /\ \A y \in A : m <= y BY <1>2 DEF Min
<1> HIDE DEF m
<1>4. m \in i..End
  <2>1. m = End \/ m \in i..(End - 1) BY <1>3
  <2> QED BY <2>1
<1>5. m # End => m \in S BY <1>3
<1>6. \A j \in i..(m - 1) : j \notin S
  <2> SUFFICES ASSUME NEW j \in i..(m - 1), j \in S PROVE FALSE
    OBVIOUS
  <2>1. m <= j BY <1>3
  <2>2. m \in Int /\ j \in Int BY <1>4
  <2> QED BY <2>1, <2>2
<1> QED BY <1>4, <1>5, <1>6 DEF m

\* A character that is not NUL is one of the text's.
LEMMA CharIsThere ==
    ASSUME text \in Seq(STRING), NEW i \in Int, CharAt(i) # NUL
    PROVE  i \in 0..(End - 1) /\ CharAt(i) \in Range(text) /\ CharAt(i) = text[i + 1]
<1>1. i \in 0..(End - 1) /\ CharAt(i) = text[i + 1] BY DEF CharAt
<1>2. Len(text) \in Nat /\ DOMAIN text = 1..Len(text) BY LenProperties
<1>3. i + 1 \in DOMAIN text BY <1>1, <1>2 DEF End
<1> QED BY <1>1, <1>3 DEF Range

LEMMA SpacesSkipped ==
    ASSUME End \in Nat, NEW i \in 0..End
    PROVE  SkipSpaces(i) \in i..End
<1> DEFINE S == {j \in i..(End - 1) : CharAt(j) \notin Spaces}
<1>1. SkipSpaces(i) = Min(S \cup {End}) BY DEF SkipSpaces, FirstWhere
<1>2. S \subseteq i..(End - 1) OBVIOUS
<1> HIDE DEF S
<1>3. Min(S \cup {End}) \in i..End BY <1>2, FirstOf
<1> QED BY <1>1, <1>3

LEMMA DigitsEnd ==
    ASSUME End \in Nat, NEW i \in 0..End
    PROVE  /\ DigitsFrom(i) \in i..End
           /\ DigitsFrom(i) # i => CharAt(DigitsFrom(i) - 1) \in IsNum
<1> DEFINE S == {j \in i..(End - 1) : CharAt(j) \notin IsNum}
           m == Min(S \cup {End})
<1>1. DigitsFrom(i) = m BY DEF DigitsFrom, FirstWhere
<1>2. S \subseteq i..(End - 1) OBVIOUS
<1>3. \A j \in i..(End - 1) : j \notin S => CharAt(j) \in IsNum OBVIOUS
<1> HIDE DEF S
<1>4. m \in i..End /\ \A j \in i..(m - 1) : j \notin S BY <1>2, FirstOf
<1> HIDE DEF m
<1>5. ASSUME m # i PROVE CharAt(m - 1) \in IsNum
  <2>1. m - 1 \in i..(m - 1) /\ m - 1 \in i..(End - 1) BY <1>4, <1>5
  <2> QED BY <1>3, <1>4, <2>1
<1> QED BY <1>1, <1>4, <1>5

\* The characters that a number is written with.
Numeric == IsNum \cup {".", "e", "E", "+", "-"}

LEMMA NumberEnds ==
    ASSUME text \in Seq(STRING), End \in Nat, NEW i \in 1..End, CharAt(i - 1) \in Numeric
    PROVE  ReadNumber(i) \in i..End /\ CharAt(ReadNumber(i) - 1) \in Numeric
<1> DEFINE a == DigitsFrom(i)
           b == FractionFrom(a)
           d == ExponentFrom(b)
<1>0. NUL \notin Numeric BY DEF NUL, Numeric, IsNum
<1>1. a \in i..End /\ CharAt(a - 1) \in Numeric
  <2>1. i \in 0..End OBVIOUS
  <2>2. a \in i..End /\ (a # i => CharAt(a - 1) \in IsNum) BY <2>1, DigitsEnd
  <2> HIDE DEF a
  <2> QED BY <2>2 DEF Numeric
<1>2. b \in a..End /\ CharAt(b - 1) \in Numeric
  <2> HIDE DEF a
  <2>1. CASE CharAt(a) = "."
    <3>1. CharAt(a) # NUL BY <2>1 DEF NUL
    <3>2. a \in 0..(End - 1) BY <1>1, <3>1, CharIsThere
    <3>3. a + 1 \in 0..End /\ a \in Nat BY <3>2
    <3>4. b = DigitsFrom(a + 1) BY <2>1 DEF FractionFrom
    <3>5. b \in (a + 1)..End /\ (b # a + 1 => CharAt(b - 1) \in IsNum) BY <3>3, <3>4, DigitsEnd
    <3> HIDE DEF b
    <3>6. b = a + 1 => b - 1 = a BY <3>3
    <3>7. b \in a..End BY <3>3, <3>5
    <3> QED BY <2>1, <3>5, <3>6, <3>7 DEF Numeric
  <2>2. CASE CharAt(a) # "."
    <3>1. b = a BY <2>2 DEF FractionFrom
    <3>2. a \in a..End BY <1>1
    <3> QED BY <1>1, <3>1, <3>2
  <2> QED BY <2>1, <2>2
<1>3. d \in b..End /\ CharAt(d - 1) \in Numeric
  <2> HIDE DEF a, b
  <2>b. b \in Nat /\ b \in b..End BY <1>1, <1>2
  <2>1. CASE CharAt(b) \in {"e", "E"}
    <3> DEFINE f == IF CharAt(b + 1) \in {"+", "-"} THEN b + 2 ELSE b + 1
    <3>1. CharAt(b) # NUL BY <2>1 DEF NUL
    <3>2. b \in 0..(End - 1) BY <2>b, <3>1, CharIsThere
    <3>3. f \in (b + 1)..End /\ CharAt(f - 1) \in Numeric
      <4>1. CASE CharAt(b + 1) \in {"+", "-"}
        <5>1. CharAt(b + 1) # NUL BY <4>1 DEF NUL
        <5>2. b + 1 \in 0..(End - 1) BY <2>b, <5>1, CharIsThere
        <5>3. f = b + 2 /\ b + 2 \in (b + 1)..End /\ (b + 2) - 1 = b + 1 BY <2>b, <4>1, <5>2
        <5> HIDE DEF f
        <5> QED BY <4>1, <5>3 DEF Numeric
      <4>2. CASE CharAt(b + 1) \notin {"+", "-"}
        <5>1. f = b + 1 /\ b + 1 \in (b + 1)..End /\ (b + 1) - 1 = b BY <2>b, <3>2, <4>2
        <5> HIDE DEF f
        <5> QED BY <2>1, <5>1 DEF Numeric
      <4> QED BY <4>1, <4>2
    <3>4. d = DigitsFrom(f) BY <2>1 DEF ExponentFrom
    <3> HIDE DEF f, d
    <3>5. f \in 0..End BY <2>b, <3>3
    <3>6. d \in f..End /\ (d # f => CharAt(d - 1) \in IsNum) BY <3>4, <3>5, DigitsEnd
    <3>7. d \in b..End BY <2>b, <3>3, <3>6
    <3> QED BY <3>3, <3>6, <3>7 DEF Numeric
  <2>2. CASE CharAt(b) \notin {"e", "E"}
    <3>1. d = b BY <2>2 DEF ExponentFrom
    <3> QED BY <1>2, <2>b, <3>1
  <2> QED BY <2>1, <2>2
<1>4. ReadNumber(i) = d BY DEF ReadNumber
<1> HIDE DEF a, b, d
<1>5. d \in i..End BY <1>1, <1>2, <1>3
<1> QED BY <1>3, <1>4, <1>5

-----------------------------------------------------------------------------
LEMMA MinOfTwo ==
    ASSUME NEW a \in Nat, NEW b \in Nat
    PROVE  Min({a, b}) = IF a <= b THEN a ELSE b
<1> DEFINE m == IF a <= b THEN a ELSE b
<1>1. m \in {a, b} /\ \A y \in {a, b} : m <= y OBVIOUS
<1>2. Min({a, b}) \in {a, b} /\ \A y \in {a, b} : Min({a, b}) <= y
  <2>1. \E x \in {a, b} : \A y \in {a, b} : x <= y BY <1>1
  <2> QED BY <2>1 DEF Min
<1> QED BY <1>2

\* A word that begins with the character at s.
LEMMA MatchEnds ==
    ASSUME text \in Seq(STRING), End \in Nat, NEW s \in 0..(End - 1),
           NEW rest, Len(rest) \in Nat \ {0}, NEW type
    PROVE  \/ Match(s, type, rest) = Token("tokenError", s, s + 1)
           \/ /\ Match(s, type, rest) = Token(type, s, s + 1 + Len(rest))
              /\ s + 1 + Len(rest) <= End
              /\ CharAt(s + 1 + Len(rest) - 1) = rest[Len(rest)]
<1> DEFINE n == Len(rest)
           m == Min({s + 1 + n, End})
           w == SubSeq(text, s + 2, m)
<1>1. m \in (s + 1)..End /\ m <= s + 1 + n
  <2>1. s + 1 + n \in Nat /\ m = IF s + 1 + n <= End THEN s + 1 + n ELSE End BY MinOfTwo
  <2> QED BY <2>1
<1> HIDE DEF m
<1>2. /\ Len(w) = m - (s + 1)
      /\ \A i \in 1..(m - (s + 1)) : w[i] = text[s + 1 + i]
  <2> DEFINE a == s + 2
  <2>1. a \in Nat \ {0} /\ m \in Nat /\ a \in 1..(m + 1) BY <1>1
  <2>2. \A i \in a..m : i \in 1..Len(text) BY <1>1, <2>1 DEF End
  <2>3. \A i \in a..m : text[i] \in STRING BY <2>2, LenProperties
  <2>4. /\ Len(w) = IF a <= m THEN m - a + 1 ELSE 0
        /\ \A i \in 1..(m - a + 1) : w[i] = text[a + i - 1]
    <3> HIDE DEF a
    <3>1. /\ Len(SubSeq(text, a, m)) = IF a <= m THEN m - a + 1 ELSE 0
          /\ \A i \in 1..(m - a + 1) : SubSeq(text, a, m)[i] = text[a + i - 1]
      BY <2>1, <2>3, SubSeqProperties
    <3> QED BY <3>1 DEF a
  <2>5. m - a + 1 = m - (s + 1) /\ (~(a <= m) => m - (s + 1) = 0)
        /\ \A i \in 1..(m - (s + 1)) : a + i - 1 = s + 1 + i
    BY <1>1
  <2> HIDE DEF a, w
  <2> QED BY <2>4, <2>5
<1>3. Slice(s + 1, m) = w
  <2>1. s + 1 + 1 = s + 2 OBVIOUS
  <2> QED BY <2>1 DEF Slice
<1> HIDE DEF w
<1>4. CASE w = rest
  <2>1. m = s + 1 + n /\ n \in 1..(m - (s + 1)) BY <1>1, <1>2, <1>4
  <2>2. rest[n] = text[s + 1 + n] BY <1>2, <1>4, <2>1
  <2>3. s + n \in 0..(End - 1) /\ s + n + 1 = s + 1 + n /\ s + 1 + n - 1 = s + n
        /\ s + 1 + n <= End
    BY <1>1, <2>1
  <2>4. CharAt(s + n) = rest[n] BY <2>2, <2>3 DEF CharAt
  <2>5. Match(s, type, rest) = Token(type, s, s + 1 + n) BY <1>3, <1>4 DEF Match, m
  <2> QED BY <2>3, <2>4, <2>5
<1>5. CASE w # rest
  <2>1. Match(s, type, rest) = Token("tokenError", s, s + 1) BY <1>3, <1>5 DEF Match, m
  <2> QED BY <2>1
<1> QED BY <1>4, <1>5

\* A text in quotes.
LEMMA StringEnds ==
    ASSUME text \in Seq(STRING), End \in Nat, NEW s \in 0..(End - 1), NEW quote,
           NEW k, k = ReadString(s, ClosingQuote(s + 1, quote))
    PROVE  \/ k = Token("tokenError", s, End)
           \/ /\ k = Token("tokenString", s, k.end)
              /\ k.end \in (s + 2)..End /\ CharAt(k.end - 1) = quote
<1> DEFINE S == {j \in (s + 1)..(End - 1) :
                     CharAt(j) = quote /\ Backslashes(s + 1, j) % 2 = 0}
           m == Min(S \cup {End})
<1>1. ClosingQuote(s + 1, quote) = m BY DEF ClosingQuote, FirstWhere
<1>2. S \subseteq (s + 1)..(End - 1) /\ \A j \in S : CharAt(j) = quote OBVIOUS
<1>3. s + 1 \in 0..End OBVIOUS
<1> HIDE DEF S
<1>4. m \in (s + 1)..End /\ (m # End => m \in S) BY <1>2, <1>3, FirstOf
<1> HIDE DEF m
<1>5. CASE m = End BY <1>1, <1>5 DEF ReadString
<1>6. CASE m # End
  <2>1. k = Token("tokenString", s, m + 1) BY <1>1, <1>6 DEF ReadString
  <2>2. k.end = m + 1 BY <2>1 DEF Token
  <2>3. m + 1 \in (s + 2)..End /\ m + 1 - 1 = m BY <1>4, <1>6
  <2> QED BY <1>2, <1>4, <1>6, <2>1, <2>2, <2>3
<1> QED BY <1>5, <1>6

\* A comment, or what is taken for the start of one.
LEMMA CommentEnds ==
    ASSUME text \in Seq(STRING), End \in Nat, NEW s \in 0..(End - 1),
           NEW k, k = ReadComment(s)
    PROVE  /\ k = Token(k.type, s, k.end) /\ k.type \in {"tokenComment", "tokenError"}
           /\ k.end \in (s + 1)..End
<1>0. s + 1 \in Int /\ s + 2 \in Int OBVIOUS
<1>1. CASE CharAt(s + 1) = "*"
  <2> DEFINE S == {j \in (s + 2)..(End - 1) : CharAt(j) = "*" /\ CharAt(j + 1) = "/"}
             m == Min(S \cup {End})
  <2>1. k = ReadCStyleComment(s, m) BY <1>1 DEF ReadComment, FirstWhere
  <2>2. S \subseteq (s + 2)..(End - 1) /\ \A j \in S : CharAt(j + 1) = "/" OBVIOUS
  <2>3. s + 1 \in 0..(End - 1) BY <1>0, <1>1, CharIsThere DEF NUL
  <2>4. s + 2 \in 0..End BY <2>3
  <2> HIDE DEF S
  <2>5. m \in (s + 2)..End /\ (m # End => m \in S) BY <2>2, <2>4, FirstOf
  <2> HIDE DEF m
  <2>6. CASE m = End
    <3>1. k = Token("tokenError", s, End) BY <2>1, <2>6 DEF ReadCStyleComment
    <3> QED BY <3>1 DEF Token
  <2>7. CASE m # End
    <3>1. k = Token("tokenComment", s, m + 2) BY <2>1, <2>7 DEF ReadCStyleComment
    <3>2. CharAt(m + 1) = "/" /\ m + 1 \in Int BY <2>2, <2>5, <2>7
    <3>3. m + 1 \in 0..(End - 1) BY <3>2, CharIsThere DEF NUL
    <3>4. m + 2 \in (s + 1)..End BY <2>5, <3>3
    <3> QED BY <3>1, <3>4 DEF Token
  <2> QED BY <2>6, <2>7
<1>2. CASE CharAt(s + 1) = "/"
  <2> DEFINE S == {j \in (s + 2)..(End - 1) : CharAt(j) \in {"\r", "\n"}}
             m == Min(S \cup {End})
  <2>1. k = ReadCppStyleComment(s, m) BY <1>2 DEF ReadComment, FirstWhere
  <2>2. S \subseteq (s + 2)..(End - 1) OBVIOUS
  <2>3. s + 1 \in 0..(End - 1) BY <1>0, <1>2, CharIsThere DEF NUL
  <2>4. s + 2 \in 0..End BY <2>3
  <2> HIDE DEF S
  <2>5. m \in (s + 2)..End BY <2>2, <2>4, FirstOf
  <2> HIDE DEF m
  <2> DEFINE e == IF m = End THEN End
                  ELSE IF CharAt(m) = "\r" /\ CharAt(m + 1) = "\n" THEN m + 2 ELSE m + 1
  <2>6. k = Token("tokenComment", s, e) BY <2>1 DEF ReadCppStyleComment
  <2>7. e \in (s + 1)..End
    <3>1. CASE m = End BY <2>5, <3>1
    <3>2. CASE m # End /\ CharAt(m) = "\r" /\ CharAt(m + 1) = "\n"
      <4>1. m + 1 \in Int BY <2>5
      <4>2. m + 1 \in 0..(End - 1) BY <3>2, <4>1, CharIsThere DEF NUL
      <4>3. m + 2 \in (s + 1)..End BY <2>5, <4>2
      <4> QED BY <3>2, <4>3
    <3>3. CASE m # End /\ ~(CharAt(m) = "\r" /\ CharAt(m + 1) = "\n")
      <4>1. m + 1 \in (s + 1)..End BY <2>5, <3>3
      <4> QED BY <3>3, <4>1
    <3> QED BY <3>1, <3>2, <3>3
  <2> HIDE DEF e
  <2> QED BY <2>6, <2>7 DEF Token
<1>3. CASE CharAt(s + 1) \notin {"*", "/"}
  <2> DEFINE e == Min({s + 2, End})
  <2>1. e = IF s + 2 <= End THEN s + 2 ELSE End BY MinOfTwo
  <2>2. e \in (s + 1)..End BY <2>1
  <2>3. k = Token("tokenError", s, e) BY <1>3 DEF ReadComment
  <2> HIDE DEF e
  <2> QED BY <2>2, <2>3 DEF Token
<1> QED BY <1>1, <1>2, <1>3

-----------------------------------------------------------------------------
\* A character that a scalar may begin or end with.
Solid(i) == CharAt(i) \in Range(text) \ (DOMAIN Punctuation \cup Spaces)

\* What is known of a token that is read from c on.
TokenAt(k, c) ==
    /\ k.start \in c..End /\ k.end \in k.start..End
    /\ k.type # "tokenEndOfStream" => k.start < k.end
    /\ k.type \in Scalars => Solid(k.start) /\ Solid(k.end - 1)
    /\ k.type = "tokenObjectBegin" => k.end = k.start + 1 /\ CharAt(k.start) = "{"
    /\ k.type = "tokenArrayBegin" => k.end = k.start + 1 /\ CharAt(k.start) = "["
    /\ k.type = "tokenObjectEnd" => CharAt(k.end - 1) = "}"
    /\ k.type = "tokenArrayEnd" => CharAt(k.end - 1) = "]"

LEMMA IsSolid ==
    ASSUME text \in Seq(STRING), NEW i \in Int,
           CharAt(i) \in Numeric \cup Quotes \cup {"-", "t", "f", "n", "l"}
    PROVE  Solid(i)
<1>1. CharAt(i) # NUL BY DEF Numeric, IsNum, Quotes, NUL
<1>2. CharAt(i) \in Range(text) BY <1>1, CharIsThere
<1>3. CharAt(i) \notin {"{", "}", "[", "]", ",", ":"} BY DEF Numeric, IsNum, Quotes
<1>4. CharAt(i) \notin Spaces BY DEF Numeric, IsNum, Quotes, Spaces
<1> QED BY <1>2, <1>3, <1>4 DEF Solid, Punctuation

\* A word.
Word(rest) == Len(rest) \in Nat \ {0} /\ rest[Len(rest)] \in {"e", "l"}
LEMMA Words ==
    Word(<<"r", "u", "e">>) /\ Word(<<"a", "l", "s", "e">>) /\ Word(<<"u", "l", "l">>)
<1>1. Word(<<"r", "u", "e">>)
  <2>2. Len(<<"r", "u", "e">>) = 3 OBVIOUS
  <2>3. <<"r", "u", "e">>[3] = "e" OBVIOUS
  <2> QED BY <2>2, <2>3 DEF Word
<1>2. Word(<<"a", "l", "s", "e">>)
  <2>2. Len(<<"a", "l", "s", "e">>) = 4 OBVIOUS
  <2>3. <<"a", "l", "s", "e">>[4] = "e" OBVIOUS
  <2> QED BY <2>2, <2>3 DEF Word
<1>3. Word(<<"u", "l", "l">>)
  <2>2. Len(<<"u", "l", "l">>) = 3 OBVIOUS
  <2>3. <<"u", "l", "l">>[3] = "l" OBVIOUS
  <2> QED BY <2>2, <2>3 DEF Word
<1> QED BY <1>1, <1>2, <1>3

LEMMA WordEnds ==
    ASSUME text \in Seq(STRING), End \in Nat, NEW s \in 0..(End - 1), Solid(s),
           NEW rest, Word(rest), NEW type \in Scalars
    PROVE  TokenAt(Match(s, type, rest), s)
<1>0. Len(rest) \in Nat \ {0} /\ rest[Len(rest)] \in {"e", "l"}
  BY DEF Word
<1>1. CASE Match(s, type, rest) = Token("tokenError", s, s + 1)
  <2>1. s + 1 \in s..End /\ s \in s..End OBVIOUS
  <2> QED BY <1>1, <2>1 DEF TokenAt, Token, Scalars
<1>2. CASE /\ Match(s, type, rest) = Token(type, s, s + 1 + Len(rest))
           /\ s + 1 + Len(rest) <= End
           /\ CharAt(s + 1 + Len(rest) - 1) = rest[Len(rest)]
  <2> DEFINE e == s + 1 + Len(rest)
  <2>1. e \in s..End /\ s < e /\ e - 1 \in Int /\ s \in s..End BY <1>0, <1>2
  <2>2. Match(s, type, rest) = Token(type, s, e) /\ CharAt(e - 1) \in {"e", "l"} BY <1>0, <1>2
  <2> HIDE DEF e
  <2>3. Solid(e - 1)
    <3>1. CharAt(e - 1) \in Numeric \cup Quotes \cup {"-", "t", "f", "n", "l"}
      BY <2>2 DEF Numeric
    <3> QED BY <2>1, <3>1, IsSolid
  <2> DEFINE k == Match(s, type, rest)
  <2>4. k.type = type /\ k.start = s /\ k.end = e BY <2>2 DEF Token
  <2> HIDE DEF k
  <2>5. TokenAt(k, s) BY <2>1, <2>3, <2>4 DEF TokenAt, Scalars
  <2> QED BY <2>5 DEF k
<1> QED BY <1>0, <1>1, <1>2, MatchEnds

LEMMA TokenRead ==
    ASSUME text \in Seq(STRING), End \in Nat, NEW s \in 0..End
    PROVE  TokenAt(ReadFrom[s], s)
<1> DEFINE k == ReadFrom[s]
           ch == CharAt(s)
<1>0. /\ s \in Nat /\ s \in s..End
      /\ s # End => s \in 0..(End - 1) /\ s + 1 \in s..End /\ s < s + 1
  OBVIOUS
<1>k. /\ Quotes \subseteq {"\"", "'"} /\ "/" \notin Quotes
      /\ {"\"", "'", "/", "t", "f", "n"} \cap (IsNum \cup {"-"}) = {}
      /\ {"\"", "'", "/", "t", "f", "n", NUL} \cap DOMAIN Punctuation = {}
      /\ (IsNum \cup {"-"}) \cap DOMAIN Punctuation = {}
      /\ NUL \notin IsNum \cup {"\"", "'", "/", "t", "f", "n", "-"}
  BY DEF Quotes, IsNum, Punctuation, NUL
<1>e. s = End => CharAt(s) = NUL BY DEF CharAt
<1>1. CASE s = End
  <2>1. k = Token("tokenEndOfStream", s, s) BY <1>0, <1>e, <1>k, <1>1 DEF ReadFrom
  <2> HIDE DEF k
  <2>2. TokenAt(k, s) BY <1>0, <2>1 DEF TokenAt, Token, Scalars
  <2> QED BY <2>2 DEF k
<1>2. CASE s # End /\ ch = NUL
  <2>1. k = Token("tokenEndOfStream", s, s + 1) BY <1>0, <1>k, <1>2 DEF ReadFrom
  <2> HIDE DEF k
  <2>2. TokenAt(k, s) BY <1>0, <1>2, <2>1 DEF TokenAt, Token, Scalars
  <2> QED BY <2>2 DEF k
<1>3. CASE s # End /\ ch # NUL /\ ch \in DOMAIN Punctuation
  <2>1. k = Token(Punctuation[ch], s, s + 1) BY <1>0, <1>k, <1>3 DEF ReadFrom
  <2>2. ch \in {"{", "}", "[", "]", ",", ":"} BY <1>3 DEF Punctuation
  <2>3. /\ Punctuation[ch] \notin Scalars \cup {"tokenEndOfStream"}
        /\ Punctuation[ch] = "tokenObjectBegin" => ch = "{"
        /\ Punctuation[ch] = "tokenArrayBegin" => ch = "["
        /\ Punctuation[ch] = "tokenObjectEnd" => ch = "}"
        /\ Punctuation[ch] = "tokenArrayEnd" => ch = "]"
    <3> HIDE DEF ch
    <3> QED BY <2>2 DEF Punctuation, Scalars
  <2>4. s + 1 - 1 = s OBVIOUS
  <2> HIDE DEF k
  <2>5. k.type = Punctuation[ch] /\ k.start = s /\ k.end = s + 1 /\ CharAt(s) = ch
    BY <2>1 DEF Token
  <2> HIDE DEF ch
  <2>6. k.start \in s..End /\ k.end \in k.start..End /\ k.start < k.end BY <1>0, <1>3, <2>5
  <2>7. k.end = k.start + 1 /\ CharAt(k.start) = ch /\ CharAt(k.end - 1) = ch BY <2>4, <2>5
  <2>8. TokenAt(k, s) BY <2>3, <2>5, <2>6, <2>7 DEF TokenAt
  <2> QED BY <2>8 DEF k
<1> DEFINE Text == s # End /\ ch # NUL /\ ch \notin DOMAIN Punctuation
<1>4. CASE Text /\ ch \in Quotes
  <2>1. k = ReadString(s, ClosingQuote(s + 1, ch)) BY <1>0, <1>k, <1>4 DEF ReadFrom
  <2> HIDE DEF k
  <2>2. \/ k = Token("tokenError", s, End)
        \/ /\ k = Token("tokenString", s, k.end)
           /\ k.end \in (s + 2)..End /\ CharAt(k.end - 1) = ch
    BY <1>0, <1>4, <2>1, StringEnds
  <2>3. CASE k = Token("tokenError", s, End)
    <3>1. End \in s..End /\ s < End BY <1>0, <1>4
    <3>2. TokenAt(k, s) BY <1>0, <2>3, <3>1 DEF TokenAt, Token, Scalars
    <3> QED BY <3>2 DEF k
  <2>4. CASE /\ k = Token("tokenString", s, k.end)
             /\ k.end \in (s + 2)..End /\ CharAt(k.end - 1) = ch
    <3>1. k.end \in s..End /\ s < k.end /\ k.end - 1 \in Int /\ s \in Int BY <1>0, <2>4
    <3>2. Solid(s) /\ Solid(k.end - 1)
      <4>1. CharAt(s) \in Numeric \cup Quotes \cup {"-", "t", "f", "n", "l"}
            /\ CharAt(k.end - 1) \in Numeric \cup Quotes \cup {"-", "t", "f", "n", "l"}
        BY <1>4, <2>4
      <4> QED BY <3>1, <4>1, IsSolid
    <3>3. k.type = "tokenString" /\ k.start = s BY <2>4 DEF Token
    <3>4. TokenAt(k, s) BY <1>0, <3>1, <3>2, <3>3 DEF TokenAt
    <3> QED BY <3>4 DEF k
  <2> QED BY <2>2, <2>3, <2>4
<1>5. CASE Text /\ ch \notin Quotes /\ ch \in {"/", "'"} \ Quotes
  <2>1. k = ReadComment(s) BY <1>0, <1>k, <1>5 DEF ReadFrom
  <2> HIDE DEF k
  <2>2. /\ k = Token(k.type, s, k.end) /\ k.type \in {"tokenComment", "tokenError"}
        /\ k.end \in (s + 1)..End
    BY <1>0, <1>5, <2>1, CommentEnds
  <2>3. k.start = s BY <2>2 DEF Token
  <2>4. k.end \in s..End /\ s < k.end BY <1>0, <2>2
  <2>5. TokenAt(k, s) BY <1>0, <2>2, <2>3, <2>4 DEF TokenAt, Scalars
  <2> QED BY <2>5 DEF k
<1>6. CASE Text /\ ch \notin Quotes \cup {"/", "'"} /\ ch \in IsNum \cup {"-"}
  <2>1. k = Token("tokenNumber", s, ReadNumber(s + 1)) BY <1>0, <1>k, <1>6 DEF ReadFrom
  <2> DEFINE e == ReadNumber(s + 1)
  <2>2. s + 1 \in 1..End /\ s + 1 - 1 = s /\ s \in Int BY <1>0, <1>6
  <2>3. CharAt(s + 1 - 1) \in Numeric BY <1>6, <2>2 DEF Numeric
  <2>4. e \in (s + 1)..End /\ CharAt(e - 1) \in Numeric BY <2>2, <2>3, NumberEnds
  <2> HIDE DEF e
  <2>5. e \in s..End /\ s < e /\ e - 1 \in Int BY <1>0, <2>4
  <2>6. Solid(s) /\ Solid(e - 1) BY <2>2, <2>3, <2>4, <2>5, IsSolid
  <2> HIDE DEF k
  <2>7. k.type = "tokenNumber" /\ k.start = s /\ k.end = e BY <2>1 DEF Token, e
  <2>8. TokenAt(k, s) BY <1>0, <2>5, <2>6, <2>7 DEF TokenAt
  <2> QED BY <2>8 DEF k
<1> DEFINE Letter == Text /\ ch \notin Quotes \cup {"/", "'", "-"} \cup IsNum
<1>7. CASE Letter /\ ch \in {"t", "f", "n"}
  <2>1. s \in 0..(End - 1) /\ s \in Int BY <1>0, <1>7
  <2>2. Solid(s) BY <1>7, <2>1, IsSolid
  <2>3. CASE ch = "t"
    <3>1. k = Match(s, "tokenTrue", <<"r", "u", "e">>) BY <1>0, <1>7, <1>k, <2>3 DEF ReadFrom
    <3>3. "tokenTrue" \in Scalars BY DEF Scalars
    <3> HIDE DEF k
    <3>4. TokenAt(k, s) BY <2>1, <2>2, <3>1, <3>3, Words, WordEnds
    <3> QED BY <3>4 DEF k
  <2>4. CASE ch = "f"
    <3>1. k = Match(s, "tokenFalse", <<"a", "l", "s", "e">>)
      BY <1>0, <1>7, <1>k, <2>4 DEF ReadFrom
    <3>3. "tokenFalse" \in Scalars BY DEF Scalars
    <3> HIDE DEF k
    <3>4. TokenAt(k, s) BY <2>1, <2>2, <3>1, <3>3, Words, WordEnds
    <3> QED BY <3>4 DEF k
  <2>5. CASE ch = "n"
    <3>1. k = Match(s, "tokenNull", <<"u", "l", "l">>) BY <1>0, <1>7, <1>k, <2>5 DEF ReadFrom
    <3>3. "tokenNull" \in Scalars BY DEF Scalars
    <3> HIDE DEF k
    <3>4. TokenAt(k, s) BY <2>1, <2>2, <3>1, <3>3, Words, WordEnds
    <3> QED BY <3>4 DEF k
  <2> QED BY <1>7, <2>3, <2>4, <2>5
<1>8. CASE Letter /\ ch \notin {"t", "f", "n"}
  <2>1. k = Token("tokenError", s, s + 1) BY <1>0, <1>k, <1>8 DEF ReadFrom
  <2> HIDE DEF k
  <2>2. TokenAt(k, s) BY <1>0, <1>8, <2>1 DEF TokenAt, Token, Scalars
  <2> QED BY <2>2 DEF k
<1> QED BY <1>1, <1>2, <1>3, <1>4, <1>5, <1>6, <1>7, <1>8

\* The token that is read at c.
LEMMA TokenFound ==
    ASSUME text \in Seq(STRING), NEW c \in 0..End
    PROVE  TokenAt(ReadToken(c), c) /\ End \in Nat
<1>1. End \in Nat BY LenProperties DEF End
<1> DEFINE s == SkipSpaces(c)
<1>2. s \in c..End BY <1>1, SpacesSkipped
<1> HIDE DEF s
<1>3. s \in 0..End BY <1>1, <1>2
<1>4. TokenAt(ReadFrom[s], s) BY <1>1, <1>3, TokenRead
<1>5. ReadToken(c) = ReadFrom[s] BY DEF ReadToken, s
<1> DEFINE k == ReadToken(c)
<1>6. TokenAt(k, s) BY <1>4, <1>5
<1> HIDE DEF k
<1>7. k.start \in c..End
  <2>1. k.start \in s..End BY <1>6 DEF TokenAt
  <2> QED BY <1>1, <1>2, <2>1
<1>8. TokenAt(k, c) BY <1>6, <1>7 DEF TokenAt
<1> QED BY <1>1, <1>8 DEF k

-----------------------------------------------------------------------------
\* What the operations on trees change.

LEMMA Commented ==
    ASSUME NEW t, IsTree(t), NEW p, NEW comment, NEW placement,
           NEW u, u = SetComment(t, p, comment, placement)
    PROVE  /\ IsTree(u) /\ DOMAIN u = DOMAIN t
           /\ \A q \in DOMAIN u : SamePlace(t, u, q)
           /\ \A q \in DOMAIN u : q # p => u[q] = t[q]
           /\ \A q \in DOMAIN u, o \in Placements :
                  u[q].comments[o] = IF q = p /\ o = placement THEN Trimmed(comment)
                                                               ELSE t[q].comments[o]
<1>1. /\ DOMAIN u = DOMAIN t
      /\ \A q \in DOMAIN u : q # p => u[q] = t[q]
      /\ p \in DOMAIN u =>
             u[p] = [t[p] EXCEPT !.comments =
                        [t[p].comments EXCEPT ![placement] = Trimmed(comment)]]
  BY DEF SetComment
<1>2. \A q \in DOMAIN t : DOMAIN t[q] = Fields /\ DOMAIN t[q].comments = Placements
  BY DEF IsTree
<1>3. p \in DOMAIN u =>
         /\ DOMAIN u[p] = Fields
         /\ u[p].type = t[p].type /\ u[p].start = t[p].start /\ u[p].limit = t[p].limit
         /\ u[p].comments = [t[p].comments EXCEPT ![placement] = Trimmed(comment)]
  BY <1>1, <1>2 DEF Fields
<1>4. p \in DOMAIN u =>
         /\ DOMAIN u[p].comments = Placements
         /\ \A o \in Placements :
                u[p].comments[o] = IF o = placement THEN Trimmed(comment) ELSE t[p].comments[o]
  BY <1>1, <1>2, <1>3
<1>5. \A q \in DOMAIN u : DOMAIN u[q] = Fields /\ DOMAIN u[q].comments = Placements
  BY <1>1, <1>2, <1>3, <1>4
<1>6. \A q \in DOMAIN u : SamePlace(t, u, q) BY <1>1, <1>3 DEF SamePlace
<1>7. IsTree(u) BY <1>1, <1>5 DEF IsTree
<1>8. \A q \in DOMAIN u, o \in Placements :
          u[q].comments[o] = IF q = p /\ o = placement THEN Trimmed(comment)
                                                       ELSE t[q].comments[o]
  BY <1>1, <1>4
<1> QED BY <1>1, <1>6, <1>7, <1>8

LEMMA StartSet ==
    ASSUME NEW t, IsTree(t), NEW p \in DOMAIN t, NEW o, NEW u, u = SetOffsetStart(t, p, o)
    PROVE  /\ IsTree(u) /\ DOMAIN u = DOMAIN t
           /\ \A q \in DOMAIN u : q # p => u[q] = t[q]
           /\ u[p].type = t[p].type /\ u[p].start = o /\ u[p].limit = t[p].limit
           /\ u[p].comments = t[p].comments
<1>1. /\ DOMAIN u = DOMAIN t
      /\ \A q \in DOMAIN u : q # p => u[q] = t[q]
      /\ u[p] = [t[p] EXCEPT !.start = o]
  BY DEF SetOffsetStart
<1>2. DOMAIN t[p] = Fields BY DEF IsTree
<1>3. /\ DOMAIN u[p] = Fields
      /\ u[p].type = t[p].type /\ u[p].start = o /\ u[p].limit = t[p].limit
      /\ u[p].comments = t[p].comments
  BY <1>1, <1>2 DEF Fields
<1>4. IsTree(u) BY <1>1, <1>3 DEF IsTree
<1> QED BY <1>1, <1>3, <1>4

LEMMA LimitSet ==
    ASSUME NEW t, IsTree(t), NEW p \in DOMAIN t, NEW o, NEW u, u = SetOffsetLimit(t, p, o)
    PROVE  /\ IsTree(u) /\ DOMAIN u = DOMAIN t
           /\ \A q \in DOMAIN u : q # p => u[q] = t[q]
           /\ u[p].type = t[p].type /\ u[p].start = t[p].start /\ u[p].limit = o
           /\ u[p].comments = t[p].comments
<1>1. /\ DOMAIN u = DOMAIN t
      /\ \A q \in DOMAIN u : q # p => u[q] = t[q]
      /\ u[p] = [t[p] EXCEPT !.limit = o]
  BY DEF SetOffsetLimit
<1>2. DOMAIN t[p] = Fields BY DEF IsTree
<1>3. /\ DOMAIN u[p] = Fields
      /\ u[p].type = t[p].type /\ u[p].start = t[p].start /\ u[p].limit = o
      /\ u[p].comments = t[p].comments
  BY <1>1, <1>2 DEF Fields
<1>4. IsTree(u) BY <1>1, <1>3 DEF IsTree
<1> QED BY <1>1, <1>3, <1>4

\* The members that an older value had go with it.
LEMMA Swapped ==
    ASSUME NEW t, IsTree(t), NEW p \in DOMAIN t, NEW node, NEW u, u = SwapPayload(t, p, node)
    PROVE  /\ IsTree(u) /\ p \in DOMAIN u
           /\ \A q : (q \in DOMAIN u) <=> (q \in DOMAIN t /\ ~IsStrictPrefix(p, q))
           /\ \A q \in DOMAIN u : q # p => u[q] = t[q]
           /\ u[p].type = node.type /\ u[p].comments = t[p].comments
<1>0. IsSeq(p) /\ IsPrefix(p, p) BY PrefixOfItself DEF IsTree
<1>1. DOMAIN u = {q \in DOMAIN t : ~IsStrictPrefix(p, q)} BY DEF SwapPayload
<1>2. p \in DOMAIN u BY <1>1 DEF IsStrictPrefix
<1>3. /\ \A q \in DOMAIN u : q # p => u[q] = t[q]
      /\ u[p] = [t[p] EXCEPT !.type = node.type, !.int = node.int, !.exp = node.exp,
                             !.text = node.text]
  BY <1>1, <1>2 DEF SwapPayload
<1>4. DOMAIN t[p] = Fields BY DEF IsTree
<1>5. DOMAIN u[p] = Fields /\ u[p].type = node.type /\ u[p].comments = t[p].comments
  BY <1>3, <1>4 DEF Fields
<1>6. \A q \in DOMAIN u : DOMAIN u[q] = Fields /\ DOMAIN u[q].comments = Placements
  <2>1. \A q \in DOMAIN t : DOMAIN t[q] = Fields /\ DOMAIN t[q].comments = Placements
    BY DEF IsTree
  <2> QED BY <1>1, <1>3, <1>5, <2>1
<1>7. ASSUME NEW q \in DOMAIN u PROVE IsSeq(q) /\ (q # <<>> => Front(q) \in DOMAIN u)
  <2>1. q \in DOMAIN t /\ IsSeq(q) /\ (q # <<>> => Front(q) \in DOMAIN t)
    BY <1>1 DEF IsTree
  <2>2. ASSUME q # <<>> PROVE Front(q) \in DOMAIN u
    <3>1. IsSeq(Front(q)) /\ IsPrefix(Front(q), q) /\ Front(q) \in DOMAIN t
      BY <2>1, <2>2, FrontIsPrefix
    <3>2. ASSUME IsStrictPrefix(p, Front(q)) PROVE FALSE
      <4>1. IsPrefix(p, Front(q)) /\ p # Front(q) BY <3>2 DEF IsStrictPrefix
      <4>2. IsPrefix(p, q) BY <1>0, <2>1, <3>1, <4>1, PrefixOfPrefix
      <4>3. p = q BY <1>1, <4>2 DEF IsStrictPrefix
      <4>4. p = Front(q) BY <1>0, <3>1, <4>1, <4>3, StrictPrefix, WholePrefix, PrefixAt
      <4> QED BY <4>1, <4>4
    <3> QED BY <1>1, <3>1, <3>2
  <2> QED BY <2>1, <2>2
<1>8. IsTree(u) BY <1>6, <1>7 DEF IsTree
<1> QED BY <1>1, <1>2, <1>3, <1>5, <1>8

LEMMA NullNode == DOMAIN Null = Fields /\ DOMAIN Null.comments = Placements
                  /\ Null.comments = NoComments
BY DEF Null, Value, Fields, NoComments

LEMMA ResolvedTree ==
    ASSUME NEW t, IsTree(t), NEW p \in DOMAIN t, NEW step,
           NEW u, u = Resolved(t, Append(p, step))
    PROVE  /\ IsTree(u) /\ DOMAIN u = DOMAIN t \cup {Append(p, step)}
           /\ \A q \in DOMAIN t : u[q] = t[q]
           /\ Append(p, step) \notin DOMAIN t => u[Append(p, step)] = Null
<1> DEFINE pb == Append(p, step)
<1>0. IsSeq(p) BY DEF IsTree
<1>1. IsSeq(pb) /\ Front(pb) = p BY <1>0, AppendAt
<1>2. /\ DOMAIN u = DOMAIN t \cup {pb}
      /\ \A q \in DOMAIN t : u[q] = t[q]
      /\ pb \notin DOMAIN t => u[pb] = Null
  BY DEF Resolved
<1> HIDE DEF pb
<1>3. \A q \in DOMAIN u : DOMAIN u[q] = Fields /\ DOMAIN u[q].comments = Placements
  BY <1>2, NullNode DEF IsTree
<1>4. \A q \in DOMAIN u : IsSeq(q) /\ (q # <<>> => Front(q) \in DOMAIN u)
  BY <1>1, <1>2 DEF IsTree
<1>5. IsTree(u) BY <1>3, <1>4 DEF IsTree
<1> QED BY <1>2, <1>5 DEF pb

-----------------------------------------------------------------------------
\* The containers that are open.

IsLevel(l) == /\ DOMAIN l = {"type", "name", "at", "index"}
              /\ l.type \in Containers /\ l.index \in Nat
AreLevels(lv) == IsSeq(lv) /\ \A i \in 1..Len(lv) : IsLevel(lv[i])

LEMMA LevelAdded ==
    ASSUME NEW lv, AreLevels(lv), NEW l, IsLevel(l)
    PROVE  AreLevels(Append(lv, l))
<1>1. IsSeq(lv) /\ \A i \in 1..Len(lv) : IsLevel(lv[i]) BY DEF AreLevels
<1> DEFINE lw == Append(lv, l)
<1>2. /\ IsSeq(lw) /\ Len(lw) = Len(lv) + 1 /\ Len(lv) \in Nat
      /\ \A i \in 1..Len(lv) : lw[i] = lv[i]
      /\ lw[Len(lv) + 1] = l
  BY <1>1, AppendAt
<1> HIDE DEF lw
<1>3. \A i \in 1..Len(lw) : i \in 1..Len(lv) \/ i = Len(lv) + 1 BY <1>2
<1>4. \A i \in 1..Len(lw) : IsLevel(lw[i]) BY <1>1, <1>2, <1>3
<1> QED BY <1>2, <1>4 DEF AreLevels, lw

LEMMA LevelPopped ==
    ASSUME NEW lv, AreLevels(lv), lv # <<>>
    PROVE  /\ AreLevels(Front(lv)) /\ Len(Front(lv)) = Len(lv) - 1
           /\ Len(lv) \in Nat \ {0} /\ IsLevel(lv[Len(lv)])
<1>1. IsSeq(lv) /\ \A i \in 1..Len(lv) : IsLevel(lv[i]) BY DEF AreLevels
<1> DEFINE lw == Front(lv)
<1>2. /\ IsSeq(lw) /\ Len(lw) = Len(lv) - 1 /\ Len(lv) \in Nat \ {0}
      /\ \A i \in 1..(Len(lv) - 1) : lw[i] = lv[i]
  BY <1>1, FrontIsPrefix
<1> HIDE DEF lw
<1>3. Len(lv) \in 1..Len(lv) /\ \A i \in 1..Len(lw) : i \in 1..Len(lv) /\ i \in 1..(Len(lv) - 1)
  BY <1>2
<1>4. \A i \in 1..Len(lw) : IsLevel(lw[i]) BY <1>1, <1>2, <1>3
<1> QED BY <1>1, <1>2, <1>3, <1>4 DEF AreLevels, lw

LEMMA LevelChanged ==
    ASSUME NEW lv, AreLevels(lv), lv # <<>>, NEW l, IsLevel(l), NEW lw, lw = Front(lv) \o <<l>>
    PROVE  /\ AreLevels(lw) /\ Len(lw) = Len(lv) /\ lw # <<>> /\ Len(lv) \in Nat \ {0}
           /\ \A i \in 1..(Len(lv) - 1) : lw[i] = lv[i]
           /\ lw[Len(lv)] = l
<1> DEFINE f == Front(lv)
           n == Len(lv) - 1
<1>1. IsSeq(lv) /\ \A i \in 1..Len(lv) : IsLevel(lv[i]) BY DEF AreLevels
<1>2. /\ IsSeq(f) /\ Len(f) = n /\ Len(lv) \in Nat \ {0}
      /\ \A i \in 1..n : f[i] = lv[i]
  BY <1>1, FrontIsPrefix
<1>3. n \in Nat /\ n + 1 = Len(lv) BY <1>2
<1> HIDE DEF f, n
<1>4. IsSeq(<<l>>) /\ Len(<<l>>) = 1 /\ <<l>>[1] = l
  <2>1. <<l>> \in Seq({l}) OBVIOUS
  <2> QED BY <2>1, AnySeq
<1>5. lw # <<>> /\ IsSeq(lw) /\ Len(lw) = Len(lv) BY <1>1, Replaced DEF f
<1>6. /\ \A i \in 1..n : lw[i] = f[i]
      /\ lw[n + 1] = l
  <2> DEFINE S == Range(f) \cup {l}
  <2>1. f \in Seq(S) /\ <<l>> \in Seq(S) BY <1>2, SeqMonotonic DEF IsSeq
  <2> HIDE DEF S
  <2>2. \A i \in 1..(Len(f) + Len(<<l>>)) :
            (f \o <<l>>)[i] = IF i <= Len(f) THEN f[i] ELSE <<l>>[i - Len(f)]
    BY <2>1, ConcatProperties
  <2>3. Len(f) + Len(<<l>>) = n + 1 BY <1>2, <1>4
  <2>4. n + 1 \in 1..(n + 1) /\ ~(n + 1 <= n) /\ (n + 1) - n = 1
        /\ \A i \in 1..n : i \in 1..(n + 1) /\ i <= n
    BY <1>3
  <2>5. \A i \in 1..n : (f \o <<l>>)[i] = f[i] BY <1>2, <2>2, <2>3, <2>4
  <2>6. (f \o <<l>>)[n + 1] = l BY <1>2, <1>4, <2>2, <2>3, <2>4
  <2> QED BY <2>5, <2>6 DEF f
<1>7. \A i \in 1..Len(lw) : i = Len(lv) \/ (i \in 1..n /\ i \in 1..Len(lv)) BY <1>3, <1>5
<1>8. lw[Len(lv)] = l /\ \A i \in 1..n : lw[i] = lv[i] BY <1>2, <1>3, <1>6
<1>9. \A i \in 1..Len(lw) : IsLevel(lw[i]) BY <1>1, <1>7, <1>8
<1> QED BY <1>2, <1>5, <1>8, <1>9 DEF AreLevels, n

-----------------------------------------------------------------------------
\* Where a reader is that no error has stopped.

Dropping == Has("allowDroppedNullPlaceholders")
Good(t, pa, lv, w, c) ==
    /\ c \in 0..End /\ Placing(t, pa, lv, w) /\ AreLevels(lv)
    /\ ~Dropping => Offsets(t, pa, lv, w, c)

LEMMA GoodNumbers ==
    ASSUME End \in Nat, NEW t, NEW pa, NEW lv, NEW w, NEW c, Good(t, pa, lv, w, c)
    PROVE  /\ c \in Nat /\ c <= End /\ Placing(t, pa, lv, w) /\ AreLevels(lv) /\ IsTree(t)
           /\ pa \in DOMAIN t /\ IsSeq(pa) /\ IsSeq(lv) /\ Len(lv) \in Nat /\ Len(pa) \in Nat
<1>1. c \in 0..End /\ Placing(t, pa, lv, w) /\ AreLevels(lv) BY DEF Good
<1>2. c \in Nat /\ c <= End BY <1>1
<1>3. IsTree(t) /\ pa \in DOMAIN t /\ IsSeq(pa) /\ IsSeq(lv) BY <1>1 DEF Placing
<1>4. Len(lv) \in Nat /\ Len(pa) \in Nat BY <1>3, LenIsNat
<1> QED BY <1>1, <1>2, <1>3, <1>4

\* A token is passed over, and at most comments are set.
LEMMA GoodStays ==
    ASSUME End \in Nat, NEW t, NEW pa, NEW lv, NEW w, NEW c, Good(t, pa, lv, w, c),
           NEW e \in 0..End, c <= e,
           NEW u, IsTree(u), DOMAIN u = DOMAIN t, \A q \in DOMAIN u : SamePlace(t, u, q),
           NEW lw, AreLevels(lw), Len(lw) = Len(lv), lv = <<>> <=> lw = <<>>,
           \A i \in 1..Len(lv) : lw[i].type = lv[i].type
    PROVE  Good(u, pa, lw, w, e)
<1>0. e \in Nat /\ IsSeq(lw) BY DEF AreLevels
<1>1. c \in Nat /\ Placing(t, pa, lv, w) BY GoodNumbers
<1>2. Placing(u, pa, lw, w) BY <1>0, <1>1 DEF Placing
<1>3. ~Dropping => Offsets(u, pa, lw, w, e) BY <1>0, <1>1, Stays DEF Good
<1> QED BY <1>2, <1>3 DEF Good

LEMMA GoodDescended ==
    ASSUME End \in Nat, NEW t, NEW pa, NEW lv, NEW c, Good(t, pa, lv, FALSE, c), lv # <<>>,
           NEW e \in 0..End, c <= e, NEW step
    PROVE  Good(Resolved(t, Append(pa, step)), Append(pa, step), lv, TRUE, e)
<1> DEFINE pb == Append(pa, step)
           u == Resolved(t, pb)
<1>0. e \in Nat OBVIOUS
<1>1. /\ c \in Nat /\ Placing(t, pa, lv, FALSE) /\ IsTree(t) /\ pa \in DOMAIN t
      /\ IsSeq(pa) /\ Len(pa) \in Nat /\ Len(lv) \in Nat /\ AreLevels(lv)
  BY GoodNumbers
<1>2. IsTree(u) /\ pb \in DOMAIN u
  <2>1. IsTree(u) BY <1>1, ResolvedTree
  <2>2. pb \in DOMAIN u BY DEF Resolved
  <2> QED BY <2>1, <2>2
<1>3. IsSeq(pb) /\ Len(pb) = Len(pa) + 1 BY <1>1, AppendAt
<1> HIDE DEF pb, u
<1>4. Len(pa) = Len(lv) - 1 BY <1>1 DEF Placing
<1>5. Len(pb) = Len(lv) BY <1>1, <1>3, <1>4
<1>6. Placing(u, pb, lv, TRUE) BY <1>1, <1>2, <1>3, <1>5 DEF Placing
<1>7. ~Dropping => Offsets(u, pb, lv, TRUE, e)
  <2> SUFFICES ASSUME ~Dropping PROVE Offsets(u, pb, lv, TRUE, e)
    OBVIOUS
  <2>1. Offsets(t, pa, lv, FALSE, c) BY DEF Good
  <2>2. Offsets(Resolved(t, Append(pa, step)), Append(pa, step), lv, TRUE, e)
    BY <1>0, <1>1, <2>1, Descended
  <2> QED BY <2>2 DEF u, pb
<1>8. Good(u, pb, lv, TRUE, e) BY <1>1, <1>6, <1>7 DEF Good
<1> QED BY <1>8 DEF u, pb

LEMMA GoodOpened ==
    ASSUME End \in Nat, NEW t, NEW pa, NEW lv, NEW c, Good(t, pa, lv, TRUE, c),
           NEW v, IsTree(v), DOMAIN v = DOMAIN t, \A q \in DOMAIN v : SamePlace(t, v, q),
           NEW s \in 0..End, c <= s, NEW e \in 0..End, s < e,
           NEW l, IsLevel(l), CharAt(s) = Opening(l.type),
           NEW u, u = SetOffsetStart(SwapPayload(v, pa, Container(l.type)), pa, s)
    PROVE  Good(u, pa, Append(lv, l), FALSE, e)
<1>1. /\ c \in Nat /\ Placing(t, pa, lv, TRUE) /\ pa \in DOMAIN t /\ AreLevels(lv)
      /\ IsSeq(pa) /\ Len(pa) \in Nat /\ Len(lv) \in Nat /\ IsSeq(lv)
  BY GoodNumbers
<1> DEFINE y == SwapPayload(v, pa, Container(l.type))
<1>2. /\ IsTree(y) /\ pa \in DOMAIN y
      /\ DOMAIN y = {q \in DOMAIN t : ~IsStrictPrefix(pa, q)}
      /\ \A q \in DOMAIN y : q # pa => y[q] = v[q]
      /\ y[pa].type = Container(l.type).type
  <2>1. pa \in DOMAIN v BY <1>1
  <2>2. /\ IsTree(y) /\ pa \in DOMAIN y
        /\ \A q : (q \in DOMAIN y) <=> (q \in DOMAIN v /\ ~IsStrictPrefix(pa, q))
        /\ \A q \in DOMAIN y : q # pa => y[q] = v[q]
        /\ y[pa].type = Container(l.type).type
    BY <2>1, Swapped
  <2> HIDE DEF y
  <2> QED BY <2>2
<1>3. Container(l.type).type = l.type BY DEF Container, Value
<1> HIDE DEF y
<1>4. /\ IsTree(u) /\ DOMAIN u = DOMAIN y
      /\ \A q \in DOMAIN u : q # pa => u[q] = y[q]
      /\ u[pa].type = l.type /\ u[pa].start = s
  BY <1>2, <1>3, StartSet DEF y
<1>5. DOMAIN u = {q \in DOMAIN t : ~IsStrictPrefix(pa, q)} BY <1>2, <1>4
<1>6. \A q \in DOMAIN u : q # pa => SamePlace(t, u, q)
  <2> SUFFICES ASSUME NEW q \in DOMAIN u, q # pa PROVE SamePlace(t, u, q)
    OBVIOUS
  <2>1. u[q] = v[q] /\ q \in DOMAIN v BY <1>2, <1>4
  <2>2. SamePlace(t, v, q) BY <2>1
  <2> QED BY <2>1, <2>2 DEF SamePlace
<1>7. l.type \in Containers BY DEF IsLevel
<1>8. s \in Nat /\ e \in Nat OBVIOUS
<1> DEFINE lw == Append(lv, l)
<1>9. ~Dropping => Offsets(u, pa, lw, FALSE, e)
  <2> SUFFICES ASSUME ~Dropping PROVE Offsets(u, pa, lw, FALSE, e)
    OBVIOUS
  <2>1. Offsets(t, pa, lv, TRUE, c) BY DEF Good
  <2> QED BY <1>1, <1>4, <1>5, <1>6, <1>7, <1>8, <2>1, Opened
<1>10. AreLevels(lw) BY <1>1, LevelAdded
<1>11. IsSeq(lw) /\ Len(lw) = Len(lv) + 1 BY <1>1, AppendAt
<1> HIDE DEF lw
<1>12. Len(pa) = Len(lv) BY <1>1 DEF Placing
<1>13. Len(pa) = Len(lw) - 1 BY <1>1, <1>11, <1>12
<1>14. \A i \in 1..Len(lw) : lw[i].type \in Containers BY <1>10 DEF AreLevels, IsLevel
<1>15. Placing(u, pa, lw, FALSE)
  BY <1>1, <1>2, <1>4, <1>11, <1>13, <1>14 DEF Placing
<1>16. Good(u, pa, lw, FALSE, e) BY <1>9, <1>10, <1>15 DEF Good
<1> QED BY <1>16 DEF lw

\* Where the reader goes back to fits the containers that are left.
LEMMA PastFits ==
    ASSUME NEW u, IsTree(u), NEW pa \in DOMAIN u, NEW lv, AreLevels(lv), Len(pa) = Len(lv)
    PROVE  Placing(u, Past(pa, lv), lv, FALSE)
<1>1. IsSeq(pa) /\ IsSeq(lv) BY DEF IsTree, AreLevels
<1>2. Len(pa) \in Nat /\ Len(lv) \in Nat BY <1>1, LenIsNat
<1>3. \A i \in 1..Len(lv) : lv[i].type \in Containers BY DEF AreLevels, IsLevel
<1>4. CASE lv = <<>>
  <2>1. pa = <<>> BY <1>1, <1>2, <1>4, EmptySeq
  <2> QED BY <1>1, <1>3, <1>4, <2>1 DEF Placing, Past
<1>5. CASE lv # <<>>
  <2>1. pa # <<>> BY <1>1, <1>2, <1>5, EmptySeq
  <2>2. /\ Front(pa) \in DOMAIN u /\ IsSeq(Front(pa)) /\ Len(Front(pa)) = Len(pa) - 1
    BY <2>1, FrontFacts
  <2>3. Past(pa, lv) = Front(pa) BY <1>5 DEF Past
  <2> QED BY <1>1, <1>3, <2>2, <2>3 DEF Placing
<1> QED BY <1>4, <1>5

\* A value without members, or one that is left out, has been read.
LEMMA GoodRead ==
    ASSUME End \in Nat, NEW t, NEW pa, NEW lv, NEW c, Good(t, pa, lv, TRUE, c),
           NEW v, IsTree(v), DOMAIN v = DOMAIN t, \A q \in DOMAIN v : SamePlace(t, v, q),
           NEW e \in 0..End, c <= e, NEW s, NEW node,
           NEW u, u = SetOffsetLimit(SetOffsetStart(SwapPayload(v, pa, node), pa, s), pa, e),
           ~Dropping => /\ s \in c..End
                        /\ \A n : n.type = node.type /\ n.start = s /\ n.limit = e => Spans(n)
    PROVE  Good(u, Past(pa, lv), lv, FALSE, e)
<1>1. /\ c \in Nat /\ Placing(t, pa, lv, TRUE) /\ pa \in DOMAIN t /\ AreLevels(lv)
      /\ IsSeq(pa) /\ Len(pa) \in Nat /\ Len(lv) \in Nat /\ IsSeq(lv)
  BY GoodNumbers
<1> DEFINE y == SwapPayload(v, pa, node)
           z == SetOffsetStart(y, pa, s)
<1>2. /\ IsTree(y) /\ pa \in DOMAIN y
      /\ DOMAIN y = {q \in DOMAIN t : ~IsStrictPrefix(pa, q)}
      /\ \A q \in DOMAIN y : q # pa => y[q] = v[q]
      /\ y[pa].type = node.type
  <2>1. pa \in DOMAIN v BY <1>1
  <2>2. /\ IsTree(y) /\ pa \in DOMAIN y
        /\ \A q : (q \in DOMAIN y) <=> (q \in DOMAIN v /\ ~IsStrictPrefix(pa, q))
        /\ \A q \in DOMAIN y : q # pa => y[q] = v[q]
        /\ y[pa].type = node.type
    BY <2>1, Swapped
  <2> HIDE DEF y
  <2> QED BY <2>2
<1> HIDE DEF y
<1>3. /\ IsTree(z) /\ DOMAIN z = DOMAIN y
      /\ \A q \in DOMAIN z : q # pa => z[q] = y[q]
      /\ z[pa].type = node.type /\ z[pa].start = s
  BY <1>2, StartSet
<1> HIDE DEF z
<1>4. /\ IsTree(u) /\ DOMAIN u = DOMAIN z
      /\ \A q \in DOMAIN u : q # pa => u[q] = z[q]
      /\ u[pa].type = node.type /\ u[pa].start = s /\ u[pa].limit = e
  BY <1>2, <1>3, LimitSet DEF z, y
<1>5. DOMAIN u = {q \in DOMAIN t : ~IsStrictPrefix(pa, q)} BY <1>2, <1>3, <1>4
<1>6. \A q \in DOMAIN u : q # pa => SamePlace(t, u, q)
  <2> SUFFICES ASSUME NEW q \in DOMAIN u, q # pa PROVE SamePlace(t, u, q)
    OBVIOUS
  <2>1. u[q] = v[q] /\ q \in DOMAIN v BY <1>2, <1>3, <1>4
  <2>2. SamePlace(t, v, q) BY <2>1
  <2> QED BY <2>1, <2>2 DEF SamePlace
<1>7. pa \in DOMAIN u BY <1>2, <1>3, <1>4
<1>8. Len(pa) = Len(lv) BY <1>1 DEF Placing
<1>9. Placing(u, Past(pa, lv), lv, FALSE) BY <1>1, <1>4, <1>7, <1>8, PastFits
<1>10. ASSUME ~Dropping PROVE Offsets(u, Past(pa, lv), lv, FALSE, e)
  <2>1. Offsets(t, pa, lv, TRUE, c) BY <1>10 DEF Good
  <2>2. u[pa].start \in Nat /\ c <= u[pa].start /\ u[pa].limit <= e BY <1>1, <1>4, <1>10
  <2>3. Spans(u[pa]) BY <1>4, <1>10
  <2>4. e \in Nat OBVIOUS
  <2> QED BY <1>1, <1>5, <1>6, <2>1, <2>2, <2>3, <2>4, ReadWhole
<1> QED BY <1>1, <1>9, <1>10 DEF Good

\* A container ends.
LEMMA GoodClosed ==
    ASSUME End \in Nat, NEW t, NEW pa, NEW lv, NEW c, Good(t, pa, lv, FALSE, c), lv # <<>>,
           NEW e \in 0..End, c < e, CharAt(e - 1) = Closing(lv[Len(lv)].type),
           NEW u, u = SetOffsetLimit(t, pa, e)
    PROVE  Good(u, Past(pa, Front(lv)), Front(lv), FALSE, e)
<1>0. e \in Nat /\ e <= End OBVIOUS
<1>1. /\ c \in Nat /\ Placing(t, pa, lv, FALSE) /\ IsTree(t) /\ pa \in DOMAIN t
      /\ AreLevels(lv) /\ IsSeq(lv)
  BY GoodNumbers
<1>2. /\ IsTree(u) /\ DOMAIN u = DOMAIN t
      /\ \A q \in DOMAIN u : q # pa => u[q] = t[q]
      /\ u[pa].type = t[pa].type /\ u[pa].start = t[pa].start /\ u[pa].limit = e
  BY <1>1, LimitSet
<1>3. \A q \in DOMAIN u : q # pa => SamePlace(t, u, q) BY <1>2 DEF SamePlace
<1>4. AreLevels(Front(lv)) /\ Len(Front(lv)) = Len(lv) - 1 BY <1>1, LevelPopped
<1>5. Len(pa) = Len(Front(lv)) BY <1>1, <1>4 DEF Placing
<1>6. Placing(u, Past(pa, Front(lv)), Front(lv), FALSE) BY <1>1, <1>2, <1>4, <1>5, PastFits
<1>7. ~Dropping => Offsets(u, Past(pa, Front(lv)), Front(lv), FALSE, e)
  BY <1>0, <1>1, <1>2, <1>3, Closed DEF Good
<1> QED BY <1>4, <1>6, <1>7 DEF Good

-----------------------------------------------------------------------------
\* Every offset of an accepted document.

AtLevel(ph, lv) ==
    /\ ph \in {"extra", "done"} => lv = <<>>
    /\ ph \in {"name", "colon", "comma", "anyComma"} =>
           lv # <<>> /\ lv[Len(lv)].type = "object"
    /\ ph = "item" => lv # <<>> /\ lv[Len(lv)].type = "array"
Laid == /\ Good(root, path, levels, phase = "value", current)
        /\ TokenAt(token, current) /\ AtLevel(phase, levels)
LaidInv == phase # "threw" /\ ~Failing => Laid

LEMMA TextOfDocument ==
    ASSUME ReaderInv
    PROVE  text \in Seq(STRING) /\ End \in Nat
<1>1. text \in Seq(STRING) BY DocumentsAssumption DEF ReaderInv, Nesting, text
<1> QED BY <1>1, LenProperties DEF End

\* The document stays, and so what is known of places in it.
LEMMA SameDocument ==
    ASSUME doc' = doc, NEW u, NEW pb, NEW lw, NEW w \in BOOLEAN, NEW e, NEW k,
           root' = u, path' = pb, levels' = lw, (phase' = "value") = w, current' = e, token' = k
    PROVE  /\ Good(u, pb, lw, w, e) => Good(root, path, levels, phase = "value", current)'
           /\ TokenAt(k, e) => TokenAt(token, current)'
<1>1. TokenAt(k, e) => TokenAt(token, current)'
  BY DEF TokenAt, Solid, CharAt, End, text
<1>2. Placing(u, pb, lw, w) => Placing(root, path, levels, phase = "value")'
  BY DEF Placing, IsTree, IsSeq
<1>3. AreLevels(lw) => AreLevels(levels)' BY DEF AreLevels, IsSeq
<1>4. (e \in 0..End => (current \in 0..End)') /\ (~Dropping <=> ~Dropping')
  BY DEF End, text, Dropping, Has
<1>5. Offsets(u, pb, lw, w, e) => Offsets(root, path, levels, phase = "value", current)'
  <2>1. ASSUME NEW p PROVE Begun(u, p, lw, e) => Begun(root, p, levels, current)'
    BY DEF Begun, CharAt, End, text
  <2>2. ASSUME NEW p PROVE Ended_(u, p, e) => Ended_(root, p, current)'
    BY DEF Ended_, Spans, CharAt, End, text
  <2> QED BY <2>1, <2>2 DEF Offsets, Reading, Waiting, Done, Siblings, Apart
<1>6. Good(u, pb, lw, w, e) => Good(root, path, levels, phase = "value", current)'
  BY <1>2, <1>3, <1>4, <1>5 DEF Good
<1> QED BY <1>1, <1>6

-----------------------------------------------------------------------------
\* What a step leaves, by what it has done.
LEMMA NextLaid ==
    ASSUME ReaderInv, NEW u, NEW pb, NEW lw, NEW ph, NEW e, Good(u, pb, lw, ph = "value", e),
           AtLevel(ph, lw), doc' = doc, root' = u, path' = pb, levels' = lw, phase' = ph,
           current' = e, token' = ReadToken(e)
    PROVE  LaidInv'
<1>1. text \in Seq(STRING) /\ End \in Nat BY TextOfDocument
<1>2. e \in 0..End BY DEF Good
<1> DEFINE k == ReadToken(e)
           w == ph = "value"
<1>3. TokenAt(k, e) BY <1>1, <1>2, TokenFound
<1>4. w \in BOOLEAN /\ (phase' = "value") = w /\ token' = k OBVIOUS
<1>5. Good(u, pb, lw, w, e) OBVIOUS
<1> HIDE DEF k, w
<1>6. Good(root, path, levels, phase = "value", current)' BY <1>4, <1>5, SameDocument
<1>7. TokenAt(token, current)' BY <1>3, <1>4, SameDocument
<1>8. AtLevel(phase, levels)' BY DEF AtLevel
<1> QED BY <1>6, <1>7, <1>8 DEF LaidInv, Laid

\* A token that is not the end leads further.
LEMMA TokenAhead ==
    ASSUME ReaderInv, Laid
    PROVE  /\ End \in Nat /\ text \in Seq(STRING)
           /\ current \in 0..End /\ token.start \in 0..End /\ token.end \in 0..End
           /\ current <= token.start /\ token.start <= token.end /\ current <= token.end
           /\ token.type # "tokenEndOfStream" => token.start < token.end
<1>1. text \in Seq(STRING) /\ End \in Nat BY TextOfDocument
<1>2. current \in 0..End BY DEF Laid, Good
<1>3. token.start \in current..End /\ token.end \in token.start..End
      /\ (token.type # "tokenEndOfStream" => token.start < token.end)
  BY DEF Laid, TokenAt
<1> QED BY <1>1, <1>2, <1>3

LEMMA CommentsTaken ==
    ASSUME IsTree(root), NEW comment, AddComment(comment), NEW u, u = root'
    PROVE  IsTree(u) /\ DOMAIN u = DOMAIN root /\ \A q \in DOMAIN u : SamePlace(root, u, q)
<1>1. CASE u = root BY <1>1 DEF SamePlace
<1>2. CASE u = SetComment(root, lastValue, comment, "commentAfterOnSameLine")
  BY <1>2, Commented
<1> QED BY <1>1, <1>2 DEF AddComment

LEMMA DescribedTree ==
    ASSUME IsTree(root), NEW v, v = Described
    PROVE  IsTree(v) /\ DOMAIN v = DOMAIN root /\ \A q \in DOMAIN v : SamePlace(root, v, q)
<1>1. CASE v = root BY <1>1 DEF SamePlace
<1>2. CASE v = SetComment(root, path, commentsBefore, "commentBefore")
  BY <1>2, Commented
<1> QED BY <1>1, <1>2 DEF Described

\* The reader goes on where it is, and at most comments are set.
LEMMA OnLaid ==
    ASSUME ReaderInv, Laid, NEW u, IsTree(u), DOMAIN u = DOMAIN root,
           \A q \in DOMAIN u : SamePlace(root, u, q),
           NEW ph, AtLevel(ph, levels), ph = "value" <=> phase = "value",
           UNCHANGED <<doc, path, levels>>, root' = u, phase' = ph, Took
    PROVE  LaidInv'
<1> DEFINE e == token.end
           lw == levels
           pb == path
           w == ph = "value"
<1>1. End \in Nat /\ current \in 0..End /\ e \in 0..End /\ current <= e BY TokenAhead
<1>2. Good(root, pb, lw, w, current) BY DEF Laid
<1>3. AreLevels(lw) BY <1>2 DEF Good
<1>4. current' = e /\ token' = ReadToken(e) BY DEF Took, MoveTo
<1>5. levels' = lw /\ path' = pb OBVIOUS
<1> HIDE DEF e, pb, w
<1>6. Good(u, pb, lw, w, e) BY <1>1, <1>2, <1>3, GoodStays
<1> HIDE DEF lw
<1>7. AtLevel(ph, lw) BY DEF lw
<1> QED BY <1>4, <1>5, <1>6, <1>7, NextLaid DEF w

\* A value is read without an error.
LEMMA ReturnLaid ==
    ASSUME ReaderInv, NEW u, NEW lw, NEW e, AreLevels(lw),
           Good(u, Past(path, lw), lw, FALSE, e), doc' = doc,
           Return(u, lw, e, TRUE)
    PROVE  LaidInv'
<1>1. /\ root' = u /\ current' = e /\ token' = ReadToken(e) /\ levels' = lw
      /\ path' = IF lw = <<>> THEN path ELSE Front(path)
      /\ phase' = IF lw = <<>> THEN "extra"
                  ELSE IF Last(lw).type = "array" THEN "item" ELSE "comma"
  BY DEF Return, MoveTo, Continue
<1>2. path' = Past(path, lw) BY <1>1 DEF Past
<1> DEFINE pb == Past(path, lw)
           ph == IF lw = <<>> THEN "extra"
                 ELSE IF Last(lw).type = "array" THEN "item" ELSE "comma"
<1>3. ph # "value" OBVIOUS
<1>4. AtLevel(ph, lw)
  <2>1. CASE lw = <<>> BY <2>1 DEF AtLevel
  <2>2. CASE lw # <<>>
    <3>1. Last(lw) = lw[Len(lw)] BY DEF Last
    <3>2. lw[Len(lw)].type \in {"array", "object"}
      BY <2>2, LevelPopped DEF IsLevel, Containers
    <3> QED BY <2>2, <3>1, <3>2 DEF AtLevel
  <2> QED BY <2>1, <2>2
<1>5. phase' = ph /\ path' = pb BY <1>1, <1>2
<1> HIDE DEF pb, ph
<1>6. Good(u, pb, lw, FALSE, e) BY DEF pb
<1>7. Good(u, pb, lw, ph = "value", e)
  <2>1. (ph = "value") = FALSE BY <1>3
  <2> QED BY <1>6, <2>1
<1> QED BY <1>1, <1>4, <1>5, <1>7, NextLaid

\* A member or an element is about to be read.
LEMMA DescendLaid ==
    ASSUME ReaderInv, NEW t, NEW lw, NEW c, lw # <<>>, Good(t, path, lw, FALSE, c),
           NEW e \in 0..End, c <= e, NEW step, Descend(t, step), MoveTo(e),
           levels' = lw, doc' = doc
    PROVE  LaidInv'
<1> DEFINE pb == Append(path, step)
           u == Resolved(t, pb)
<1>1. phase' # "threw" => phase' = "value" BY DEF Descend
<1>2. root' = u /\ path' = pb /\ current' = e /\ token' = ReadToken(e)
  BY DEF Descend, MoveTo
<1>3. End \in Nat BY TextOfDocument
<1>4. Good(u, pb, lw, TRUE, e) BY <1>3, GoodDescended
<1> HIDE DEF pb, u
<1>5. CASE phase' = "threw" BY <1>5 DEF LaidInv
<1>6. CASE phase' = "value"
  <2> DEFINE ph == "value"
  <2>1. AtLevel(ph, lw) BY DEF AtLevel
  <2>2. phase' = ph /\ (ph = "value") = TRUE BY <1>6
  <2> HIDE DEF ph
  <2>3. Good(u, pb, lw, ph = "value", e) BY <1>4, <2>2
  <2> QED BY <1>2, <2>1, <2>2, <2>3, NextLaid
<1> QED BY <1>1, <1>5, <1>6

-----------------------------------------------------------------------------
LEMMA NumberType ==
    ASSUME NEW chars, NEW value
    PROVE  Number(chars, value).node.type \in {"real", "int", "uint"}
<1>1. \A mantissa, exponent : DecodeDouble(mantissa, exponent).node.type = "real"
  BY DEF DecodeDouble, Decoded, Real, Value
<1>2. AsDouble(chars).node.type = "real" BY <1>1 DEF AsDouble
<1> QED BY <1>2 DEF Number, Decoded, Value

LEMMA ScalarType ==
    ASSUME token.type \in Scalars
    PROVE  ScalarOf.node.type \notin Containers
<1>1. CASE token.type = "tokenNumber"
  <2> DEFINE chars == Slice(token.start, token.end)
  <2>1. \E value : DecodeNumber(chars) = Number(chars, value) BY DEF DecodeNumber
  <2>2. DecodeNumber(chars).node.type \in {"real", "int", "uint"} BY <2>1, NumberType
  <2>3. ScalarOf = DecodeNumber(chars) BY <1>1 DEF ScalarOf
  <2> HIDE DEF chars
  <2> QED BY <2>2, <2>3 DEF Containers
<1>2. CASE token.type \in {"tokenNull", "tokenTrue", "tokenFalse"}
  <2>1. ScalarOf.node.type \in {"null", "boolean"}
    BY <1>2 DEF ScalarOf, Decoded, Null, Boolean, Value
  <2> QED BY <2>1 DEF Containers
<1>3. CASE token.type = "tokenString"
  <2>1. ScalarOf = Decoded(DecodeString.ok, String(DecodeString.text)) BY <1>3 DEF ScalarOf
  <2>2. ScalarOf.node.type = "string" BY <2>1 DEF Decoded, String, Value
  <2> QED BY <2>2 DEF Containers
<1> QED BY <1>1, <1>2, <1>3 DEF Scalars

LEMMA InitLaid == Init => LaidInv
<1> SUFFICES ASSUME Init, phase # "threw" PROVE Laid
  BY DEF LaidInv
<1>1. /\ doc \in Documents /\ root = [p \in {<<>>} |-> Null] /\ path = <<>> /\ levels = <<>>
      /\ current = 0 /\ phase = "value" /\ token = ReadToken(0)
  BY DEF Init
<1>2. text \in Seq(STRING) BY <1>1, DocumentsAssumption DEF text
<1>3. End \in Nat BY <1>2, LenProperties DEF End
<1>4. TokenAt(ReadToken(0), 0) BY <1>2, <1>3, TokenFound
<1>5. IsSeq(<<>>) /\ Len(<<>>) = 0 BY AnySeq, EmptySeq
<1>6. DOMAIN root = {<<>>} /\ root[<<>>] = Null BY <1>1
<1>7. IsTree(root) BY <1>5, <1>6, NullNode DEF IsTree
<1>8. Placing(root, path, levels, TRUE) BY <1>1, <1>5, <1>6, <1>7 DEF Placing
<1>9. AreLevels(levels) BY <1>1, <1>5 DEF AreLevels
<1>10. ASSUME NEW p \in DOMAIN root PROVE ~Reading(p, path, levels) /\ Waiting(p, path, TRUE)
  <2>1. p = <<>> BY <1>6
  <2> QED BY <1>1, <1>5, <2>1, PrefixOfItself DEF Reading, Waiting
<1>11. Offsets(root, path, levels, TRUE, 0)
  BY <1>10 DEF Offsets, Done
<1>12. current \in 0..End BY <1>1, <1>3
<1>13. Good(root, path, levels, TRUE, 0) BY <1>1, <1>8, <1>9, <1>11, <1>12 DEF Good
<1>14. TokenAt(token, current) BY <1>1, <1>4
<1>15. AtLevel(phase, levels) BY <1>1 DEF AtLevel
<1>16. (phase = "value") = TRUE BY <1>1
<1>17. Good(root, path, levels, phase = "value", current) BY <1>1, <1>13, <1>16
<1> QED BY <1>14, <1>15, <1>17 DEF Laid

\* The innermost container is changed, not its type.
LEMMA LevelEdited ==
    ASSUME ReaderInv, Laid, levels # <<>>, NEW l, IsLevel(l), l.type = Level.type,
           NEW lw, lw = Front(levels) \o <<l>>
    PROVE  /\ Good(root, path, lw, phase = "value", current)
           /\ lw # <<>> /\ lw[Len(lw)] = l /\ AreLevels(lw)
<1> DEFINE lv == levels
           w == phase = "value"
           c == current
<1>1. End \in Nat /\ c \in 0..End /\ c <= c BY TokenAhead
<1>2. Good(root, path, lv, w, c) BY DEF Laid
<1>3. IsTree(root) /\ AreLevels(lv) BY <1>1, <1>2, GoodNumbers
<1>5. l.type = lv[Len(lv)].type BY DEF Level
<1>8. \A q \in DOMAIN root : SamePlace(root, root, q) BY DEF SamePlace
<1>9. lv # <<>> /\ lw = Front(lv) \o <<l>> OBVIOUS
<1> HIDE DEF lv, w, c
<1>4. /\ AreLevels(lw) /\ Len(lw) = Len(lv) /\ lw # <<>> /\ Len(lv) \in Nat \ {0}
      /\ \A i \in 1..(Len(lv) - 1) : lw[i] = lv[i]
      /\ lw[Len(lv)] = l
  BY <1>3, <1>9, LevelChanged
<1>6. \A i \in 1..Len(lv) : i = Len(lv) \/ i \in 1..(Len(lv) - 1) BY <1>4
<1>7. \A i \in 1..Len(lv) : lw[i].type = lv[i].type BY <1>4, <1>5, <1>6
<1>10. Good(root, path, lw, w, c) BY <1>1, <1>2, <1>3, <1>4, <1>7, <1>8, <1>9, GoodStays
<1> QED BY <1>4, <1>10 DEF w, c

\* A container is closed by its bracket.
LEMMA CloseLaid ==
    ASSUME ReaderInv, Laid, phase \in Inside, Close(TRUE),
           token.type # "tokenEndOfStream", CharAt(token.end - 1) = Closing(Level.type)
    PROVE  LaidInv'
<1> DEFINE lv == levels
           e == token.end
           c == current
           pa == path
           u == SetOffsetLimit(root, pa, e)
<1>1. levels # <<>> /\ phase # "value" BY DEF ReaderInv, Nesting, Inside
<1>2. End \in Nat /\ e \in 0..End /\ current < e
  <2>1. /\ End \in Nat /\ current \in 0..End /\ token.start \in 0..End /\ e \in 0..End
        /\ current <= token.start /\ token.start < e
    BY TokenAhead
  <2> HIDE DEF e
  <2> QED BY <2>1
<1>3. Good(root, pa, lv, FALSE, c)
  <2>1. (phase = "value") = FALSE BY <1>1
  <2> QED BY <2>1 DEF Laid
<1>4. CharAt(e - 1) = Closing(lv[Len(lv)].type) BY DEF Level
<1>5. Return(u, Front(lv), e, TRUE) /\ doc' = doc BY DEF Close
<1>6. lv # <<>> /\ c < e BY <1>1, <1>2
<1> HIDE DEF lv, e, c, pa
<1>7. Good(u, Past(pa, Front(lv)), Front(lv), FALSE, e)
  BY <1>2, <1>3, <1>4, <1>6, GoodClosed
<1> HIDE DEF u
<1> DEFINE lw == Front(lv)
<1>8. AreLevels(lw) BY <1>7 DEF Good
<1>9. Good(u, Past(path, lw), lw, FALSE, e) BY <1>7 DEF pa
<1>10. Return(u, lw, e, TRUE) BY <1>5
<1> HIDE DEF lw
<1> QED BY <1>5, <1>8, <1>9, <1>10, ReturnLaid

-----------------------------------------------------------------------------
LEMMA TakeScalarLaid == ASSUME ReaderInv, LaidInv, TakeScalar PROVE LaidInv'
<1>1. phase = "value" /\ token.type \in Scalars /\ doc' = doc BY DEF TakeScalar, AtValue, Seeing
<1>2. Laid BY <1>1 DEF LaidInv, Failing
<1>3. CASE ScalarOf.ok
  <2> DEFINE node == ScalarOf.node
             s == token.start
             e == token.end
             c == current
             lw == levels
             pa == path
             v == Described
             u == SetOffsetLimit(SetOffsetStart(SwapPayload(v, pa, node), pa, s), pa, e)
  <2>1. Return(u, lw, e, TRUE) BY <1>3 DEF TakeScalar, Placed
  <2>2. /\ End \in Nat /\ c \in 0..End /\ s \in 0..End /\ e \in 0..End
        /\ c <= s /\ s < e /\ c <= e
    BY <1>1, <1>2, TokenAhead DEF Scalars
  <2>3. Good(root, pa, lw, TRUE, c)
    <3>1. (phase = "value") = TRUE BY <1>1
    <3> QED BY <1>2, <3>1 DEF Laid
  <2>4. IsTree(root) /\ AreLevels(lw) BY <2>2, <2>3, GoodNumbers
  <2>5. IsTree(v) /\ DOMAIN v = DOMAIN root /\ \A q \in DOMAIN v : SamePlace(root, v, q)
    BY <2>4, DescribedTree
  <2>6. node.type \notin Containers BY <1>1, ScalarType
  <2>7. Solid(s) /\ Solid(e - 1) BY <1>1, <1>2 DEF Laid, TokenAt
  <2> HIDE DEF node, s, e, c, v
  <2>8. s \in c..End BY <2>2
  <2>9. ASSUME NEW n, n.type = node.type, n.start = s, n.limit = e PROVE Spans(n)
    <3>1. s \in 0..(End - 1) /\ e \in (s + 1)..End BY <2>2
    <3>2. n.type \notin {"array", "object"} BY <2>6, <2>9 DEF Containers
    <3>3. CharAt(s) \in Range(text) \ (DOMAIN Punctuation \cup Spaces)
          /\ CharAt(e - 1) \in Range(text) \ (DOMAIN Punctuation \cup Spaces)
      BY <2>7 DEF Solid
    <3> QED BY <2>9, <3>1, <3>2, <3>3 DEF Spans
  <2> HIDE DEF lw, pa
  <2>10. Good(u, Past(pa, lw), lw, FALSE, e) BY <2>2, <2>3, <2>5, <2>8, <2>9, GoodRead
  <2> HIDE DEF u
  <2>11. Good(u, Past(path, lw), lw, FALSE, e) BY <2>10 DEF pa
  <2> QED BY <1>1, <2>1, <2>4, <2>11, ReturnLaid
<1>4. CASE ~ScalarOf.ok
  <2>1. Continue(levels, FALSE) BY <1>4 DEF TakeScalar, Return
  <2> QED BY <2>1 DEF LaidInv, Failing, Continue
<1> QED BY <1>3, <1>4

\* A container is begun, and its bracket passed.
LEMMA OpenedGood ==
    ASSUME ReaderInv, Laid, phase = "value", NEW type \in Containers,
           token.type = IF type = "array" THEN "tokenArrayBegin" ELSE "tokenObjectBegin",
           NEW l, IsLevel(l), l.type = type
    PROVE  Good(OpenedAs(type), path, Append(levels, l), FALSE, token.end)
<1> DEFINE s == token.start
           e == token.end
           c == current
           lv == levels
           pa == path
           v == Described
           u == SetOffsetStart(SwapPayload(v, pa, Container(l.type)), pa, s)
<1>1. token.type # "tokenEndOfStream" OBVIOUS
<1>2. /\ End \in Nat /\ c \in 0..End /\ s \in 0..End /\ e \in 0..End
      /\ c <= s /\ s < e
  BY <1>1, TokenAhead
<1>3. Good(root, pa, lv, TRUE, c)
  <2>1. (phase = "value") = TRUE OBVIOUS
  <2> QED BY <2>1 DEF Laid
<1>4. IsTree(root) BY <1>2, <1>3, GoodNumbers
<1>5. IsTree(v) /\ DOMAIN v = DOMAIN root /\ \A q \in DOMAIN v : SamePlace(root, v, q)
  BY <1>4, DescribedTree
<1>6. CharAt(s) = Opening(l.type)
  <2>1. CASE type = "array" BY <2>1 DEF Laid, TokenAt, Opening
  <2>2. CASE type = "object" BY <2>2 DEF Laid, TokenAt, Opening
  <2> QED BY <2>1, <2>2 DEF Containers
<1>7. OpenedAs(type) = u BY DEF OpenedAs
<1> HIDE DEF s, e, c, lv, pa, v
<1>8. Good(u, pa, Append(lv, l), FALSE, e) BY <1>2, <1>3, <1>5, <1>6, GoodOpened
<1> QED BY <1>7, <1>8 DEF e, pa, lv

LEMMA FirstLevel ==
    ASSUME NEW type \in Containers
    PROVE  IsLevel([type |-> type, name |-> <<>>, at |-> 0, index |-> 0])
BY DEF IsLevel

LEMMA OpenObjectLaid == ASSUME ReaderInv, LaidInv, OpenObject PROVE LaidInv'
<1>1. phase = "value" /\ token.type = "tokenObjectBegin" /\ doc' = doc
  BY DEF OpenObject, AtValue, Seeing
<1>2. Laid BY <1>1 DEF LaidInv, Failing
<1> DEFINE l == [type |-> "object", name |-> <<>>, at |-> 0, index |-> 0]
           u == OpenedAs("object")
           lw == Append(levels, l)
           ph == "name"
           e == token.end
           pb == path
<1>3. /\ root' = u /\ levels' = lw /\ phase' = ph /\ path' = pb
      /\ current' = e /\ token' = ReadToken(e)
  BY DEF OpenObject, Took, MoveTo
<1>4. IsLevel(l) /\ l.type = "object" BY FirstLevel DEF Containers
<1> HIDE DEF l
<1>5. Good(u, pb, lw, FALSE, e) BY <1>1, <1>2, <1>4, OpenedGood DEF Containers
<1>6. IsSeq(levels) BY DEF ReaderInv, Nesting
<1>7. lw # <<>> /\ lw[Len(lw)] = l BY <1>6, AppendAt
<1>8. AtLevel(ph, lw)
  <2> HIDE DEF lw
  <2> QED BY <1>4, <1>7 DEF AtLevel
<1>9. (ph = "value") = FALSE OBVIOUS
<1> HIDE DEF u, lw, ph, e, pb
<1>10. Good(u, pb, lw, ph = "value", e) BY <1>5, <1>9
<1> QED BY <1>1, <1>3, <1>8, <1>10, NextLaid

LEMMA OpenArrayLaid == ASSUME ReaderInv, LaidInv, OpenArray PROVE LaidInv'
<1>1. phase = "value" /\ token.type = "tokenArrayBegin" /\ doc' = doc
  BY DEF OpenArray, AtValue, Seeing
<1>2. Laid BY <1>1 DEF LaidInv, Failing
<1> DEFINE j == SkipSpaces(token.end)
<1>3. /\ End \in Nat /\ current \in 0..End /\ token.start \in 0..End /\ token.end \in 0..End
      /\ current <= token.start /\ token.start < token.end
  BY <1>1, <1>2, TokenAhead
<1>4. j \in token.end..End BY <1>3, SpacesSkipped
<1> HIDE DEF j
<1>5. j \in 0..End /\ token.end <= j BY <1>3, <1>4
<1>6. CASE CharAt(j) = "]"
  <2> DEFINE node == Container("array")
             s == token.start
             e == j + 1
             c == current
             lw == levels
             pa == path
             v == Described
             u == SetOffsetLimit(SetOffsetStart(SwapPayload(v, pa, node), pa, s), pa, e)
  <2>1. Return(u, lw, e, TRUE) BY <1>6 DEF OpenArray, OpenedAs, j
  <2>2. text \in Seq(STRING) BY TextOfDocument
  <2>3. j \in 0..(End - 1)
    <3>1. j \in Int /\ CharAt(j) # NUL BY <1>5, <1>6 DEF NUL
    <3> QED BY <2>2, <3>1, CharIsThere
  <2>4. e \in 0..End /\ c <= e /\ s \in c..End /\ s \in 0..(End - 1) /\ e \in (s + 1)..End
        /\ e - 1 = j
    BY <1>3, <1>5, <2>3
  <2>5. Good(root, pa, lw, TRUE, c)
    <3>1. (phase = "value") = TRUE BY <1>1
    <3> QED BY <1>2, <3>1 DEF Laid
  <2>6. IsTree(root) /\ AreLevels(lw) BY <1>3, <2>5, GoodNumbers
  <2>7. IsTree(v) /\ DOMAIN v = DOMAIN root /\ \A q \in DOMAIN v : SamePlace(root, v, q)
    BY <2>6, DescribedTree
  <2>8. node.type = "array" BY DEF Container, Value
  <2>9. CharAt(s) = "[" BY <1>1, <1>2 DEF Laid, TokenAt
  <2> HIDE DEF node, s, e, c, v
  <2>10. ASSUME NEW n, n.type = node.type, n.start = s, n.limit = e PROVE Spans(n)
    BY <1>6, <2>4, <2>8, <2>9, <2>10 DEF Spans
  <2> HIDE DEF lw, pa
  <2>11. Good(u, Past(pa, lw), lw, FALSE, e) BY <1>3, <2>4, <2>5, <2>7, <2>10, GoodRead
  <2> HIDE DEF u
  <2>12. Good(u, Past(path, lw), lw, FALSE, e) BY <2>11 DEF pa
  <2> QED BY <1>1, <2>1, <2>6, <2>12, ReturnLaid
<1>7. CASE CharAt(j) # "]"
  <2> DEFINE l == [type |-> "array", name |-> <<>>, at |-> 0, index |-> 0]
             t == OpenedAs("array")
             lw == Append(levels, l)
             step == Index(0)
             c == token.end
  <2>1. Descend(t, step) /\ MoveTo(j) /\ levels' = lw BY <1>7 DEF OpenArray, j
  <2>2. IsLevel(l) /\ l.type = "array" BY FirstLevel DEF Containers
  <2> HIDE DEF l
  <2>3. Good(t, path, lw, FALSE, c) BY <1>1, <1>2, <2>2, OpenedGood DEF Containers
  <2>4. IsSeq(levels) BY DEF ReaderInv, Nesting
  <2>5. lw # <<>> BY <2>4, AppendAt
  <2>6. c <= j BY <1>5
  <2> HIDE DEF t, lw, step, c
  <2> QED BY <1>1, <1>5, <2>1, <2>3, <2>5, <2>6, DescendLaid
<1> QED BY <1>6, <1>7

LEMMA DropNullLaid == ASSUME ReaderInv, LaidInv, DropNull PROVE LaidInv'
<1>1. phase = "value" /\ token.type \in Droppable /\ doc' = doc /\ Dropping
  BY DEF DropNull, AtValue, Seeing, Dropping
<1>2. Laid BY <1>1 DEF LaidInv, Failing
<1> DEFINE node == Null
           s == token.end - 2
           e == token.end - 1
           c == current
           lw == levels
           pa == path
           v == Described
           u == SetOffsetLimit(SetOffsetStart(SwapPayload(v, pa, node), pa, s), pa, e)
<1>3. Return(u, lw, e, TRUE) BY DEF DropNull, Placed
<1>4. /\ End \in Nat /\ c \in 0..End /\ e \in 0..End /\ c <= e
  <2>1. /\ End \in Nat /\ current \in 0..End /\ token.start \in 0..End /\ token.end \in 0..End
        /\ current <= token.start /\ token.start < token.end
    BY <1>1, <1>2, TokenAhead DEF Droppable
  <2> QED BY <2>1
<1>5. Good(root, pa, lw, TRUE, c)
  <2>1. (phase = "value") = TRUE BY <1>1
  <2> QED BY <1>2, <2>1 DEF Laid
<1>6. IsTree(root) /\ AreLevels(lw) BY <1>4, <1>5, GoodNumbers
<1>7. IsTree(v) /\ DOMAIN v = DOMAIN root /\ \A q \in DOMAIN v : SamePlace(root, v, q)
  BY <1>6, DescribedTree
<1> HIDE DEF node, s, e, c, v, lw, pa
<1>8. Good(u, Past(pa, lw), lw, FALSE, e) BY <1>1, <1>4, <1>5, <1>7, GoodRead
<1> HIDE DEF u
<1>9. Good(u, Past(path, lw), lw, FALSE, e) BY <1>8 DEF pa
<1> QED BY <1>1, <1>3, <1>6, <1>9, ReturnLaid

-----------------------------------------------------------------------------
\* A reader that fails goes on failing until it is done.
LEMMA FailingOn ==
    ASSUME ReaderInv, [Next]_vars, Failing, phase' # "threw"
    PROVE  Failing'
<1>1. CASE phase = "recover"
  <2>1. CASE Recovered BY <2>1 DEF Recovered, Close, Return, Continue, Failing
  <2>2. CASE SkipToken BY <2>2 DEF SkipToken, Going, Failing
  <2>3. CASE SkipComment BY <1>1, <2>3 DEF SkipComment, Threw, Failing
  <2>4. CASE UNCHANGED vars BY <2>4 DEF vars, Failing
  <2> QED BY <1>1, <2>1, <2>2, <2>3, <2>4
      DEF Next, AtValueThrows, TakeScalar, OpenObject, OpenArray, DropNull, NoValue, AtValue,
          EndObject, TakeName, NoName, Colon, NoColon, EndOfMembers, Comma, NoComma, NextItem,
          EndArray, NoItem, Parsed, Within
<1>2. CASE phase = "extra" /\ ~successful
  <2>1. CASE SkipComment BY <1>2, <2>1 DEF SkipComment, Threw, Failing
  <2>2. CASE Parsed BY <1>2, <2>2 DEF Parsed, Finish, Threw, Failing
  <2>3. CASE UNCHANGED vars BY <1>2, <2>3 DEF vars, Failing
  <2> QED BY <1>2, <2>1, <2>2, <2>3
      DEF Next, AtValueThrows, TakeScalar, OpenObject, OpenArray, DropNull, NoValue, AtValue,
          EndObject, TakeName, NoName, Colon, NoColon, EndOfMembers, Comma, NoComma, NextItem,
          EndArray, NoItem, Recovered, SkipToken, Within
<1>3. CASE phase = "done" /\ ~successful
  <2>1. CASE UNCHANGED vars BY <1>3, <2>1 DEF vars, Failing
  <2> QED BY <1>3, <2>1
      DEF Next, AtValueThrows, TakeScalar, OpenObject, OpenArray, DropNull, NoValue, AtValue,
          EndObject, TakeName, NoName, Colon, NoColon, EndOfMembers, Comma, NoComma, NextItem,
          EndArray, NoItem, Recovered, SkipToken, SkipComment, Skips, Parsed, Within
<1> QED BY <1>1, <1>2, <1>3 DEF Failing

LEMMA SkipCommentLaid == ASSUME ReaderInv, Laid, ~Failing, SkipComment PROVE LaidInv'
<1>1. CASE CommentThrows BY <1>1 DEF SkipComment, Threw, LaidInv
<1>2. CASE ~CommentThrows
  <2> DEFINE ph == IF phase = "comma" THEN "anyComma" ELSE phase
             u == root'
  <2>1. /\ UNCHANGED <<doc, path, levels>> /\ phase' = ph /\ Took
        /\ \E comment : AddComment(comment)
    BY <1>2 DEF SkipComment, TakeComments
  <2>2. IsTree(root) BY DEF Laid, Good, Placing
  <2>3. PICK v : v = u OBVIOUS
  <2>4. IsTree(v) /\ DOMAIN v = DOMAIN root /\ \A q \in DOMAIN v : SamePlace(root, v, q)
    BY <2>1, <2>2, <2>3, CommentsTaken
  <2>5. AtLevel(ph, levels) BY DEF Laid, AtLevel
  <2>6. ph = "value" <=> phase = "value" OBVIOUS
  <2>7. root' = v BY <2>3
  <2> HIDE DEF ph, u
  <2> QED BY <2>1, <2>4, <2>5, <2>6, <2>7, OnLaid
<1> QED BY <1>1, <1>2

LEMMA TakeNameLaid == ASSUME ReaderInv, Laid, TakeName PROVE LaidInv'
<1>1. CASE NameOf.ok
  <2> DEFINE l == [Level EXCEPT !.name = NameOf.text, !.at = token.start]
             lw == Front(levels) \o <<l>>
             ph == "colon"
             e == token.end
             pb == path
             u == root
             c == current
  <2>1. /\ phase = "name" /\ UNCHANGED <<doc, path, root>> /\ phase' = ph /\ levels' = lw
        /\ current' = e /\ token' = ReadToken(e)
    BY <1>1 DEF TakeName, Going, Took, MoveTo
  <2>2. levels # <<>> /\ Level.type = "object" BY <2>1 DEF Laid, AtLevel, Level
  <2>3. IsLevel(Level)
    <3>1. AreLevels(levels) BY DEF Laid, Good
    <3> QED BY <2>2, <3>1, LevelPopped DEF Level
  <2>4. IsLevel(l) /\ l.type = Level.type BY <2>3 DEF IsLevel
  <2> HIDE DEF l
  <2>5. /\ Good(root, path, lw, phase = "value", current)
        /\ lw # <<>> /\ lw[Len(lw)] = l /\ AreLevels(lw)
    BY <2>2, <2>4, LevelEdited
  <2> HIDE DEF lw
  <2>6. AtLevel(ph, lw) BY <2>2, <2>4, <2>5 DEF AtLevel
  <2>7. /\ End \in Nat /\ e \in 0..End /\ c <= e BY TokenAhead
  <2>8. Good(u, pb, lw, FALSE, c)
    <3>1. (phase = "value") = FALSE BY <2>1
    <3> QED BY <2>5, <3>1
  <2> HIDE DEF e, c, pb, u
  <2>9. IsTree(u) BY <2>7, <2>8, GoodNumbers
  <2>10. \A q \in DOMAIN u : SamePlace(u, u, q) BY DEF SamePlace
  <2>11. Good(u, pb, lw, FALSE, e) BY <2>5, <2>7, <2>8, <2>9, <2>10, GoodStays
  <2>12. (ph = "value") = FALSE OBVIOUS
  <2>13. Good(u, pb, lw, ph = "value", e) BY <2>11, <2>12
  <2>14. root' = u /\ path' = pb BY <2>1 DEF u, pb
  <2> HIDE DEF ph
  <2> QED BY <2>1, <2>6, <2>13, <2>14, NextLaid
<1>2. CASE ~NameOf.ok
  BY <1>2 DEF TakeName, Recover, LaidInv, Failing
<1> QED BY <1>1, <1>2

LEMMA ColonLaid == ASSUME ReaderInv, Laid, Colon PROVE LaidInv'
<1>1. CASE Twice BY <1>1 DEF Colon, Recover, LaidInv, Failing
<1>2. CASE ~Twice
  <2> DEFINE step == Name(Level.name)
             lw == levels
             e == token.end
             c == current
             t == root
  <2>1. /\ phase = "colon" /\ token.type = "tokenMemberSeparator" /\ doc' = doc
        /\ Descend(t, step) /\ MoveTo(e) /\ levels' = lw
    BY <1>2 DEF Colon, Within, Seeing, Took
  <2>2. lw # <<>> BY <2>1 DEF Laid, AtLevel
  <2>3. /\ End \in Nat /\ e \in 0..End /\ c <= e BY TokenAhead
  <2>4. Good(t, path, lw, FALSE, c)
    <3>1. (phase = "value") = FALSE BY <2>1
    <3> QED BY <3>1 DEF Laid
  <2> HIDE DEF step, lw, e, c, t
  <2> QED BY <2>1, <2>2, <2>3, <2>4, DescendLaid
<1> QED BY <1>1, <1>2

LEMMA NextItemLaid == ASSUME ReaderInv, Laid, NextItem PROVE LaidInv'
<1> DEFINE l == [Level EXCEPT !.index = @ + 1]
           lw == Front(levels) \o <<l>>
           step == Index(Level.index + 1)
           e == token.end
           c == current
           t == root
<1>1. /\ phase = "item" /\ doc' = doc /\ Descend(t, step) /\ MoveTo(e) /\ levels' = lw
  BY DEF NextItem, Within, Took
<1>2. levels # <<>> /\ Level.type = "array" BY <1>1 DEF Laid, AtLevel, Level
<1>3. IsLevel(Level)
  <2>1. AreLevels(levels) BY DEF Laid, Good
  <2> QED BY <1>2, <2>1, LevelPopped DEF Level
<1>4. IsLevel(l) /\ l.type = Level.type BY <1>3 DEF IsLevel
<1> HIDE DEF l
<1>5. /\ Good(root, path, lw, phase = "value", current)
      /\ lw # <<>> /\ lw[Len(lw)] = l /\ AreLevels(lw)
  BY <1>2, <1>4, LevelEdited
<1>6. /\ End \in Nat /\ e \in 0..End /\ c <= e BY TokenAhead
<1>7. Good(t, path, lw, FALSE, c)
  <2>1. (phase = "value") = FALSE BY <1>1
  <2> QED BY <1>5, <2>1
<1> HIDE DEF lw, step, e, c, t
<1> QED BY <1>1, <1>5, <1>6, <1>7, DescendLaid

LEMMA ParsedLaid == ASSUME ReaderInv, Laid, Parsed PROVE LaidInv'
<1>1. CASE Has("failIfExtra") /\ ~Seeing({"tokenError", "tokenEndOfStream"})
  BY <1>1 DEF Parsed, Finish, LaidInv, Failing
<1>2. CASE ~(Has("failIfExtra") /\ ~Seeing({"tokenError", "tokenEndOfStream"}))
  <2>1. CASE Throws(commentsBefore) BY <1>2, <2>1 DEF Parsed, Threw, LaidInv
  <2>2. CASE ~Throws(commentsBefore)
    <3> DEFINE u == IF commentsBefore = <<>> THEN root
                    ELSE SetComment(root, <<>>, commentsBefore, "commentAfter")
               ph == "done"
    <3>1. /\ phase = "extra" /\ root' = u /\ phase' = ph /\ Took
          /\ UNCHANGED <<doc, path, levels>>
      BY <1>2, <2>2 DEF Parsed, Finish
    <3>2. IsTree(root) BY DEF Laid, Good, Placing
    <3>3. IsTree(u) /\ DOMAIN u = DOMAIN root /\ \A q \in DOMAIN u : SamePlace(root, u, q)
      <4>1. CASE commentsBefore = <<>> BY <3>2, <4>1 DEF SamePlace
      <4>2. CASE commentsBefore # <<>>
        <5>1. u = SetComment(root, <<>>, commentsBefore, "commentAfter") BY <4>2
        <5> HIDE DEF u
        <5> QED BY <3>2, <5>1, Commented
      <4> QED BY <4>1, <4>2
    <3>4. AtLevel(ph, levels) BY <3>1 DEF Laid, AtLevel
    <3>5. ph = "value" <=> phase = "value" BY <3>1
    <3> HIDE DEF u, ph
    <3> QED BY <3>1, <3>3, <3>4, <3>5, OnLaid
  <2> QED BY <2>1, <2>2
<1> QED BY <1>1, <1>2

LEMMA CommaLaid == ASSUME ReaderInv, Laid, Comma PROVE LaidInv'
<1> DEFINE u == root
           ph == "name"
<1>1. /\ phase \in {"comma", "anyComma"} /\ root' = u /\ phase' = ph /\ Took
      /\ UNCHANGED <<doc, path, levels>>
  BY DEF Comma, Within, Going
<1>2. IsTree(u) BY DEF Laid, Good, Placing
<1>3. DOMAIN u = DOMAIN root /\ \A q \in DOMAIN u : SamePlace(root, u, q) BY DEF SamePlace
<1>4. AtLevel(ph, levels) BY <1>1 DEF Laid, AtLevel
<1>5. ph = "value" <=> phase = "value" BY <1>1
<1> HIDE DEF u, ph
<1> QED BY <1>1, <1>2, <1>3, <1>4, <1>5, OnLaid

-----------------------------------------------------------------------------
\* The brackets that close what is open.
LEMMA EndsLaid ==
    ASSUME ReaderInv, Laid, EndObject \/ EndOfMembers \/ EndArray
    PROVE  LaidInv'
<1>1. CASE EndObject \/ EndOfMembers
  <2>1. /\ phase \in {"name", "comma", "anyComma"} /\ token.type = "tokenObjectEnd"
        /\ Close(TRUE)
    BY <1>1 DEF EndObject, EndOfMembers, EndsObject, Seeing
  <2>2. Level.type = "object" BY <2>1 DEF Laid, AtLevel, Level
  <2>3. CharAt(token.end - 1) = Closing(Level.type) BY <2>1, <2>2 DEF Laid, TokenAt, Closing
  <2>4. phase \in Inside BY <2>1 DEF Inside
  <2> QED BY <2>1, <2>3, <2>4, CloseLaid
<1>2. CASE EndArray
  <2>1. phase = "item" /\ token.type = "tokenArrayEnd" /\ Close(TRUE)
    BY <1>2 DEF EndArray, Within, Seeing
  <2>2. Level.type = "array" BY <2>1 DEF Laid, AtLevel, Level
  <2>3. CharAt(token.end - 1) = Closing(Level.type) BY <2>1, <2>2 DEF Laid, TokenAt, Closing
  <2>4. phase \in Inside BY <2>1 DEF Inside
  <2> QED BY <2>1, <2>3, <2>4, CloseLaid
<1> QED BY <1>1, <1>2

LEMMA NextLaidInv == ReaderInv /\ LaidInv /\ [Next]_vars => LaidInv'
<1> SUFFICES ASSUME ReaderInv, LaidInv, [Next]_vars, phase' # "threw", ~Failing' PROVE LaidInv'
  BY DEF LaidInv
<1>1. ~Failing BY FailingOn
<1>2. CASE UNCHANGED vars
  <2>1. Laid BY <1>1, <1>2 DEF LaidInv, vars
  <2> DEFINE u == root
             pb == path
             lw == levels
             w == phase = "value"
             e == current
             k == token
  <2>2. /\ doc' = doc /\ root' = u /\ path' = pb /\ levels' = lw /\ current' = e /\ token' = k
        /\ w \in BOOLEAN /\ (phase' = "value") = w
    BY <1>2 DEF vars
  <2>3. Good(u, pb, lw, w, e) /\ TokenAt(k, e) BY <2>1 DEF Laid
  <2>4. AtLevel(phase, levels)' BY <1>2, <2>1 DEF Laid, AtLevel, vars
  <2> HIDE DEF u, pb, lw, w, e, k
  <2>5. /\ Good(root, path, levels, phase = "value", current)'
        /\ TokenAt(token, current)'
    BY <2>2, <2>3, SameDocument
  <2> QED BY <2>4, <2>5 DEF LaidInv, Laid
<1>3. CASE phase = "threw"
  BY <1>2, <1>3
  DEF Next, AtValueThrows, TakeScalar, OpenObject, OpenArray, DropNull, NoValue, AtValue,
      EndObject, TakeName, NoName, Colon, NoColon, EndOfMembers, Comma, NoComma, NextItem,
      EndArray, NoItem, Recovered, SkipToken, SkipComment, Skips, Parsed, Within
<1>4. CASE phase # "threw"
  <2>1. Laid BY <1>1, <1>4 DEF LaidInv
  <2>2. CASE SkipComment BY <1>1, <2>1, <2>2, SkipCommentLaid
  <2>3. CASE AtValueThrows BY <2>3 DEF AtValueThrows, Threw
  <2>4. CASE TakeScalar BY <2>4, TakeScalarLaid
  <2>5. CASE OpenObject BY <2>5, OpenObjectLaid
  <2>6. CASE OpenArray BY <2>6, OpenArrayLaid
  <2>7. CASE DropNull BY <2>7, DropNullLaid
  <2>8. CASE NoValue BY <2>8 DEF NoValue, Continue, Failing
  <2>9. CASE EndObject \/ EndOfMembers \/ EndArray BY <2>1, <2>9, EndsLaid
  <2>10. CASE TakeName BY <2>1, <2>10, TakeNameLaid
  <2>11. CASE NoName BY <2>11 DEF NoName, Recover, Failing
  <2>12. CASE Colon BY <2>1, <2>12, ColonLaid
  <2>13. CASE NoColon BY <2>13 DEF NoColon, Threw, Recover, Failing
  <2>14. CASE Comma BY <2>1, <2>14, CommaLaid
  <2>15. CASE NoComma BY <2>15 DEF NoComma, Recover, Failing
  <2>16. CASE NextItem BY <2>1, <2>16, NextItemLaid
  <2>17. CASE NoItem BY <2>17 DEF NoItem, Recover, Failing
  <2>18. CASE Recovered \/ SkipToken BY <1>1, <2>18 DEF Recovered, SkipToken, Failing
  <2>19. CASE Parsed BY <2>1, <2>19, ParsedLaid
  <2> QED BY <1>2, <2>2, <2>3, <2>4, <2>5, <2>6, <2>7, <2>8, <2>9, <2>10, <2>11, <2>12, <2>13,
             <2>14, <2>15, <2>16, <2>17, <2>18, <2>19 DEF Next
<1> QED BY <1>3, <1>4

\* The offsets of the values of an accepted document lead to their texts: they
\* lie within those of the container, apart from those of its other members,
\* and at its brackets (readValue, readObject, readArray, decodeNumber and the
\* other decoders; setOffsetStart, setOffsetLimit).
THEOREM OffsetsCorrect == Spec => []OffsetsNest
<1>1. ReaderInv /\ LaidInv => OffsetsNest
  <2> SUFFICES ASSUME ReaderInv, LaidInv, phase = "done", successful, ~Dropping
               PROVE  OffsetsNest
    BY DEF OffsetsNest, Dropping
  <2>1. Laid /\ levels = <<>>
    <3>1. Laid BY DEF LaidInv, Failing
    <3> QED BY <3>1 DEF Laid, AtLevel
  <2>2. (phase = "value") = FALSE OBVIOUS
  <2>3. Good(root, path, <<>>, FALSE, current) BY <2>1, <2>2 DEF Laid
  <2>4. Offsets(root, path, <<>>, FALSE, current) /\ IsTree(root) BY <2>3 DEF Good, Placing
  <2>5. ASSUME NEW p \in DOMAIN root PROVE Done(p, path, <<>>, FALSE)
    <3>1. Len(p) \in Nat BY <2>4, LenIsNat DEF IsTree
    <3>2. ~(Len(p) < Len(<<>>)) BY <3>1, EmptySeq
    <3> QED BY <3>2 DEF Done, Reading, Waiting
  <2>6. ASSUME NEW p \in DOMAIN root
        PROVE  /\ Spans(root[p])
               /\ p # <<>> =>
                      /\ root[Front(p)].start < root[p].start
                      /\ root[p].limit < root[Front(p)].limit
                      /\ \A q \in DOMAIN root \ {p} :
                             Len(q) = Len(p) /\ Front(q) = Front(p) => Apart(root[p], root[q])
    <3>1. Spans(root[p]) BY <2>4, <2>5 DEF Offsets, Ended_
    <3>2. ASSUME p # <<>>
          PROVE  root[Front(p)].start < root[p].start /\ root[p].limit < root[Front(p)].limit
      <4>1. Front(p) \in DOMAIN root BY <2>4, <3>2 DEF IsTree
      <4> QED BY <2>4, <2>5, <3>2, <4>1 DEF Offsets, Waiting
    <3>3. ASSUME NEW q \in DOMAIN root \ {p}, Len(q) = Len(p) /\ Front(q) = Front(p)
          PROVE  Apart(root[p], root[q])
      <4>1. Siblings(p, q) BY <3>3 DEF Siblings
      <4> QED BY <2>4, <2>5, <4>1 DEF Offsets
    <3> QED BY <3>1, <3>2, <3>3
  <2> QED BY <2>6 DEF OffsetsNest
<1> QED BY <1>1, InitReaderInv, NextReaderInv, InitLaid, NextLaidInv, PTL DEF Spec

-----------------------------------------------------------------------------
\* Texts and their parts.

LEMMA Joined ==
    ASSUME NEW s, IsSeq(s), NEW t, IsSeq(t)
    PROVE  /\ IsSeq(s \o t) /\ Len(s \o t) = Len(s) + Len(t)
           /\ \A i \in 1..Len(s) : (s \o t)[i] = s[i]
           /\ \A i \in 1..Len(t) : (s \o t)[Len(s) + i] = t[i]
<1> DEFINE S == Range(s) \cup Range(t)
           c == s \o t
<1>1. s \in Seq(S) /\ t \in Seq(S) BY SeqMonotonic DEF IsSeq
<1>2. Len(s) \in Nat /\ Len(t) \in Nat BY LenIsNat
<1> HIDE DEF S
<1>3. /\ c \in Seq(S) /\ Len(c) = Len(s) + Len(t)
      /\ \A i \in 1..(Len(s) + Len(t)) : c[i] = IF i <= Len(s) THEN s[i] ELSE t[i - Len(s)]
  BY <1>1, ConcatProperties
<1>4. IsSeq(c) BY <1>3, AnySeq
<1> HIDE DEF c
<1>5. \A i \in 1..Len(s) : i \in 1..(Len(s) + Len(t)) /\ i <= Len(s) BY <1>2
<1>6. \A i \in 1..Len(t) : /\ Len(s) + i \in 1..(Len(s) + Len(t))
                           /\ ~(Len(s) + i <= Len(s)) /\ (Len(s) + i) - Len(s) = i
  BY <1>2
<1>7. \A i \in 1..Len(s) : c[i] = s[i] BY <1>3, <1>5
<1>8. \A i \in 1..Len(t) : c[Len(s) + i] = t[i] BY <1>3, <1>6
<1> QED BY <1>3, <1>4, <1>7, <1>8 DEF c

\* The elements of a part, one after the other.
LEMMA PartAt ==
    ASSUME NEW x, IsSeq(x), NEW y, IsSeq(y)
    PROVE  IsPart(x, y) <=> \E i \in Nat : /\ i + Len(x) <= Len(y)
                                           /\ \A j \in 1..Len(x) : y[i + j] = x[j]
<1> DEFINE n == Len(x)
           m == Len(y)
<1>1. n \in Nat /\ m \in Nat BY LenIsNat
<1>2. \A i : i \in 0..(m - n) <=> i \in Nat /\ i + n <= m BY <1>1
<1>3. ASSUME NEW i \in Nat, i + n <= m
      PROVE  SubSeq(y, i + 1, i + n) = x <=> \A j \in 1..n : y[i + j] = x[j]
  <2> DEFINE R == Range(y)
             f == SubSeq(y, i + 1, i + n)
             a == i + 1
             b == i + n
  <2>1. y \in Seq(R) BY DEF IsSeq
  <2> HIDE DEF R
  <2>2. \A k \in a..b : k \in 1..m BY <1>1, <1>3
  <2>3. \A k \in 1..m : y[k] \in R BY <2>1, LenProperties
  <2>4. \A k \in a..b : y[k] \in R BY <2>2, <2>3
  <2>5. a \in Int /\ b \in Int BY <1>1
  <2>6. (IF a <= b THEN b - a + 1 ELSE 0) = n /\ b - a + 1 = n
        /\ \A j \in 1..n : a + j - 1 = i + j
    BY <1>1
  <2>7. f = SubSeq(y, a, b) OBVIOUS
  <2> HIDE DEF n, m, a, b, f
  <2>8. /\ f \in Seq(R) /\ Len(f) = IF a <= b THEN b - a + 1 ELSE 0
        /\ \A j \in 1..(b - a + 1) : f[j] = y[a + j - 1]
    BY <2>4, <2>5, <2>7, SubSeqProperties
  <2>9. IsSeq(f) BY <2>8, AnySeq
  <2>10. Len(f) = n /\ \A j \in 1..n : f[j] = y[i + j] BY <2>6, <2>8
  <2>11. Len(x) = n BY DEF n
  <2>12. f = x <=> \A j \in 1..n : f[j] = x[j] BY <2>9, <2>10, <2>11, SameElements
  <2>13. f = x <=> \A j \in 1..n : y[i + j] = x[j] BY <2>10, <2>12
  <2> QED BY <2>13 DEF f, a, b, n
<1>4. IsPart(x, y) <=> \E i \in 0..(m - n) : SubSeq(y, i + 1, i + n) = x BY DEF IsPart
<1> HIDE DEF n, m
<1>5. IsPart(x, y) <=> \E i \in Nat : i + n <= m /\ SubSeq(y, i + 1, i + n) = x
  BY <1>2, <1>4
<1>6. IsPart(x, y) <=> \E i \in Nat : i + n <= m /\ \A j \in 1..n : y[i + j] = x[j]
  BY <1>3, <1>5
<1> QED BY <1>6 DEF n, m

LEMMA NothingIsPart ==
    ASSUME NEW x, IsSeq(x)
    PROVE  IsPart(<<>>, x) /\ (IsPart(x, <<>>) => x = <<>>)
<1>1. IsSeq(<<>>) /\ Len(<<>>) = 0 BY AnySeq, EmptySeq
<1>2. Len(x) \in Nat BY LenIsNat
<1>3. IsPart(<<>>, x)
  <2>1. 0 \in Nat /\ 0 + Len(<<>>) <= Len(x) /\ \A j \in 1..Len(<<>>) : FALSE BY <1>1, <1>2
  <2> QED BY <1>1, <2>1, PartAt
<1>4. ASSUME IsPart(x, <<>>) PROVE x = <<>>
  <2>1. \E i \in Nat : i + Len(x) <= Len(<<>>) BY <1>1, <1>4, PartAt
  <2>2. Len(x) = 0 BY <1>1, <1>2, <2>1
  <2> QED BY <1>1, <2>2, SameElements
<1> QED BY <1>3, <1>4

\* What begins with the whole has its parts.
LEMMA PartOfLonger ==
    ASSUME NEW x, IsSeq(x), NEW y, IsSeq(y), NEW z, IsSeq(z), IsPart(x, y), Len(y) <= Len(z),
           \A i \in 1..Len(y) : z[i] = y[i]
    PROVE  IsPart(x, z)
<1>1. Len(x) \in Nat /\ Len(y) \in Nat /\ Len(z) \in Nat BY LenIsNat
<1>2. PICK i \in Nat : i + Len(x) <= Len(y) /\ \A j \in 1..Len(x) : y[i + j] = x[j]
  BY PartAt
<1>3. i + Len(x) <= Len(z) /\ \A j \in 1..Len(x) : i + j \in 1..Len(y) BY <1>1, <1>2
<1>4. \A j \in 1..Len(x) : z[i + j] = x[j] BY <1>2, <1>3
<1> QED BY <1>3, <1>4, PartAt

\* What is left of a comment without its newline.
LEMMA TrimmedAt ==
    ASSUME NEW w, IsSeq(w)
    PROVE  /\ IsSeq(Trimmed(w)) /\ Len(Trimmed(w)) <= Len(w)
           /\ Len(Trimmed(w)) = IF w # <<>> /\ w[Len(w)] = "\n" THEN Len(w) - 1 ELSE Len(w)
           /\ \A i \in 1..Len(Trimmed(w)) : Trimmed(w)[i] = w[i]
<1>1. Len(w) \in Nat BY LenIsNat
<1>2. CASE w # <<>> /\ w[Len(w)] = "\n"
  <2>1. Trimmed(w) = Front(w) BY <1>2 DEF Trimmed, Last
  <2>2. /\ IsSeq(Front(w)) /\ Len(Front(w)) = Len(w) - 1
        /\ \A i \in 1..(Len(w) - 1) : Front(w)[i] = w[i]
    BY <1>2, FrontIsPrefix
  <2>3. Len(w) - 1 <= Len(w) BY <1>1
  <2> QED BY <1>2, <2>1, <2>2, <2>3
<1>3. CASE ~(w # <<>> /\ w[Len(w)] = "\n")
  <2>1. Trimmed(w) = w BY <1>3 DEF Trimmed, Last
  <2> QED BY <1>1, <1>3, <2>1
<1> QED BY <1>2, <1>3

\* A comment that is added to others is a part of them all, as those are.
LEMMA TrimmedTogether ==
    ASSUME NEW b, IsSeq(b), NEW c, IsSeq(c)
    PROVE  /\ IsPart(Trimmed(c), Trimmed(b \o c))
           /\ \A x : IsSeq(x) /\ IsPart(x, Trimmed(b)) => IsPart(x, Trimmed(b \o c))
<1> DEFINE w == b \o c
           n == Len(b)
           m == Len(c)
           y == Trimmed(w)
           d == Trimmed(c)
           a == Trimmed(b)
<1>1. n \in Nat /\ m \in Nat BY LenIsNat
<1>2. /\ IsSeq(w) /\ Len(w) = n + m
      /\ \A i \in 1..n : w[i] = b[i]
      /\ \A i \in 1..m : w[n + i] = c[i]
  BY Joined
<1>3. /\ IsSeq(d) /\ Len(d) <= m
      /\ Len(d) = IF c # <<>> /\ c[m] = "\n" THEN m - 1 ELSE m
      /\ \A i \in 1..Len(d) : d[i] = c[i]
  BY TrimmedAt
<1>4. /\ IsSeq(a) /\ Len(a) <= n /\ \A i \in 1..Len(a) : a[i] = b[i] BY TrimmedAt
<1>5. c = <<>> <=> m = 0
  <2>1. IsSeq(<<>>) /\ Len(<<>>) = 0 BY AnySeq, EmptySeq
  <2> QED BY <2>1, SameElements
<1>6. CASE c = <<>>
  <2>1. d = <<>> BY <1>6 DEF Trimmed
  <2>2. w = b BY <1>6, ConcatEmptySeq DEF IsSeq
  <2>3. IsSeq(y) BY <1>2, TrimmedAt
  <2> QED BY <2>1, <2>2, <2>3, NothingIsPart
<1>7. CASE c # <<>>
  <2>1. m \in Nat \ {0} /\ m \in 1..m BY <1>1, <1>5, <1>7
  <2>2. w[n + m] = c[m] /\ w # <<>>
    <3>1. n + m # 0 BY <1>1, <2>1
    <3>2. w # <<>> BY <1>2, <3>1, EmptySeq
    <3> QED BY <1>2, <2>1, <3>2
  <2> HIDE DEF w
  <2>3. /\ IsSeq(y)
        /\ Len(y) = IF w # <<>> /\ w[n + m] = "\n" THEN n + m - 1 ELSE n + m
        /\ \A i \in 1..Len(y) : y[i] = w[i]
    BY <1>2, TrimmedAt
  <2> HIDE DEF n, m, y, d, a
  <2>4. Len(d) \in Nat /\ Len(y) = n + Len(d) /\ n <= Len(y)
    BY <1>1, <1>3, <1>7, <2>1, <2>2, <2>3
  <2>5. \A i \in 1..n : i \in 1..Len(y) BY <1>1, <2>4
  <2>6. \A i \in 1..n : y[i] = b[i] BY <1>2, <2>3, <2>5
  <2>7. \A i \in 1..Len(d) : n + i \in 1..Len(y) /\ i \in 1..m
    BY <1>1, <1>3, <2>4
  <2>8. \A i \in 1..Len(d) : y[n + i] = d[i] BY <1>2, <1>3, <2>3, <2>7
  <2>9. n + Len(d) <= Len(y) BY <1>1, <2>4
  <2>10. IsPart(d, y) BY <1>1, <1>3, <2>3, <2>8, <2>9, PartAt
  <2>11. Len(a) \in Nat BY <1>4, LenIsNat
  <2>12. Len(a) <= Len(y) /\ \A i \in 1..Len(a) : i \in 1..n
    BY <1>1, <1>4, <2>4, <2>11
  <2>13. \A i \in 1..Len(a) : y[i] = a[i] BY <1>4, <2>6, <2>12
  <2>14. ASSUME NEW x, IsSeq(x), IsPart(x, a) PROVE IsPart(x, y)
    BY <1>4, <2>3, <2>12, <2>13, <2>14, PartOfLonger
  <2> QED BY <2>10, <2>14 DEF y, d, a, w
<1> QED BY <1>6, <1>7

-----------------------------------------------------------------------------
\* Line ends are unified, and the text of a comment stays a sequence.

\* What FlattenSeq gives of the first n of some sequences.
Flattened(f, s, n) == f = [i \in 1..n |-> IF i = 1 THEN s[i] ELSE f[i - 1] \o s[i]]

LEMMA FlattensTo ==
    ASSUME NEW s, NEW n \in Nat
    PROVE  \E f : Flattened(f, s, n)
<1> DEFINE A == {k \in Nat : ~\E f : Flattened(f, s, k)}
<1>1. SUFFICES ASSUME A # {} PROVE FALSE
  OBVIOUS
<1>2. PICK k \in A : \A m \in A : k <= m
  <2>1. A \subseteq Nat OBVIOUS
  <2> HIDE DEF A
  <2> QED BY <1>1, <2>1, LeastNatural
<1>3. CASE k = 0
  <2> DEFINE f == [i \in 1..0 |-> 0]
  <2>1. f = [i \in 1..0 |-> IF i = 1 THEN s[i] ELSE f[i - 1] \o s[i]] OBVIOUS
  <2>2. Flattened(f, s, 0) BY <2>1 DEF Flattened
  <2> QED BY <1>2, <1>3, <2>2
<1>4. CASE k # 0
  <2> DEFINE m == k - 1
  <2>1. m \in Nat /\ ~(k <= m) BY <1>2, <1>4
  <2>2. m \notin A BY <1>2, <2>1
  <2>3. PICK f : Flattened(f, s, m) BY <2>1, <2>2
  <2> DEFINE g == [i \in 1..k |-> IF i = k THEN IF k = 1 THEN s[k] ELSE f[m] \o s[k] ELSE f[i]]
             h == [i \in 1..k |-> IF i = 1 THEN s[i] ELSE g[i - 1] \o s[i]]
  <2>4. DOMAIN f = 1..m /\ \A i \in 1..m : f[i] = IF i = 1 THEN s[i] ELSE f[i - 1] \o s[i]
    BY <2>3 DEF Flattened
  <2>5. ASSUME NEW i \in 1..k PROVE g[i] = IF i = 1 THEN s[i] ELSE g[i - 1] \o s[i]
    <3>1. CASE i = k
      <4>1. k # 1 => k - 1 \in 1..k /\ k - 1 # k /\ m = k - 1 BY <1>2, <1>4
      <4>2. k # 1 => g[k - 1] = f[m] BY <4>1
      <4> QED BY <3>1, <4>2
    <3>2. CASE i # k
      <4>1. i \in 1..m /\ (i # 1 => i - 1 \in 1..k /\ i - 1 # k) BY <1>2, <3>2
      <4>2. g[i] = f[i] /\ (i # 1 => g[i - 1] = f[i - 1]) BY <3>2, <4>1
      <4> QED BY <2>4, <4>1, <4>2
    <3> QED BY <3>1, <3>2
  <2>6. g = h
    <3>1. DOMAIN g = 1..k /\ DOMAIN h = 1..k OBVIOUS
    <3>2. \A i \in 1..k : g[i] = h[i] BY <2>5
    <3>3. g = [i \in 1..k |-> g[i]] /\ h = [i \in 1..k |-> h[i]] OBVIOUS
    <3> HIDE DEF g, h
    <3> QED BY <3>2, <3>3
  <2>7. Flattened(g, s, k) BY <2>6 DEF Flattened
  <2> QED BY <1>2, <2>7
<1> QED BY <1>3, <1>4

LEMMA FlatIsSeq ==
    ASSUME NEW s, IsSeq(s), \A i \in 1..Len(s) : IsSeq(s[i])
    PROVE  IsSeq(FlattenSeq(s))
<1> DEFINE n == Len(s)
           f == CHOOSE f : Flattened(f, s, n)
<1>1. n \in Nat BY LenIsNat
<1>2. CASE n = 0
  <2>1. FlattenSeq(s) = s BY <1>2 DEF FlattenSeq
  <2> QED BY <2>1
<1>3. CASE n # 0
  <2>1. FlattenSeq(s) = f[n] BY <1>3 DEF FlattenSeq, Flattened
  <2>2. Flattened(f, s, n) BY <1>1, FlattensTo
  <2> HIDE DEF f
  <2>3. \A i \in 1..n : f[i] = IF i = 1 THEN s[i] ELSE f[i - 1] \o s[i]
    BY <2>2 DEF Flattened
  <2> DEFINE A == {i \in 1..n : ~IsSeq(f[i])}
  <2>4. A = {}
    <3> SUFFICES ASSUME A # {} PROVE FALSE
      OBVIOUS
    <3>1. PICK k \in A : \A i \in A : k <= i
      <4>1. A \subseteq Nat OBVIOUS
      <4> HIDE DEF A
      <4> QED BY <4>1, LeastNatural
    <3>2. k \in 1..n /\ ~IsSeq(f[k]) OBVIOUS
    <3>3. k # 1 BY <2>3, <3>2
    <3>4. k - 1 \in 1..n /\ ~(k <= k - 1) BY <1>1, <3>2, <3>3
    <3>5. IsSeq(f[k - 1]) BY <3>1, <3>4
    <3>6. f[k] = f[k - 1] \o s[k] BY <2>3, <3>2, <3>3
    <3>7. IsSeq(s[k]) BY <3>2
    <3> HIDE DEF A, n
    <3>8. IsSeq(f[k - 1] \o s[k]) BY <3>5, <3>7, Joined
    <3> QED BY <3>2, <3>6, <3>8
  <2>5. n \in 1..n BY <1>1, <1>3
  <2> QED BY <2>1, <2>4, <2>5
<1> QED BY <1>2, <1>3

LEMMA Normalized ==
    ASSUME NEW chars, IsSeq(chars)
    PROVE  IsSeq(NormalizeEOL(chars))
<1> DEFINE e(i) == IF chars[i] # "\r" THEN <<chars[i]>>
                   ELSE IF i # Len(chars) /\ chars[i + 1] = "\n" THEN <<>> ELSE <<"\n">>
           n == Len(chars)
           s == [i \in 1..n |-> e(i)]
<1>1. n \in Nat /\ DOMAIN chars = 1..n BY LenProperties DEF IsSeq
<1>2. NormalizeEOL(chars) = FlattenSeq(s) BY <1>1 DEF NormalizeEOL
<1>3. \A i \in 1..n : IsSeq(e(i))
  <2>1. \A c : <<c>> \in Seq({c}) OBVIOUS
  <2>2. \A c : IsSeq(<<c>>) BY <2>1, AnySeq
  <2>3. IsSeq(<<>>) BY AnySeq, EmptySeq
  <2> QED BY <2>2, <2>3
<1> DEFINE S == {e(i) : i \in 1..n}
<1>4. s \in [1..n -> S] OBVIOUS
<1>5. \A i \in 1..n : s[i] = e(i) OBVIOUS
<1>6. \A i \in 1..n : IsSeq(s[i]) BY <1>3, <1>5
<1> HIDE DEF n, s, S, e
<1>7. s \in Seq(S) /\ Len(s) = n BY <1>1, <1>4
<1>8. IsSeq(s) BY <1>7, AnySeq
<1>9. IsSeq(FlattenSeq(s)) BY <1>6, <1>7, <1>8, FlatIsSeq
<1> QED BY <1>2, <1>9

\* The text of a token.
LEMMA SliceIsSeq ==
    ASSUME text \in Seq(STRING), End \in Nat, NEW a \in 0..End, NEW b \in 0..End
    PROVE  IsSeq(Slice(a, b))
<1> DEFINE m == a + 1
<1>1. Len(text) = End BY DEF End
<1>2. \A i \in m..b : i \in 1..End OBVIOUS
<1>3. \A i \in 1..End : text[i] \in STRING BY <1>1, LenProperties
<1>4. \A i \in m..b : text[i] \in STRING BY <1>2, <1>3
<1>5. m \in Int /\ b \in Int OBVIOUS
<1>6. Slice(a, b) = SubSeq(text, m, b) BY DEF Slice
<1> HIDE DEF m
<1>7. SubSeq(text, m, b) \in Seq(STRING) BY <1>4, <1>5, SubSeqProperties
<1> QED BY <1>6, <1>7, AnySeq

-----------------------------------------------------------------------------
\* Where the comments are that were collected.

\* The tree t and the texts b that wait for a value hold the notes ns; at the
\* end (d) nothing waits any more.
Noted(t, b, ns, d) ==
    /\ \A p \in DOMAIN t, o \in Placements : IsSeq(t[p].comments[o])
    /\ IsSeq(b) /\ IsSeq(ns)
    /\ \A i \in 1..Len(ns) : /\ IsSeq(ns[i].comment)
                             /\ ns[i].same => ns[i].value \in DOMAIN t
    /\ ~d => \A p \in DOMAIN t : t[p].comments["commentAfter"] = <<>>
    /\ \A i \in 1..Len(ns) :
           \/ Kept(t, ns[i]) \/ Displaced(ns, i)
           \/ ~d /\ ~ns[i].same /\ IsPart(ns[i].comment, Trimmed(b))

\* u has the comments of t, and none else.
SameComments(t, u) ==
    /\ \A p \in DOMAIN t : p \in DOMAIN u /\ u[p].comments = t[p].comments
    /\ \A p \in DOMAIN u : p \notin DOMAIN t => u[p].comments = NoComments

LEMMA SameCommentsThrough ==
    ASSUME NEW t, NEW u, NEW v, SameComments(t, u), SameComments(u, v)
    PROVE  SameComments(t, v)
BY DEF SameComments

LEMMA NotedOn ==
    ASSUME NEW t, NEW u, SameComments(t, u), NEW b, NEW ns, Noted(t, b, ns, FALSE)
    PROVE  Noted(u, b, ns, FALSE)
<1>1. \A p \in DOMAIN t : p \in DOMAIN u /\ u[p].comments = t[p].comments BY DEF SameComments
<1>2. \A p \in DOMAIN u : p \notin DOMAIN t => u[p].comments = NoComments BY DEF SameComments
<1>3. IsSeq(<<>>) BY AnySeq, EmptySeq
<1>4. \A p \in DOMAIN u, o \in Placements : IsSeq(u[p].comments[o])
  <2> SUFFICES ASSUME NEW p \in DOMAIN u, NEW o \in Placements PROVE IsSeq(u[p].comments[o])
    OBVIOUS
  <2>1. CASE p \in DOMAIN t BY <1>1, <2>1 DEF Noted
  <2>2. CASE p \notin DOMAIN t
    <3>1. u[p].comments[o] = <<>> BY <1>2, <2>2 DEF NoComments
    <3> QED BY <1>3, <3>1
  <2> QED BY <2>1, <2>2
<1>5. \A p \in DOMAIN u : u[p].comments["commentAfter"] = <<>>
  BY <1>1, <1>2 DEF Noted, NoComments, Placements
<1>6. ASSUME NEW note, Kept(t, note), note.same => note.value \in DOMAIN t PROVE Kept(u, note)
  BY <1>1, <1>6 DEF Kept
<1> QED BY <1>1, <1>4, <1>5, <1>6 DEF Noted

\* The comments before a value are put to it: it has none yet.
LEMMA NotedBefore ==
    ASSUME NEW t, IsTree(t), NEW pa \in DOMAIN t, t[pa].comments["commentBefore"] = <<>>,
           NEW b, b # <<>>, NEW ns, Noted(t, b, ns, FALSE),
           NEW u, u = SetComment(t, pa, b, "commentBefore")
    PROVE  Noted(u, <<>>, ns, FALSE)
<1>1. /\ DOMAIN u = DOMAIN t
      /\ \A q \in DOMAIN u, o \in Placements :
             u[q].comments[o] = IF q = pa /\ o = "commentBefore" THEN Trimmed(b)
                                                                 ELSE t[q].comments[o]
  BY Commented DEF Placements
<1>2. IsSeq(<<>>) BY AnySeq, EmptySeq
<1>3. IsSeq(Trimmed(b)) BY TrimmedAt DEF Noted
<1>4. \A p \in DOMAIN u, o \in Placements : IsSeq(u[p].comments[o]) BY <1>1, <1>3 DEF Noted
<1>5. \A p \in DOMAIN u : u[p].comments["commentAfter"] = <<>>
  BY <1>1 DEF Noted, Placements
<1>6. ASSUME NEW note, Kept(t, note), IsSeq(note.comment), note.same => note.value \in DOMAIN t
      PROVE  Kept(u, note)
  <2>1. CASE note.same BY <1>1, <1>6, <2>1 DEF Kept, Placements
  <2>2. CASE ~note.same
    <3>1. PICK p \in DOMAIN t, o \in {"commentBefore", "commentAfter"} :
              IsPart(note.comment, t[p].comments[o])
      BY <1>6, <2>2 DEF Kept
    <3>2. CASE p = pa /\ o = "commentBefore"
      <4>1. note.comment = <<>> BY <1>6, <3>1, <3>2, NothingIsPart
      <4>2. IsPart(note.comment, Trimmed(b)) BY <1>3, <4>1, NothingIsPart
      <4>3. u[pa].comments["commentBefore"] = Trimmed(b) BY <1>1 DEF Placements
      <4> QED BY <1>1, <2>2, <4>2, <4>3 DEF Kept
    <3>3. CASE ~(p = pa /\ o = "commentBefore")
      <4>1. u[p].comments[o] = t[p].comments[o] BY <1>1, <3>3 DEF Placements
      <4> QED BY <1>1, <2>2, <3>1, <4>1 DEF Kept
    <3> QED BY <3>2, <3>3
  <2> QED BY <2>1, <2>2
<1>7. ASSUME NEW note, ~note.same, IsPart(note.comment, Trimmed(b)) PROVE Kept(u, note)
  <2>1. u[pa].comments["commentBefore"] = Trimmed(b) BY <1>1 DEF Placements
  <2> QED BY <1>1, <1>7, <2>1 DEF Kept
<1> QED BY <1>1, <1>2, <1>4, <1>5, <1>6, <1>7 DEF Noted

\* Those that wait at the end are put to the root, which has none behind it yet.
LEMMA NotedAfter ==
    ASSUME NEW t, IsTree(t), <<>> \in DOMAIN t, NEW b, NEW ns, Noted(t, b, ns, FALSE),
           NEW u, u = IF b = <<>> THEN t ELSE SetComment(t, <<>>, b, "commentAfter")
    PROVE  Noted(u, b, ns, TRUE)
<1>1. CASE b = <<>>
  <2>1. u = t BY <1>1
  <2>2. ASSUME NEW note, IsSeq(note.comment), ~note.same, IsPart(note.comment, Trimmed(b))
        PROVE  Kept(u, note)
    <3>1. Trimmed(b) = <<>> BY <1>1 DEF Trimmed
    <3>2. note.comment = <<>> BY <2>2, <3>1, NothingIsPart
    <3>3. IsSeq(t[<<>>].comments["commentBefore"]) BY DEF Noted, Placements
    <3>4. IsPart(note.comment, t[<<>>].comments["commentBefore"]) BY <3>2, <3>3, NothingIsPart
    <3> QED BY <2>1, <2>2, <3>4 DEF Kept
  <2> QED BY <2>1, <2>2 DEF Noted
<1>2. CASE b # <<>>
  <2>0. u = SetComment(t, <<>>, b, "commentAfter") BY <1>2
  <2>1. /\ DOMAIN u = DOMAIN t
        /\ \A q \in DOMAIN u, o \in Placements :
               u[q].comments[o] = IF q = <<>> /\ o = "commentAfter" THEN Trimmed(b)
                                                                    ELSE t[q].comments[o]
    BY <2>0, Commented DEF Placements
  <2>3. IsSeq(Trimmed(b)) BY TrimmedAt DEF Noted
  <2>4. \A p \in DOMAIN u, o \in Placements : IsSeq(u[p].comments[o]) BY <2>1, <2>3 DEF Noted
  <2>6. ASSUME NEW note, Kept(t, note), IsSeq(note.comment),
               note.same => note.value \in DOMAIN t
        PROVE  Kept(u, note)
    <3>1. CASE note.same BY <2>1, <2>6, <3>1 DEF Kept, Placements
    <3>2. CASE ~note.same
      <4>1. PICK p \in DOMAIN t, o \in {"commentBefore", "commentAfter"} :
                IsPart(note.comment, t[p].comments[o])
        BY <2>6, <3>2 DEF Kept
      <4>2. CASE p = <<>> /\ o = "commentAfter"
        <5>1. t[p].comments[o] = <<>> BY <4>2 DEF Noted
        <5>2. note.comment = <<>> BY <2>6, <4>1, <5>1, NothingIsPart
        <5>3. IsPart(note.comment, Trimmed(b)) BY <2>3, <5>2, NothingIsPart
        <5>4. u[<<>>].comments["commentAfter"] = Trimmed(b) BY <2>1 DEF Placements
        <5> QED BY <2>1, <3>2, <5>3, <5>4 DEF Kept
      <4>3. CASE ~(p = <<>> /\ o = "commentAfter")
        <5>1. u[p].comments[o] = t[p].comments[o] BY <2>1, <4>3 DEF Placements
        <5> QED BY <2>1, <3>2, <4>1, <5>1 DEF Kept
      <4> QED BY <4>2, <4>3
    <3> QED BY <3>1, <3>2
  <2>7. ASSUME NEW note, ~note.same, IsPart(note.comment, Trimmed(b)) PROVE Kept(u, note)
    <3>1. u[<<>>].comments["commentAfter"] = Trimmed(b) BY <2>1 DEF Placements
    <3> QED BY <2>1, <2>7, <3>1 DEF Kept
  <2> QED BY <2>1, <2>4, <2>6, <2>7 DEF Noted
<1> QED BY <1>1, <1>2

\* A note is made of a comment that waits.
LEMMA NotedWaiting ==
    ASSUME NEW t, NEW b, NEW ns, Noted(t, b, ns, FALSE), NEW c, IsSeq(c),
           NEW note, note.comment = Trimmed(c), ~note.same
    PROVE  Noted(t, b \o c, Append(ns, note), FALSE)
<1> DEFINE m == Len(ns)
           nt == Append(ns, note)
           w == b \o c
<1>1. IsSeq(b) /\ IsSeq(ns) BY DEF Noted
<1>2. /\ IsSeq(nt) /\ Len(nt) = m + 1 /\ m \in Nat
      /\ \A i \in 1..m : nt[i] = ns[i]
      /\ nt[m + 1] = note
  BY <1>1, AppendAt
<1>3. /\ IsSeq(w) /\ IsPart(Trimmed(c), Trimmed(w))
      /\ \A x : IsSeq(x) /\ IsPart(x, Trimmed(b)) => IsPart(x, Trimmed(w))
  BY <1>1, Joined, TrimmedTogether
<1>4. IsSeq(Trimmed(c)) BY TrimmedAt
<1> HIDE DEF nt, m, w
<1>5. \A i \in 1..Len(nt) : i \in 1..m \/ i = m + 1 BY <1>2
<1>6. ASSUME NEW i \in 1..m, Displaced(ns, i) PROVE Displaced(nt, i)
  <2>1. PICK j \in (i + 1)..m : ns[j].same /\ ns[j].value = ns[i].value
    BY <1>6 DEF Displaced, m
  <2>2. j \in 1..m /\ j \in (i + 1)..Len(nt) BY <1>2
  <2> QED BY <1>2, <1>6, <2>1, <2>2 DEF Displaced
<1>7. \A i \in 1..m : /\ IsSeq(ns[i].comment) /\ (ns[i].same => ns[i].value \in DOMAIN t)
                      /\ \/ Kept(t, ns[i]) \/ Displaced(ns, i)
                         \/ ~ns[i].same /\ IsPart(ns[i].comment, Trimmed(b))
  BY DEF Noted, m
<1>8. \A i \in 1..Len(nt) : IsSeq(nt[i].comment) /\ (nt[i].same => nt[i].value \in DOMAIN t)
  BY <1>2, <1>4, <1>5, <1>7
<1>9. \A i \in 1..Len(nt) : \/ Kept(t, nt[i]) \/ Displaced(nt, i)
                            \/ ~nt[i].same /\ IsPart(nt[i].comment, Trimmed(w))
  BY <1>2, <1>3, <1>5, <1>6, <1>7
<1>10. Noted(t, w, nt, FALSE) BY <1>2, <1>3, <1>8, <1>9 DEF Noted
<1> QED BY <1>10 DEF nt, w

\* A comment is put behind a value, on its line, where another one may have been.
LEMMA NotedBehind ==
    ASSUME NEW t, IsTree(t), NEW b, NEW ns, Noted(t, b, ns, FALSE), NEW c, IsSeq(c),
           NEW pa \in DOMAIN t, NEW u, u = SetComment(t, pa, c, "commentAfterOnSameLine"),
           NEW note, note.comment = Trimmed(c), note.same, note.value = pa
    PROVE  Noted(u, b, Append(ns, note), FALSE)
<1> DEFINE m == Len(ns)
           nt == Append(ns, note)
<1>1. IsSeq(b) /\ IsSeq(ns) BY DEF Noted
<1>2. /\ IsSeq(nt) /\ Len(nt) = m + 1 /\ m \in Nat
      /\ \A i \in 1..m : nt[i] = ns[i]
      /\ nt[m + 1] = note
  BY <1>1, AppendAt
<1>3. /\ DOMAIN u = DOMAIN t
      /\ \A q \in DOMAIN u, o \in Placements :
             u[q].comments[o] = IF q = pa /\ o = "commentAfterOnSameLine" THEN Trimmed(c)
                                                                          ELSE t[q].comments[o]
  BY Commented DEF Placements
<1>4. IsSeq(Trimmed(c)) BY TrimmedAt
<1> HIDE DEF nt, m
<1>5. \A i \in 1..Len(nt) : i \in 1..m \/ i = m + 1 BY <1>2
<1>6. ASSUME NEW i \in 1..m, Displaced(ns, i) PROVE Displaced(nt, i)
  <2>1. PICK j \in (i + 1)..m : ns[j].same /\ ns[j].value = ns[i].value
    BY <1>6 DEF Displaced, m
  <2>2. j \in 1..m /\ j \in (i + 1)..Len(nt) BY <1>2
  <2> QED BY <1>2, <1>6, <2>1, <2>2 DEF Displaced
<1>7. \A i \in 1..m : /\ IsSeq(ns[i].comment) /\ (ns[i].same => ns[i].value \in DOMAIN t)
                      /\ \/ Kept(t, ns[i]) \/ Displaced(ns, i)
                         \/ ~ns[i].same /\ IsPart(ns[i].comment, Trimmed(b))
  BY DEF Noted, m
<1>8. \A i \in 1..Len(nt) : IsSeq(nt[i].comment) /\ (nt[i].same => nt[i].value \in DOMAIN u)
  BY <1>2, <1>3, <1>4, <1>5, <1>7
<1>9. ASSUME NEW i \in 1..m, Kept(t, ns[i]) PROVE Kept(u, nt[i]) \/ Displaced(nt, i)
  <2>1. CASE ns[i].same /\ ns[i].value = pa
    <3>1. m + 1 \in (i + 1)..Len(nt) BY <1>2
    <3> QED BY <1>2, <2>1, <3>1 DEF Displaced
  <2>2. CASE ns[i].same /\ ns[i].value # pa
    BY <1>2, <1>3, <1>7, <1>9, <2>2 DEF Kept, Placements
  <2>3. CASE ~ns[i].same
    BY <1>2, <1>3, <1>9, <2>3 DEF Kept, Placements
  <2> QED BY <2>1, <2>2, <2>3
<1>10. Kept(u, nt[m + 1]) BY <1>2, <1>3 DEF Kept, Placements
<1>11. \A i \in 1..Len(nt) : \/ Kept(u, nt[i]) \/ Displaced(nt, i)
                             \/ ~nt[i].same /\ IsPart(nt[i].comment, Trimmed(b))
  BY <1>2, <1>5, <1>6, <1>7, <1>9, <1>10
<1>12. \A p \in DOMAIN u, o \in Placements : IsSeq(u[p].comments[o]) BY <1>3, <1>4 DEF Noted
<1>13. \A p \in DOMAIN u : u[p].comments["commentAfter"] = <<>> BY <1>3 DEF Noted, Placements
<1>14. Noted(u, b, nt, FALSE) BY <1>1, <1>2, <1>8, <1>11, <1>12, <1>13 DEF Noted
<1> QED BY <1>14 DEF nt

-----------------------------------------------------------------------------
\* A value that is about to be read is new, unless a member is read again.

\* Nothing is in it, and no comment is before it.
Fresh(t, pa) == /\ \A p \in DOMAIN t : ~IsStrictPrefix(pa, p)
                /\ t[pa].comments["commentBefore"] = <<>>

\* The elements of the arrays that are open are those counted.
Counted(t, pa, lv) ==
    \A q \in DOMAIN t :
        q # <<>> /\ Reading(Front(q), pa, lv) /\ lv[Len(q)].type = "array" =>
            q[Len(q)].index \in 0..lv[Len(q)].index

\* The containers around a value are in the tree.
LEMMA AroundIsIn ==
    ASSUME NEW t, IsTree(t), NEW p \in DOMAIN t, NEW s, IsSeq(s), IsPrefix(s, p)
    PROVE  s \in DOMAIN t
<1> DEFINE B == {q \in DOMAIN t : IsPrefix(s, q)}
           A == {Len(q) : q \in B}
<1>1. A \subseteq Nat /\ A # {} BY LenIsNat DEF IsTree
<1>2. PICK n \in A : \A m \in A : n <= m
  <2> HIDE DEF A
  <2> QED BY <1>1, LeastNatural
<1>3. PICK q \in B : n = Len(q) OBVIOUS
<1>4. IsSeq(q) /\ q \in DOMAIN t /\ IsPrefix(s, q) BY <1>3 DEF IsTree
<1>5. CASE s = q BY <1>4, <1>5
<1>6. CASE s # q
  <2>1. q # <<>> /\ IsPrefix(s, Front(q)) BY <1>4, <1>6, StrictPrefix
  <2>2. Front(q) \in DOMAIN t /\ Len(Front(q)) = Len(q) - 1 /\ Len(q) \in Nat \ {0}
    BY <1>4, <2>1, FrontIsPrefix DEF IsTree
  <2>3. Len(Front(q)) \in A BY <2>1, <2>2
  <2>4. Len(q) <= Len(Front(q)) BY <1>2, <1>3, <2>3
  <2> HIDE DEF A, B
  <2> QED BY <2>2, <2>4
<1> QED BY <1>5, <1>6

LEMMA FreshDescended ==
    ASSUME NEW t, IsTree(t), NEW pa \in DOMAIN t, NEW step, Append(pa, step) \notin DOMAIN t,
           NEW u, u = Resolved(t, Append(pa, step))
    PROVE  Fresh(u, Append(pa, step))
<1> DEFINE pb == Append(pa, step)
<1>1. IsSeq(pa) BY DEF IsTree
<1>2. IsSeq(pb) BY <1>1, AppendAt
<1>3. DOMAIN u = DOMAIN t \cup {pb} /\ u[pb] = Null
  <2> HIDE DEF pb
  <2>1. pb \notin DOMAIN t /\ u = Resolved(t, pb) BY DEF pb
  <2> QED BY <2>1 DEF Resolved
<1> HIDE DEF pb
<1>4. ASSUME NEW p \in DOMAIN u, IsStrictPrefix(pb, p) PROVE FALSE
  <2>1. p \in DOMAIN t /\ IsPrefix(pb, p) BY <1>3, <1>4 DEF IsStrictPrefix
  <2>2. pb \in DOMAIN t BY <1>2, <2>1, AroundIsIn
  <2> QED BY <2>2 DEF pb
<1>5. u[pb].comments["commentBefore"] = <<>>
  BY <1>3, NullNode DEF NoComments, Placements
<1> QED BY <1>4, <1>5 DEF Fresh, pb

\* Further in or out, a container counts no less than it did.
LEMMA CountedOn ==
    ASSUME NEW t, IsTree(t), NEW u, DOMAIN u = DOMAIN t, NEW pa, IsSeq(pa), NEW pb, IsSeq(pb),
           IsPrefix(pb, pa), NEW lv, AreLevels(lv), NEW lw, AreLevels(lw), Len(lw) <= Len(lv),
           \A i \in 1..Len(lw) : lw[i].type = lv[i].type /\ lv[i].index <= lw[i].index,
           Counted(t, pa, lv)
    PROVE  Counted(u, pb, lw)
<1>1. Len(lv) \in Nat /\ Len(lw) \in Nat BY LenIsNat DEF AreLevels
<1>2. ASSUME NEW q \in DOMAIN u, q # <<>>, Reading(Front(q), pb, lw),
             lw[Len(q)].type = "array"
      PROVE  q[Len(q)].index \in 0..lw[Len(q)].index
  <2> DEFINE f == Front(q)
             n == Len(q)
  <2>1. q \in DOMAIN t /\ IsSeq(q) /\ IsSeq(f) /\ Len(f) = n - 1 /\ n \in Nat \ {0}
    BY <1>2, FrontIsPrefix DEF IsTree
  <2>2. Len(f) < Len(lw) /\ IsPrefix(f, pb) BY <1>2 DEF Reading
  <2>3. IsPrefix(f, pa) BY <2>1, <2>2, PrefixOfPrefix
  <2> HIDE DEF f, n
  <2>4. n \in 1..Len(lw) /\ n \in 1..Len(lv) /\ Len(f) < Len(lv) BY <1>1, <2>1, <2>2
  <2>5. Reading(f, pa, lv) BY <2>3, <2>4 DEF Reading
  <2>6. lw[n].type = lv[n].type /\ lv[n].index <= lw[n].index BY <2>4
  <2>7. lv[n].index \in Nat /\ lw[n].index \in Nat BY <2>4 DEF AreLevels, IsLevel
  <2>8. q[n].index \in 0..lv[n].index BY <1>2, <2>1, <2>5, <2>6 DEF Counted, f, n
  <2>9. q[n].index \in 0..lw[n].index BY <2>6, <2>7, <2>8
  <2> QED BY <2>9 DEF n
<1> QED BY <1>2 DEF Counted

\* A container that is begun has nothing in it.
LEMMA CountedOpened ==
    ASSUME NEW t, IsTree(t), NEW pa, IsSeq(pa), NEW lv, AreLevels(lv), Len(pa) = Len(lv),
           \A p \in DOMAIN t : ~IsStrictPrefix(pa, p), Counted(t, pa, lv), NEW l
    PROVE  Counted(t, pa, Append(lv, l))
<1> DEFINE lw == Append(lv, l)
<1>1. /\ Len(lv) \in Nat /\ Len(lw) = Len(lv) + 1 /\ \A i \in 1..Len(lv) : lw[i] = lv[i]
  BY AppendAt DEF AreLevels
<1> HIDE DEF lw
<1>2. ASSUME NEW q \in DOMAIN t, q # <<>>, Reading(Front(q), pa, lw),
             lw[Len(q)].type = "array"
      PROVE  q[Len(q)].index \in 0..lw[Len(q)].index
  <2> DEFINE f == Front(q)
             n == Len(q)
  <2>1. /\ IsSeq(q) /\ IsSeq(f) /\ Len(f) = n - 1 /\ n \in Nat \ {0}
        /\ IsPrefix(f, q) /\ f # q
    BY <1>2, FrontIsPrefix DEF IsTree
  <2>2. Len(f) < Len(lw) /\ IsPrefix(f, pa) BY <1>2 DEF Reading
  <2> HIDE DEF f, n
  <2>3. CASE Len(f) < Len(lv)
    <3>1. Reading(f, pa, lv) BY <2>2, <2>3 DEF Reading
    <3>2. n \in 1..Len(lv) BY <1>1, <2>1, <2>3
    <3>3. lw[n] = lv[n] BY <1>1, <3>2
    <3>4. q[n].index \in 0..lv[n].index BY <1>2, <3>1, <3>3 DEF Counted, f, n
    <3> QED BY <3>3, <3>4 DEF n
  <2>4. CASE ~(Len(f) < Len(lv))
    <3>1. Len(pa) <= Len(f) BY <1>1, <2>1, <2>4
    <3>2. f = pa BY <2>1, <2>2, <3>1, WholePrefix
    <3>3. IsStrictPrefix(pa, q) BY <2>1, <3>2 DEF IsStrictPrefix
    <3> QED BY <3>3
  <2> QED BY <2>3, <2>4
<1>3. Counted(t, pa, lw) BY <1>2 DEF Counted
<1> QED BY <1>3 DEF lw

\* The element that is begun is the one counted last.
LEMMA CountedDescended ==
    ASSUME NEW t, IsTree(t), NEW pa \in DOMAIN t, NEW lv, AreLevels(lv), lv # <<>>,
           Len(pa) = Len(lv) - 1, Counted(t, pa, lv),
           NEW step, lv[Len(lv)].type = "array" => step.index \in 0..lv[Len(lv)].index,
           NEW u, u = Resolved(t, Append(pa, step))
    PROVE  Counted(u, Append(pa, step), lv)
<1> DEFINE pb == Append(pa, step)
<1>1. IsSeq(pa) BY DEF IsTree
<1>2. /\ IsSeq(pb) /\ Len(pb) = Len(pa) + 1 /\ Len(pa) \in Nat /\ pb[Len(pa) + 1] = step
  BY <1>1, AppendAt
<1>3. DOMAIN u = DOMAIN t \cup {pb} /\ IsTree(u)
  <2>1. IsTree(u) BY ResolvedTree
  <2> HIDE DEF pb
  <2>2. u = Resolved(t, pb) BY DEF pb
  <2>3. DOMAIN u = DOMAIN t \cup {pb} BY <2>2 DEF Resolved
  <2> QED BY <2>1, <2>3
<1>4. Len(lv) \in Nat BY LenIsNat DEF AreLevels
<1> HIDE DEF pb
<1>5. Len(pb) = Len(lv) /\ Len(pa) + 1 = Len(lv) BY <1>2, <1>4
<1>6. ASSUME NEW q \in DOMAIN u, q # <<>>, Reading(Front(q), pb, lv),
             lv[Len(q)].type = "array"
      PROVE  q[Len(q)].index \in 0..lv[Len(q)].index
  <2>1. CASE q = pb BY <1>2, <1>5, <1>6, <2>1
  <2>2. CASE q # pb
    <3> DEFINE f == Front(q)
    <3>1. q \in DOMAIN t /\ IsSeq(f)
      BY <1>3, <1>6, <2>2, FrontIsPrefix DEF IsTree
    <3>2. Len(f) \in Nat BY <3>1, LenIsNat
    <3>3. Len(f) < Len(lv) /\ IsPrefix(f, pb) BY <1>6 DEF Reading
    <3> HIDE DEF f
    <3>4. Len(f) <= Len(pa) BY <1>2, <1>4, <1>5, <3>2, <3>3
    <3>5. IsPrefix(f, pa) BY <1>1, <3>1, <3>3, <3>4, PrefixOfLonger DEF pb
    <3>6. Reading(f, pa, lv) BY <3>3, <3>5 DEF Reading
    <3> QED BY <1>6, <3>1, <3>6 DEF Counted, f
  <2> QED BY <2>1, <2>2
<1>7. Counted(u, pb, lv) BY <1>6 DEF Counted
<1> QED BY <1>7 DEF pb

-----------------------------------------------------------------------------
\* Every comment of an accepted document.

Collected ==
    /\ Noted(root, commentsBefore, seen, phase = "done")
    /\ lastValueEnd # -1 => lastValue \in DOMAIN root
    /\ Counted(root, path, levels) /\ (phase = "value" => Fresh(root, path))
CollectedInv == phase # "threw" /\ ~Failing /\ ~replaced => Collected

\* What a step leaves, by what it has done.
LEMMA NextCollected ==
    ASSUME NEW u, NEW pb, NEW lw, NEW b, NEW ns, NEW ph,
           root' = u, path' = pb, levels' = lw, commentsBefore' = b, seen' = ns, phase' = ph,
           lastValueEnd' # -1 => lastValue' \in DOMAIN u,
           Noted(u, b, ns, ph = "done"), Counted(u, pb, lw), ph = "value" => Fresh(u, pb)
    PROVE  CollectedInv'
<1>1. Noted(root, commentsBefore, seen, phase = "done")'
  BY DEF Noted, Kept, Displaced, IsPart, Trimmed, Front, Last, IsSeq
<1>2. Counted(root, path, levels)' BY DEF Counted, Reading, Front
<1>3. (phase = "value" => Fresh(root, path))' BY DEF Fresh
<1> QED BY <1>1, <1>2, <1>3 DEF CollectedInv, Collected

\* What is known of a reader that goes on.
LEMMA LaidFacts ==
    ASSUME ReaderInv, Laid
    PROVE  /\ IsTree(root) /\ path \in DOMAIN root /\ IsSeq(path) /\ IsSeq(levels)
           /\ AreLevels(levels) /\ Len(levels) \in Nat /\ Len(path) \in Nat
           /\ phase = "value" => Len(path) = Len(levels)
           /\ phase # "value" /\ levels # <<>> => Len(path) = Len(levels) - 1
           /\ phase # "value" /\ levels = <<>> => path = <<>>
<1>1. Placing(root, path, levels, phase = "value") /\ AreLevels(levels) BY DEF Laid, Good
<1>2. IsSeq(path) /\ IsSeq(levels) BY <1>1 DEF Placing
<1>3. Len(levels) \in Nat /\ Len(path) \in Nat BY <1>2, LenIsNat
<1>4. levels = <<>> => Len(levels) = 0 BY EmptySeq
<1> QED BY <1>1, <1>2, <1>3, <1>4 DEF Placing

\* The comments before a value are put to it.
LEMMA DescribedNoted ==
    ASSUME ReaderInv, Laid, Collected, phase = "value", NEW v, v = Described
    PROVE  /\ Noted(v, <<>>, seen, FALSE) /\ DOMAIN v = DOMAIN root /\ IsTree(v)
           /\ \A p \in DOMAIN v : ~IsStrictPrefix(path, p)
<1>1. Noted(root, commentsBefore, seen, FALSE) /\ Fresh(root, path)
  <2>1. (phase = "done") = FALSE OBVIOUS
  <2> QED BY <2>1 DEF Collected
<1>2. IsTree(root) /\ path \in DOMAIN root BY LaidFacts
<1>3. IsTree(v) /\ DOMAIN v = DOMAIN root BY <1>2, DescribedTree
<1>4. CASE commentsBefore = <<>>
  <2>1. v = root BY <1>4 DEF Described
  <2> QED BY <1>1, <1>3, <1>4, <2>1 DEF Fresh
<1>5. CASE commentsBefore # <<>>
  <2>1. v = SetComment(root, path, commentsBefore, "commentBefore") BY <1>5 DEF Described
  <2>2. Noted(v, <<>>, seen, FALSE) BY <1>1, <1>2, <1>5, <2>1, NotedBefore DEF Fresh
  <2> QED BY <1>1, <1>3, <2>2 DEF Fresh
<1> QED BY <1>4, <1>5

\* A value that is new is filled, and its offsets are set.
LEMMA PutNoted ==
    ASSUME NEW v, IsTree(v), NEW pa \in DOMAIN v, \A p \in DOMAIN v : ~IsStrictPrefix(pa, p),
           NEW node, NEW y, y = SwapPayload(v, pa, node)
    PROVE  IsTree(y) /\ pa \in DOMAIN y /\ DOMAIN y = DOMAIN v /\ SameComments(v, y)
<1>1. /\ IsTree(y) /\ pa \in DOMAIN y
      /\ \A q : (q \in DOMAIN y) <=> (q \in DOMAIN v /\ ~IsStrictPrefix(pa, q))
      /\ \A q \in DOMAIN y : q # pa => y[q] = v[q]
      /\ y[pa].comments = v[pa].comments
  BY Swapped
<1>2. DOMAIN y = DOMAIN v BY <1>1
<1> QED BY <1>1, <1>2 DEF SameComments

LEMMA OffsetNoted ==
    ASSUME NEW v, IsTree(v), NEW pa \in DOMAIN v, NEW o, NEW u,
           u = SetOffsetStart(v, pa, o) \/ u = SetOffsetLimit(v, pa, o)
    PROVE  IsTree(u) /\ DOMAIN u = DOMAIN v /\ SameComments(v, u)
<1>1. /\ IsTree(u) /\ DOMAIN u = DOMAIN v /\ \A q \in DOMAIN u : q # pa => u[q] = v[q]
      /\ u[pa].comments = v[pa].comments
  <2>1. CASE u = SetOffsetStart(v, pa, o) BY <2>1, StartSet
  <2>2. CASE u = SetOffsetLimit(v, pa, o) BY <2>2, LimitSet
  <2> QED BY <2>1, <2>2
<1> QED BY <1>1 DEF SameComments

LEMMA PlacedNoted ==
    ASSUME ReaderInv, Laid, Collected, phase = "value", NEW node, NEW s, NEW e, NEW u,
           u = SetOffsetLimit(SetOffsetStart(SwapPayload(Described, path, node), path, s),
                              path, e)
    PROVE  /\ Noted(u, <<>>, seen, FALSE) /\ DOMAIN u = DOMAIN root /\ IsTree(u)
<1> DEFINE v == Described
           y == SwapPayload(v, path, node)
           z == SetOffsetStart(y, path, s)
<1>1. path \in DOMAIN root BY LaidFacts
<1>2. /\ Noted(v, <<>>, seen, FALSE) /\ DOMAIN v = DOMAIN root /\ IsTree(v)
      /\ \A p \in DOMAIN v : ~IsStrictPrefix(path, p)
  BY DescribedNoted
<1>3. u = SetOffsetLimit(z, path, e) OBVIOUS
<1> HIDE DEF v
<1>4. IsTree(y) /\ path \in DOMAIN y /\ DOMAIN y = DOMAIN v /\ SameComments(v, y)
  BY <1>1, <1>2, PutNoted
<1> HIDE DEF y
<1>5. IsTree(z) /\ DOMAIN z = DOMAIN y /\ SameComments(y, z) BY <1>4, OffsetNoted
<1> HIDE DEF z
<1>6. IsTree(u) /\ DOMAIN u = DOMAIN z /\ SameComments(z, u) BY <1>3, <1>4, <1>5, OffsetNoted
<1>7. SameComments(v, u) BY <1>4, <1>5, <1>6, SameCommentsThrough
<1>8. Noted(u, <<>>, seen, FALSE) BY <1>2, <1>7, NotedOn
<1> QED BY <1>2, <1>4, <1>5, <1>6, <1>8

LEMMA OpenedNoted ==
    ASSUME ReaderInv, Laid, Collected, phase = "value", NEW type, NEW u, u = OpenedAs(type)
    PROVE  /\ Noted(u, <<>>, seen, FALSE) /\ DOMAIN u = DOMAIN root /\ IsTree(u)
           /\ \A p \in DOMAIN u : ~IsStrictPrefix(path, p)
<1> DEFINE v == Described
           node == Container(type)
           s == token.start
           y == SwapPayload(v, path, node)
<1>1. path \in DOMAIN root BY LaidFacts
<1>2. /\ Noted(v, <<>>, seen, FALSE) /\ DOMAIN v = DOMAIN root /\ IsTree(v)
      /\ \A p \in DOMAIN v : ~IsStrictPrefix(path, p)
  BY DescribedNoted
<1>3. u = SetOffsetStart(y, path, s) BY DEF OpenedAs
<1> HIDE DEF v, node, s
<1>4. IsTree(y) /\ path \in DOMAIN y /\ DOMAIN y = DOMAIN v /\ SameComments(v, y)
  BY <1>1, <1>2, PutNoted
<1> HIDE DEF y
<1>5. IsTree(u) /\ DOMAIN u = DOMAIN y /\ SameComments(y, u) BY <1>3, <1>4, OffsetNoted
<1>6. SameComments(v, u) BY <1>4, <1>5, SameCommentsThrough
<1>7. Noted(u, <<>>, seen, FALSE) BY <1>2, <1>6, NotedOn
<1> QED BY <1>2, <1>4, <1>5, <1>7

-----------------------------------------------------------------------------
LEMMA InitCollected == Init => CollectedInv
<1> SUFFICES ASSUME Init, phase # "threw" PROVE Collected
  BY DEF CollectedInv
<1>1. /\ root = [p \in {<<>>} |-> Null] /\ path = <<>> /\ levels = <<>> /\ lastValueEnd = -1
      /\ commentsBefore = <<>> /\ seen = <<>> /\ phase = "value"
  BY DEF Init
<1>2. DOMAIN root = {<<>>} /\ root[<<>>] = Null /\ Null.comments = NoComments
  BY <1>1, NullNode
<1>3. IsSeq(<<>>) /\ Len(<<>>) = 0 BY AnySeq, EmptySeq
<1>4. \A i \in 1..Len(seen) : FALSE BY <1>1, <1>3
<1>5. /\ \A p \in DOMAIN root, o \in Placements : root[p].comments[o] = <<>>
      /\ "commentAfter" \in Placements /\ "commentBefore" \in Placements
  BY <1>2 DEF NoComments, Placements
<1>6. Noted(root, commentsBefore, seen, FALSE)
  BY <1>1, <1>3, <1>4, <1>5 DEF Noted
<1>7. Counted(root, path, levels) BY <1>2 DEF Counted
<1>8. Fresh(root, path) BY <1>1, <1>2, <1>5 DEF Fresh, IsStrictPrefix
<1>9. (phase = "done") = FALSE BY <1>1
<1> QED BY <1>1, <1>6, <1>7, <1>8, <1>9 DEF Collected

\* A value is read without an error.
LEMMA ReturnCollected ==
    ASSUME ReaderInv, Laid, Collected, NEW u, IsTree(u), DOMAIN u = DOMAIN root,
           NEW b, Noted(u, b, seen, FALSE), commentsBefore' = b, seen' = seen,
           NEW lw, \/ lw = levels /\ phase = "value"
                   \/ lw = Front(levels) /\ levels # <<>> /\ phase # "value",
           NEW e, Return(u, lw, e, TRUE)
    PROVE  CollectedInv'
<1>1. /\ root' = u /\ levels' = lw /\ path' = IF lw = <<>> THEN path ELSE Front(path)
      /\ phase' \in {"extra", "item", "comma"}
      /\ lastValueEnd' = (IF Collects THEN e ELSE lastValueEnd)
      /\ lastValue' = (IF Collects THEN path ELSE lastValue)
  BY DEF Return, Continue
<1>2. /\ IsTree(root) /\ path \in DOMAIN root /\ IsSeq(path) /\ AreLevels(levels)
      /\ Len(levels) \in Nat /\ Len(path) \in Nat
      /\ phase = "value" => Len(path) = Len(levels)
      /\ phase # "value" /\ levels # <<>> => Len(path) = Len(levels) - 1
  BY LaidFacts
<1>3. lastValueEnd' # -1 => lastValue' \in DOMAIN u BY <1>1, <1>2 DEF Collected
<1>4. /\ AreLevels(lw) /\ Len(lw) \in Nat /\ Len(lw) <= Len(levels)
      /\ Len(path) = Len(lw) /\ \A i \in 1..Len(lw) : lw[i] = levels[i]
  <2>1. CASE lw = levels /\ phase = "value" BY <1>2, <2>1
  <2>2. CASE lw = Front(levels) /\ levels # <<>> /\ phase # "value"
    <3>1. AreLevels(lw) /\ Len(lw) = Len(levels) - 1 BY <1>2, <2>2, LevelPopped
    <3>2. IsSeq(levels) BY <1>2 DEF AreLevels
    <3>3. Len(levels) \in Nat \ {0} /\ \A i \in 1..(Len(levels) - 1) : lw[i] = levels[i]
      BY <2>2, <3>2, FrontIsPrefix
    <3> QED BY <1>2, <2>2, <3>1, <3>3
  <2> QED BY <2>1, <2>2
<1>5. PICK pb : pb = path' OBVIOUS
<1>6. IsSeq(pb) /\ IsPrefix(pb, path)
  <2>1. CASE lw = <<>> BY <1>1, <1>2, <1>5, <2>1, PrefixOfItself
  <2>2. CASE lw # <<>>
    <3>1. IsSeq(lw) BY <1>4 DEF AreLevels
    <3>2. Len(lw) # 0 BY <2>2, <3>1, EmptySeq DEF IsSeq
    <3>3. path # <<>> BY <1>4, <3>2, EmptySeq
    <3> QED BY <1>1, <1>2, <1>5, <2>2, <3>3, FrontIsPrefix
  <2> QED BY <2>1, <2>2
<1>7. \A i \in 1..Len(lw) : lw[i].type = levels[i].type /\ lw[i].index \in Nat
  BY <1>4 DEF AreLevels, IsLevel
<1>8. \A i \in 1..Len(lw) : lw[i].type = levels[i].type /\ levels[i].index <= lw[i].index
  BY <1>4, <1>7
<1>9. Counted(root, path, levels) BY DEF Collected
<1>10. Counted(u, pb, lw) BY <1>2, <1>4, <1>6, <1>8, <1>9, CountedOn
<1>11. PICK ph : ph = phase' OBVIOUS
<1>12. ph # "value" /\ (ph = "done") = FALSE BY <1>1, <1>11
<1>13. Noted(u, b, seen, ph = "done") BY <1>12
<1> QED BY <1>1, <1>3, <1>5, <1>10, <1>11, <1>12, <1>13, NextCollected

LEMMA ResolvedComments ==
    ASSUME NEW t, NEW pb, NEW u, u = Resolved(t, pb)
    PROVE  SameComments(t, u)
BY NullNode DEF Resolved, SameComments

\* A member or an element is about to be read.
LEMMA DescendCollected ==
    ASSUME ReaderInv, NEW t, IsTree(t), path \in DOMAIN t, NEW b, Noted(t, b, seen, FALSE),
           commentsBefore' = b, seen' = seen,
           NEW lw, AreLevels(lw), lw # <<>>, levels' = lw, Len(path) = Len(lw) - 1,
           Counted(t, path, lw), NEW step, Append(path, step) \notin DOMAIN t,
           lw[Len(lw)].type = "array" => step.index \in 0..lw[Len(lw)].index,
           lastValueEnd' # -1 => lastValue' \in DOMAIN t, Descend(t, step)
    PROVE  CollectedInv'
<1> DEFINE pb == Append(path, step)
           u == Resolved(t, Append(path, step))
<1>1. root' = u /\ path' = pb /\ (phase' # "threw" => phase' = "value") BY DEF Descend
<1>2. Counted(u, pb, lw) BY CountedDescended
<1>3. Fresh(u, pb) BY FreshDescended
<1>4. u = Resolved(t, pb) OBVIOUS
<1> HIDE DEF u, pb
<1>5. SameComments(t, u) BY <1>4, ResolvedComments
<1>6. Noted(u, b, seen, FALSE) BY <1>5, NotedOn
<1>7. lastValueEnd' # -1 => lastValue' \in DOMAIN u BY <1>5 DEF SameComments
<1>8. CASE phase' = "threw" BY <1>8 DEF CollectedInv
<1>9. CASE phase' = "value"
  <2> DEFINE ph == "value"
  <2>1. phase' = ph /\ (ph = "done") = FALSE BY <1>9
  <2> HIDE DEF ph
  <2>2. Noted(u, b, seen, ph = "done") BY <1>6, <2>1
  <2> QED BY <1>1, <1>2, <1>3, <1>7, <2>1, <2>2, NextCollected
<1> QED BY <1>1, <1>8, <1>9

\* The reader goes on where it is, with the tree and the comments as they are.
LEMMA GoingCollected ==
    ASSUME ReaderInv, Laid, Collected, phase # "done", NEW lw, AreLevels(lw),
           Len(lw) = Len(levels), levels' = lw,
           \A i \in 1..Len(lw) : lw[i].type = levels[i].type /\ lw[i].index = levels[i].index,
           phase' \notin {"value", "done"},
           UNCHANGED <<root, path, lastValueEnd, lastValue, commentsBefore, seen>>
    PROVE  CollectedInv'
<1>1. IsTree(root) /\ IsSeq(path) /\ AreLevels(levels) /\ Len(levels) \in Nat BY LaidFacts
<1>2. IsPrefix(path, path) BY <1>1, PrefixOfItself
<1>3. Counted(root, path, levels) BY DEF Collected
<1>4. Len(lw) <= Len(levels) BY <1>1
<1>5. \A i \in 1..Len(lw) : lw[i].index \in Nat BY DEF AreLevels, IsLevel
<1>6. \A i \in 1..Len(lw) : lw[i].type = levels[i].type /\ levels[i].index <= lw[i].index
  BY <1>5
<1> DEFINE u == root
           pb == path
           b == commentsBefore
           ns == seen
<1>7. Counted(u, pb, lw) BY <1>1, <1>2, <1>3, <1>4, <1>6, CountedOn
<1>8. PICK ph : ph = phase' OBVIOUS
<1>9. ph # "value" /\ (ph = "done") = FALSE BY <1>8
<1>10. Noted(u, b, ns, ph = "done")
  <2>1. (phase = "done") = FALSE OBVIOUS
  <2> QED BY <1>9, <2>1 DEF Collected
<1>11. lastValueEnd' # -1 => lastValue' \in DOMAIN u BY DEF Collected
<1>12. root' = u /\ path' = pb /\ commentsBefore' = b /\ seen' = ns OBVIOUS
<1> HIDE DEF u, pb, b, ns
<1> QED BY <1>7, <1>8, <1>9, <1>10, <1>11, <1>12, NextCollected

LEMMA CloseCollected ==
    ASSUME ReaderInv, Laid, Collected, phase \in Inside, Close(TRUE)
    PROVE  CollectedInv'
<1> DEFINE u == SetOffsetLimit(root, path, token.end)
           lw == Front(levels)
           b == commentsBefore
           e == token.end
<1>1. Return(u, lw, e, TRUE) /\ commentsBefore' = b /\ seen' = seen BY DEF Close
<1>2. levels # <<>> /\ phase # "value" BY DEF ReaderInv, Nesting, Inside
<1>3. IsTree(root) /\ path \in DOMAIN root BY LaidFacts
<1>4. IsTree(u) /\ DOMAIN u = DOMAIN root /\ SameComments(root, u) BY <1>3, OffsetNoted
<1> HIDE DEF u
<1>5. Noted(root, b, seen, FALSE)
  <2>1. (phase = "done") = FALSE BY DEF Inside
  <2> QED BY <2>1 DEF Collected
<1>6. Noted(u, b, seen, FALSE) BY <1>4, <1>5, NotedOn
<1>7. lw = Front(levels) OBVIOUS
<1> HIDE DEF lw, b, e
<1> QED BY <1>1, <1>2, <1>4, <1>6, <1>7, ReturnCollected

-----------------------------------------------------------------------------
\* A comment is skipped, and collected.
LEMMA SkipCommentCollected ==
    ASSUME ReaderInv, Laid, Collected, SkipComment
    PROVE  CollectedInv'
<1>1. CASE CommentThrows BY <1>1 DEF SkipComment, Threw, CollectedInv
<1>2. CASE ~CommentThrows
  <2> DEFINE c == NormalizeEOL(Slice(token.start, token.end))
             note == [comment |-> Trimmed(c), same |-> OnSameLine, value |-> lastValue]
  <2>1. /\ AddComment(c) /\ UNCHANGED <<path, levels, lastValueEnd, lastValue>>
        /\ phase' = IF phase = "comma" THEN "anyComma" ELSE phase
        /\ phase # "done"
    BY <1>2 DEF SkipComment, TakeComments, Skips
  <2>2. IsSeq(c)
    <3>1. IsSeq(Slice(token.start, token.end)) BY TokenAhead, SliceIsSeq
    <3> QED BY <3>1, Normalized
  <2>3. /\ IsTree(root) /\ path \in DOMAIN root /\ IsSeq(path) /\ AreLevels(levels)
        /\ Len(levels) \in Nat
    BY LaidFacts
  <2>4. Noted(root, commentsBefore, seen, FALSE)
    <3>1. (phase = "done") = FALSE BY <2>1
    <3> QED BY <3>1 DEF Collected
  <2>5. PICK u, b, ns, ph : u = root' /\ b = commentsBefore' /\ ns = seen' /\ ph = phase'
    OBVIOUS
  <2>6. note.comment = Trimmed(c) /\ (note.same <=> OnSameLine) /\ note.value = lastValue
    OBVIOUS
  <2> HIDE DEF c, note
  <2>7. /\ Noted(u, b, ns, FALSE) /\ DOMAIN u = DOMAIN root
        /\ \A p \in DOMAIN root :
               u[p].comments["commentBefore"] = root[p].comments["commentBefore"]
    <3>1. CASE token.type # "tokenComment" \/ ~Collects
      <4>1. u = root /\ b = commentsBefore /\ ns = seen BY <2>1, <2>5, <3>1 DEF AddComment
      <4> QED BY <2>4, <4>1
    <3>2. CASE token.type = "tokenComment" /\ Collects /\ OnSameLine
      <4>1. /\ ns = Append(seen, note) /\ b = commentsBefore
            /\ u = SetComment(root, lastValue, c, "commentAfterOnSameLine")
        BY <2>1, <2>5, <3>2 DEF AddComment, note
      <4>2. lastValue \in DOMAIN root BY <3>2 DEF OnSameLine, Collected
      <4>3. Noted(u, b, ns, FALSE) BY <2>2, <2>3, <2>4, <2>6, <3>2, <4>1, <4>2, NotedBehind
      <4>4. /\ DOMAIN u = DOMAIN root
            /\ \A q \in DOMAIN u, o \in Placements :
                   u[q].comments[o] = IF q = lastValue /\ o = "commentAfterOnSameLine"
                                      THEN Trimmed(c) ELSE root[q].comments[o]
        BY <2>3, <4>1, Commented DEF Placements
      <4> QED BY <4>3, <4>4 DEF Placements
    <3>3. CASE token.type = "tokenComment" /\ Collects /\ ~OnSameLine
      <4>1. ns = Append(seen, note) /\ b = commentsBefore \o c /\ u = root
        BY <2>1, <2>5, <3>3 DEF AddComment, note
      <4>2. Noted(u, b, ns, FALSE) BY <2>2, <2>4, <2>6, <3>3, <4>1, NotedWaiting
      <4> QED BY <4>1, <4>2
    <3> QED BY <3>1, <3>2, <3>3
  <2> DEFINE pb == path
             lw == levels
  <2>8. Counted(u, pb, lw)
    <3>1. Counted(root, pb, lw) BY DEF Collected
    <3> QED BY <2>7, <3>1 DEF Counted
  <2>9. (ph = "done") = FALSE /\ (ph = "value" => phase = "value") BY <2>1, <2>5
  <2>10. Noted(u, b, ns, ph = "done") BY <2>7, <2>9
  <2>11. ASSUME ph = "value" PROVE Fresh(u, pb)
    <3>1. Fresh(root, path) BY <2>9, <2>11 DEF Collected
    <3> QED BY <2>3, <2>7, <3>1 DEF Fresh
  <2>12. lastValueEnd' # -1 => lastValue' \in DOMAIN u BY <2>1, <2>7 DEF Collected
  <2>13. path' = pb /\ levels' = lw BY <2>1
  <2> HIDE DEF pb, lw
  <2> QED BY <2>5, <2>8, <2>10, <2>11, <2>12, <2>13, NextCollected
<1> QED BY <1>1, <1>2

\* A scalar or a dropped null is read.
LEMMA ScalarCollected ==
    ASSUME ReaderInv, Laid, Collected, TakeScalar \/ DropNull, ~Failing'
    PROVE  CollectedInv'
<1>1. phase = "value" /\ commentsBefore' = <<>> /\ seen' = seen
  BY DEF TakeScalar, DropNull, AtValue
<1>2. \E node, s, e : Return(Placed(SwapPayload(Described, path, node), s, e), levels, e, TRUE)
  <2>1. CASE TakeScalar
    <3>1. CASE ScalarOf.ok BY <2>1, <3>1 DEF TakeScalar
    <3>2. CASE ~ScalarOf.ok BY <2>1, <3>2 DEF TakeScalar, Return, Continue, Failing
    <3> QED BY <3>1, <3>2
  <2>2. CASE DropNull BY <2>2 DEF DropNull
  <2> QED BY <2>1, <2>2
<1>3. PICK node, s, e :
        Return(Placed(SwapPayload(Described, path, node), s, e), levels, e, TRUE)
  BY <1>2
<1> DEFINE u == SetOffsetLimit(SetOffsetStart(SwapPayload(Described, path, node), path, s),
                               path, e)
           b == <<>>
           lw == levels
<1>4. Return(u, lw, e, TRUE) /\ commentsBefore' = b BY <1>1, <1>3 DEF Placed
<1>5. Noted(u, b, seen, FALSE) /\ DOMAIN u = DOMAIN root /\ IsTree(u) BY <1>1, PlacedNoted
<1>6. lw = levels OBVIOUS
<1> HIDE DEF u, b, lw
<1> QED BY <1>1, <1>4, <1>5, <1>6, ReturnCollected

LEMMA OpenObjectCollected ==
    ASSUME ReaderInv, Laid, Collected, OpenObject
    PROVE  CollectedInv'
<1> DEFINE l == [type |-> "object", name |-> <<>>, at |-> 0, index |-> 0]
           u == OpenedAs("object")
           lw == Append(levels, l)
           ph == "name"
           pb == path
           b == <<>>
           ns == seen
<1>1. /\ phase = "value" /\ root' = u /\ levels' = lw /\ phase' = ph /\ path' = pb
      /\ commentsBefore' = b /\ seen' = ns /\ UNCHANGED <<lastValueEnd, lastValue>>
  BY DEF OpenObject, AtValue
<1>2. /\ Noted(u, b, ns, FALSE) /\ DOMAIN u = DOMAIN root /\ IsTree(u)
      /\ \A p \in DOMAIN u : ~IsStrictPrefix(path, p)
  BY <1>1, OpenedNoted
<1>3. IsSeq(path) /\ AreLevels(levels) /\ Len(path) = Len(levels) BY <1>1, LaidFacts
<1>4. Counted(root, path, levels) BY DEF Collected
<1> HIDE DEF l, u
<1>5. Counted(u, path, levels) BY <1>2, <1>4 DEF Counted
<1>6. Counted(u, pb, lw) BY <1>2, <1>3, <1>5, CountedOpened
<1>7. ph # "value" /\ (ph = "done") = FALSE OBVIOUS
<1>8. lastValueEnd' # -1 => lastValue' \in DOMAIN u BY <1>1, <1>2 DEF Collected
<1> HIDE DEF lw, ph, pb, b, ns
<1>9. Noted(u, b, ns, ph = "done") BY <1>2, <1>7
<1> QED BY <1>1, <1>6, <1>7, <1>8, <1>9, NextCollected

LEMMA OpenArrayCollected ==
    ASSUME ReaderInv, Laid, Collected, OpenArray
    PROVE  CollectedInv'
<1> DEFINE j == SkipSpaces(token.end)
           t == OpenedAs("array")
           b == <<>>
<1>1. phase = "value" /\ commentsBefore' = b /\ seen' = seen BY DEF OpenArray, AtValue
<1>2. /\ Noted(t, b, seen, FALSE) /\ DOMAIN t = DOMAIN root /\ IsTree(t)
      /\ \A p \in DOMAIN t : ~IsStrictPrefix(path, p)
  BY <1>1, OpenedNoted
<1>3. /\ path \in DOMAIN root /\ IsSeq(path) /\ IsSeq(levels) /\ AreLevels(levels)
      /\ Len(path) = Len(levels)
  BY <1>1, LaidFacts
<1> HIDE DEF j
<1>4. CASE CharAt(j) = "]"
  <2> DEFINE e == j + 1
             u == SetOffsetLimit(t, path, e)
             lw == levels
  <2>1. Return(u, lw, e, TRUE) BY <1>4 DEF OpenArray, j
  <2> HIDE DEF t
  <2>2. IsTree(u) /\ DOMAIN u = DOMAIN t /\ SameComments(t, u) BY <1>2, <1>3, OffsetNoted
  <2> HIDE DEF u, e, b
  <2>3. Noted(u, b, seen, FALSE) BY <1>2, <2>2, NotedOn
  <2>4. lw = levels OBVIOUS
  <2> HIDE DEF lw
  <2> QED BY <1>1, <1>2, <2>1, <2>2, <2>3, <2>4, ReturnCollected
<1>5. CASE CharAt(j) # "]"
  <2> DEFINE l == [type |-> "array", name |-> <<>>, at |-> 0, index |-> 0]
             lw == Append(levels, l)
             step == Index(0)
  <2>1. Descend(t, step) /\ levels' = lw /\ UNCHANGED <<lastValueEnd, lastValue>>
    BY <1>5 DEF OpenArray, j
  <2>2. IsLevel(l) /\ l.index = 0 BY FirstLevel DEF Containers
  <2> HIDE DEF l
  <2>3. /\ lw # <<>> /\ lw[Len(levels) + 1] = l /\ Len(lw) = Len(levels) + 1
        /\ Len(levels) \in Nat
    BY <1>3, AppendAt
  <2>4. AreLevels(lw) BY <1>3, <2>2, LevelAdded
  <2>5. Counted(root, path, levels) BY DEF Collected
  <2> HIDE DEF t
  <2>6. Counted(t, path, levels) BY <1>2, <2>5 DEF Counted
  <2>7. Counted(t, path, lw) BY <1>2, <1>3, <2>6, CountedOpened
  <2>8. step.index = 0 /\ lw[Len(lw)].index = 0 BY <2>2, <2>3 DEF Index
  <2>9. step.index \in 0..lw[Len(lw)].index BY <2>8
  <2>10. Append(path, step) \notin DOMAIN t
    <3> DEFINE pb == Append(path, step)
    <3>1. IsPrefix(path, pb) /\ Len(pb) = Len(path) + 1 /\ Len(path) \in Nat
      BY <1>3, AppendAt
    <3> HIDE DEF pb
    <3>2. pb # path BY <3>1
    <3>3. IsStrictPrefix(path, pb) BY <3>1, <3>2 DEF IsStrictPrefix
    <3> QED BY <1>2, <3>3 DEF pb
  <2>11. lastValueEnd' # -1 => lastValue' \in DOMAIN t BY <1>2, <2>1 DEF Collected
  <2>12. Len(path) = Len(lw) - 1 /\ path \in DOMAIN t BY <1>2, <1>3, <2>3
  <2> HIDE DEF lw, step, b
  <2> QED BY <1>1, <1>2, <2>1, <2>3, <2>4, <2>7, <2>9, <2>10, <2>11, <2>12, DescendCollected
<1> QED BY <1>4, <1>5

-----------------------------------------------------------------------------
\* The innermost of the containers that are open is changed.
LEMMA InnermostChanged ==
    ASSUME AreLevels(levels), levels # <<>>, NEW l, IsLevel(l),
           NEW lw, lw = Front(levels) \o <<l>>
    PROVE  /\ AreLevels(lw) /\ Len(lw) = Len(levels) /\ lw # <<>>
           /\ \A i \in 1..(Len(levels) - 1) : lw[i] = levels[i]
           /\ lw[Len(levels)] = l
<1> DEFINE lv == levels
<1>1. AreLevels(lv) OBVIOUS
<1>2. lv # <<>> /\ lw = Front(lv) \o <<l>> OBVIOUS
<1> HIDE DEF lv
<1>3. /\ AreLevels(lw) /\ Len(lw) = Len(lv) /\ lw # <<>> /\ Len(lv) \in Nat \ {0}
      /\ \A i \in 1..(Len(lv) - 1) : lw[i] = lv[i]
      /\ lw[Len(lv)] = l
  BY <1>1, <1>2, LevelChanged
<1> QED BY <1>3 DEF lv

\* A name or a comma is passed.
LEMMA PassedCollected ==
    ASSUME ReaderInv, Laid, Collected, TakeName \/ Comma, ~Failing'
    PROVE  CollectedInv'
<1>1. IsSeq(levels) /\ AreLevels(levels) /\ Len(levels) \in Nat BY LaidFacts
<1>2. CASE TakeName
  <2> DEFINE l == [Level EXCEPT !.name = NameOf.text, !.at = token.start]
             lw == Front(levels) \o <<l>>
  <2>1. NameOf.ok BY <1>2 DEF TakeName, Recover, Failing
  <2>2. /\ phase = "name" /\ phase' = "colon" /\ levels' = lw
        /\ UNCHANGED <<root, path, lastValueEnd, lastValue, commentsBefore, seen>>
    BY <1>2, <2>1 DEF TakeName, Going
  <2>3. levels # <<>> BY <2>2 DEF Laid, AtLevel
  <2>4. IsLevel(Level) BY <1>1, <2>3, LevelPopped DEF Level
  <2>5. IsLevel(l) /\ l.type = Level.type /\ l.index = Level.index BY <2>4 DEF IsLevel
  <2> HIDE DEF l
  <2>7. /\ AreLevels(lw) /\ Len(lw) = Len(levels) /\ lw # <<>>
        /\ \A i \in 1..(Len(levels) - 1) : lw[i] = levels[i]
        /\ lw[Len(levels)] = l
    BY <1>1, <2>3, <2>5, InnermostChanged
  <2> HIDE DEF lw
  <2>8. \A i \in 1..Len(lw) : i \in 1..(Len(levels) - 1) \/ i = Len(levels) BY <1>1, <2>7
  <2>9. \A i \in 1..Len(lw) : lw[i].type = levels[i].type /\ lw[i].index = levels[i].index
    BY <2>5, <2>7, <2>8 DEF Level
  <2>10. phase # "done" /\ phase' \notin {"value", "done"} BY <2>2
  <2> QED BY <2>2, <2>7, <2>9, <2>10, GoingCollected
<1>3. CASE Comma
  <2>1. /\ phase # "done" /\ phase' \notin {"value", "done"}
        /\ UNCHANGED <<root, path, levels, lastValueEnd, lastValue, commentsBefore, seen>>
    BY <1>3 DEF Comma, Going, Within
  <2>2. PICK lw : lw = levels OBVIOUS
  <2> QED BY <1>1, <2>1, <2>2, GoingCollected
<1> QED BY <1>2, <1>3

LEMMA ColonCollected ==
    ASSUME ReaderInv, Laid, Collected, Colon, ~Failing', ~replaced'
    PROVE  CollectedInv'
<1> DEFINE step == Name(Level.name)
           lw == levels
           t == root
           b == commentsBefore
<1>1. /\ phase = "colon" /\ Descend(t, step) /\ levels' = lw /\ commentsBefore' = b
      /\ UNCHANGED <<lastValueEnd, lastValue, seen>> /\ ~Exists
  <2>1. ~Twice BY DEF Colon, Recover, Failing
  <2> QED BY <2>1 DEF Colon, Within
<1>2. lw # <<>> /\ lw[Len(lw)].type # "array" BY <1>1 DEF Laid, AtLevel
<1>3. IsTree(t) /\ path \in DOMAIN t /\ AreLevels(lw) /\ Len(path) = Len(lw) - 1
  BY <1>1, <1>2, LaidFacts
<1>4. Counted(t, path, lw) BY DEF Collected
<1>5. Append(path, step) \notin DOMAIN t BY <1>1 DEF Exists
<1>6. Noted(t, b, seen, FALSE)
  <2>1. (phase = "done") = FALSE BY <1>1
  <2> QED BY <2>1 DEF Collected
<1>7. lastValueEnd' # -1 => lastValue' \in DOMAIN t BY <1>1 DEF Collected
<1> HIDE DEF step, lw, t, b
<1> QED BY <1>1, <1>2, <1>3, <1>4, <1>5, <1>6, <1>7, DescendCollected

LEMMA NextItemCollected ==
    ASSUME ReaderInv, Laid, Collected, NextItem
    PROVE  CollectedInv'
<1> DEFINE n == Level.index + 1
           l == [Level EXCEPT !.index = n]
           lw == Front(levels) \o <<l>>
           step == Index(n)
           t == root
           b == commentsBefore
<1>1. /\ phase = "item" /\ Descend(t, step) /\ levels' = lw /\ commentsBefore' = b
      /\ UNCHANGED <<lastValueEnd, lastValue, seen>>
  BY DEF NextItem, Within
<1>2. levels # <<>> /\ Level.type = "array" BY <1>1 DEF Laid, AtLevel, Level
<1>3. /\ IsTree(t) /\ path \in DOMAIN t /\ IsSeq(path) /\ AreLevels(levels)
      /\ Len(path) = Len(levels) - 1 /\ Len(levels) \in Nat /\ Len(path) \in Nat
  BY <1>1, <1>2, LaidFacts
<1>4. IsLevel(Level) BY <1>2, <1>3, LevelPopped DEF Level
<1>5. IsLevel(l) /\ l.type = "array" /\ l.index = n /\ Level.index \in Nat /\ n \in Nat
  BY <1>2, <1>4 DEF IsLevel
<1>6. Level.index <= n /\ n \notin 0..Level.index BY <1>5
<1>7. step.index = n BY DEF Index
<1> HIDE DEF l
<1>9. /\ AreLevels(lw) /\ Len(lw) = Len(levels) /\ lw # <<>>
      /\ \A i \in 1..(Len(levels) - 1) : lw[i] = levels[i]
      /\ lw[Len(levels)] = l
  BY <1>2, <1>3, <1>5, InnermostChanged
<1> HIDE DEF lw, n, step
<1>10. \A i \in 1..Len(lw) : i \in 1..(Len(levels) - 1) \/ i = Len(levels) BY <1>3, <1>9
<1>11. \A i \in 1..Len(lw) : lw[i].index \in Nat BY <1>9 DEF AreLevels, IsLevel
<1>12. \A i \in 1..Len(lw) : lw[i].type = levels[i].type /\ levels[i].index <= lw[i].index
  <2> SUFFICES ASSUME NEW i \in 1..Len(lw)
               PROVE  lw[i].type = levels[i].type /\ levels[i].index <= lw[i].index
    OBVIOUS
  <2>1. CASE i \in 1..(Len(levels) - 1)
    <3>1. lw[i] = levels[i] BY <1>9, <2>1
    <3> QED BY <1>11, <3>1
  <2>2. CASE i = Len(levels) BY <1>2, <1>5, <1>6, <1>9, <2>2 DEF Level
  <2> QED BY <1>10, <2>1, <2>2
<1>13. Counted(t, path, levels) BY DEF Collected
<1>14. IsPrefix(path, path) /\ Len(lw) <= Len(levels) BY <1>3, <1>9, PrefixOfItself
<1> HIDE DEF t, b
<1>15. Counted(t, path, lw) BY <1>3, <1>9, <1>12, <1>13, <1>14, CountedOn
<1>16. Append(path, step) \notin DOMAIN t
  <2> DEFINE q == Append(path, step)
             m == Len(path)
  <2>1. q # <<>> /\ Len(q) = m + 1 /\ q[m + 1] = step /\ Front(q) = path
    BY <1>3, AppendAt
  <2> HIDE DEF q
  <2>2. m + 1 = Len(levels) /\ m < Len(levels) BY <1>3
  <2>3. Reading(Front(q), path, levels) BY <1>14, <2>1, <2>2 DEF Reading
  <2>4. levels[Len(q)] = Level BY <2>1, <2>2 DEF Level
  <2>5. ASSUME q \in DOMAIN t PROVE FALSE
    <3>1. q[Len(q)].index \in 0..levels[Len(q)].index
      BY <1>2, <1>13, <2>1, <2>3, <2>4, <2>5 DEF Counted
    <3>2. n \in 0..Level.index BY <1>7, <2>1, <2>4, <3>1
    <3> QED BY <1>6, <3>2
  <2> QED BY <2>5 DEF q
<1>17. lw[Len(lw)].index = n BY <1>5, <1>9
<1>18. step.index \in 0..lw[Len(lw)].index BY <1>5, <1>7, <1>17
<1>19. Noted(t, b, seen, FALSE)
  <2>1. (phase = "done") = FALSE BY <1>1
  <2> QED BY <2>1 DEF Collected, t, b
<1>20. lastValueEnd' # -1 => lastValue' \in DOMAIN t BY <1>1 DEF Collected, t
<1>21. Len(path) = Len(lw) - 1 BY <1>3, <1>9
<1> QED BY <1>1, <1>3, <1>9, <1>15, <1>16, <1>18, <1>19, <1>20, <1>21, DescendCollected

LEMMA ParsedCollected ==
    ASSUME ReaderInv, Laid, Collected, Parsed, ~Failing', phase' # "threw"
    PROVE  CollectedInv'
<1> DEFINE b == commentsBefore
           u == IF b = <<>> THEN root ELSE SetComment(root, <<>>, b, "commentAfter")
           ph == "done"
           pb == path
           lw == levels
           ns == seen
<1>1. ~(Has("failIfExtra") /\ ~Seeing({"tokenError", "tokenEndOfStream"}))
  BY DEF Parsed, Finish, Failing
<1>2. ~Throws(commentsBefore) BY <1>1 DEF Parsed, Threw
<1>3. /\ phase = "extra" /\ root' = u /\ phase' = ph /\ path' = pb /\ levels' = lw
      /\ commentsBefore' = b /\ seen' = ns /\ UNCHANGED <<lastValueEnd, lastValue>>
  BY <1>1, <1>2 DEF Parsed, Finish
<1>4. levels = <<>> BY <1>3 DEF Laid, AtLevel
<1>5. IsTree(root) /\ path \in DOMAIN root /\ path = <<>> BY <1>3, <1>4, LaidFacts
<1>6. <<>> \in DOMAIN root BY <1>5
<1>7. Noted(root, b, ns, FALSE)
  <2>1. (phase = "done") = FALSE BY <1>3
  <2> QED BY <2>1 DEF Collected
<1>8. u = IF b = <<>> THEN root ELSE SetComment(root, <<>>, b, "commentAfter") OBVIOUS
<1> HIDE DEF b, u
<1>9. DOMAIN u = DOMAIN root
  <2>1. CASE b = <<>> BY <1>8, <2>1
  <2>2. CASE b # <<>>
    <3>1. u = SetComment(root, <<>>, b, "commentAfter") BY <1>8, <2>2
    <3> QED BY <3>1 DEF SetComment
  <2> QED BY <2>1, <2>2
<1>10. Counted(u, pb, lw)
  <2>1. Counted(root, pb, lw) BY DEF Collected
  <2> HIDE DEF pb, lw
  <2> QED BY <1>9, <2>1 DEF Counted
<1> HIDE DEF ns
<1>11. Noted(u, b, ns, TRUE) BY <1>5, <1>6, <1>7, <1>8, NotedAfter
<1>12. ph # "value" /\ (ph = "done") = TRUE OBVIOUS
<1>13. lastValueEnd' # -1 => lastValue' \in DOMAIN u BY <1>3, <1>9 DEF Collected
<1> HIDE DEF ph, pb, lw
<1>14. Noted(u, b, ns, ph = "done") BY <1>11, <1>12
<1> QED BY <1>3, <1>10, <1>12, <1>13, <1>14, NextCollected

LEMMA NextCollectedInv ==
    ReaderInv /\ LaidInv /\ CollectedInv /\ [Next]_vars => CollectedInv'
<1> SUFFICES ASSUME ReaderInv, LaidInv, CollectedInv, [Next]_vars,
                    phase' # "threw", ~Failing', ~replaced'
             PROVE  CollectedInv'
  BY DEF CollectedInv
<1>1. ~Failing BY FailingOn
<1>2. CASE UNCHANGED vars
  <2>1. Collected BY <1>1, <1>2 DEF CollectedInv, vars
  <2> DEFINE u == root
             pb == path
             lw == levels
             b == commentsBefore
             ns == seen
             ph == phase
  <2>2. /\ root' = u /\ path' = pb /\ levels' = lw /\ commentsBefore' = b /\ seen' = ns
        /\ phase' = ph /\ (lastValueEnd' # -1 => lastValue' \in DOMAIN u)
    BY <1>2, <2>1 DEF vars, Collected
  <2>3. Noted(u, b, ns, ph = "done") /\ Counted(u, pb, lw) /\ (ph = "value" => Fresh(u, pb))
    BY <2>1 DEF Collected
  <2> HIDE DEF u, pb, lw, b, ns, ph
  <2> QED BY <2>2, <2>3, NextCollected
<1>3. CASE phase = "threw"
  BY <1>2, <1>3
  DEF Next, AtValueThrows, TakeScalar, OpenObject, OpenArray, DropNull, NoValue, AtValue,
      EndObject, TakeName, NoName, Colon, NoColon, EndOfMembers, Comma, NoComma, NextItem,
      EndArray, NoItem, Recovered, SkipToken, SkipComment, Skips, Parsed, Within
<1>4. CASE phase # "threw" /\ ~(UNCHANGED vars)
  <2>1. Laid BY <1>1, <1>4 DEF LaidInv
  <2>2. ~replaced
    BY <1>4
    DEF Next, AtValueThrows, TakeScalar, OpenObject, OpenArray, DropNull, NoValue, AtValue,
        EndObject, TakeName, NoName, Colon, NoColon, EndOfMembers, Comma, NoComma, NextItem,
        EndArray, NoItem, Recovered, SkipToken, SkipComment, Parsed, Going, Recover, Close,
        Finish, Threw
  <2>3. Collected BY <1>1, <1>4, <2>2 DEF CollectedInv
  <2>4. CASE SkipComment BY <2>1, <2>3, <2>4, SkipCommentCollected
  <2>5. CASE AtValueThrows BY <2>5 DEF AtValueThrows, Threw
  <2>6. CASE TakeScalar \/ DropNull BY <2>1, <2>3, <2>6, ScalarCollected
  <2>7. CASE OpenObject BY <2>1, <2>3, <2>7, OpenObjectCollected
  <2>8. CASE OpenArray BY <2>1, <2>3, <2>8, OpenArrayCollected
  <2>9. CASE NoValue BY <2>9 DEF NoValue, Continue, Failing
  <2>10. CASE EndObject \/ EndOfMembers \/ EndArray
    <3>1. Close(TRUE) /\ phase \in Inside
      BY <2>10 DEF EndObject, EndOfMembers, EndArray, Within, Inside
    <3> QED BY <2>1, <2>3, <3>1, CloseCollected
  <2>11. CASE TakeName \/ Comma BY <2>1, <2>3, <2>11, PassedCollected
  <2>12. CASE NoName BY <2>12 DEF NoName, Recover, Failing
  <2>13. CASE Colon BY <2>1, <2>3, <2>13, ColonCollected
  <2>14. CASE NoColon BY <2>14 DEF NoColon, Threw, Recover, Failing
  <2>15. CASE NoComma BY <2>15 DEF NoComma, Recover, Failing
  <2>16. CASE NextItem BY <2>1, <2>3, <2>16, NextItemCollected
  <2>17. CASE NoItem BY <2>17 DEF NoItem, Recover, Failing
  <2>18. CASE Recovered \/ SkipToken BY <1>1, <2>18 DEF Recovered, SkipToken, Failing
  <2>19. CASE Parsed BY <2>1, <2>3, <2>19, ParsedCollected
  <2> QED BY <1>4, <2>4, <2>5, <2>6, <2>7, <2>8, <2>9, <2>10, <2>11, <2>12, <2>13, <2>14,
             <2>15, <2>16, <2>17, <2>18, <2>19 DEF Next
<1> QED BY <1>2, <1>3, <1>4

\* A comment of an accepted document is kept by one of its values, unless a later
\* one on the same line has taken its place or a member was given a second value
\* (readComment, addComment, readValue, parse; setComment, swapPayload).
THEOREM CommentsCorrect == Spec => []CommentsKept
<1>1. CollectedInv => CommentsKept
  <2> SUFFICES ASSUME CollectedInv, phase = "done", successful, ~replaced
               PROVE  \A i \in DOMAIN seen : Kept(root, seen[i]) \/ Displaced(seen, i)
    BY DEF CommentsKept
  <2>1. Collected BY DEF CollectedInv, Failing
  <2>2. Noted(root, commentsBefore, seen, TRUE)
    <3>1. (phase = "done") = TRUE OBVIOUS
    <3> QED BY <2>1, <3>1 DEF Collected
  <2>3. DOMAIN seen = 1..Len(seen)
    <3>1. IsSeq(seen) BY <2>2 DEF Noted
    <3> QED BY <3>1, LenProperties DEF IsSeq
  <2> QED BY <2>2, <2>3 DEF Noted
<1> QED BY <1>1, InitReaderInv, NextReaderInv, InitLaid, NextLaidInv, InitCollected,
           NextCollectedInv, PTL DEF Spec
=============================================================================
