-------------------------- MODULE DispatcherProofs --------------------------
(***************************************************************************)
(* Theorems about the dispatcher, for any routes, paths, sizes and limits, *)
(* and any number of changes on disk during a call.                        *)
(***************************************************************************)
EXTENDS Dispatcher, SequenceTheorems, TLAPS

\* What the path leads to now is among what it has led to, and the cache is as
\* it was when the call began.
Noted == disk \in seen /\ held = cached

\* What a question rests on: the answers to the questions before it, which
\* were true when they were given.
Grounds ==
    /\ pc = "folder" => "dir" \in SeenKinds
    /\ pc = "regular" => SeenKinds \cap {"missing", "other", "regular"} # {}
    /\ pc \in {"size", "memory", "open", "stat"} => "regular" \in SeenKinds
    /\ pc = "memory" => \E e \in seen : e.kind = "regular" /\ Fits(e.size)

\* What the answers are.
Answered == NotFoundHasReason /\ ServedWasThere /\ LargeIsNotCopied /\ ContentWasThere

DispatchInv ==
    /\ TypeOK
    /\ pc \notin {"idle", "terminated"} => Noted /\ Grounds
    /\ pc # "idle" => answer = NoAnswer
    /\ Answered

-----------------------------------------------------------------------------
\* What a path may lead to.

LEMMA EntryType ==
    ASSUME NEW e \in Entry
    PROVE  /\ e.kind \in {"missing", "denied", "other", "dir", "regular"}
           /\ e.size \in Nat /\ e.size \in 0..MaxSize
           /\ e.kind # "regular" => e.size = 0
           /\ e.kind \in {"missing", "denied", "other"} => ~e.opens
<1>1. CASE e \in [kind: {"missing", "denied", "other"}, size: {0}, opens: {FALSE}]
  <2>1. e.kind \in {"missing", "denied", "other"} /\ e.size = 0 BY <1>1
  <2>2. e.opens \in {FALSE} BY <1>1
  <2>3. ~e.opens BY <2>2, Zenon
  <2> QED BY <2>1, <2>3, ConstantsAssumption
<1>2. CASE e \in [kind: {"dir"}, size: {0}, opens: BOOLEAN]
  BY <1>2, ConstantsAssumption
<1>3. CASE e \in [kind: {"regular"}, size: 0..MaxSize, opens: BOOLEAN]
  BY <1>3, ConstantsAssumption
<1> QED BY <1>1, <1>2, <1>3 DEF Entry

-----------------------------------------------------------------------------
\* The types of the variables.

LEMMA ReplyType ==
    ASSUME NEW by \in {"nobody", "sync", "async", "redirect", "listing", "memory",
                       "file", "not_found"},
           NEW n \in 0..MaxSize, Reply(by, n)
    PROVE  pc' = "idle" /\ answer' \in Answer
BY DEF Reply, Answer

LEMMA TypeInit == Init => TypeOK
<1> SUFFICES ASSUME Init PROVE TypeOK
  OBVIOUS
<1>1. NoAnswer \in Answer BY ConstantsAssumption DEF NoAnswer, Answer
<1>2. method \in Methods BY DEF Init, Methods
<1>3. routes \in Seq(Routes) BY EmptySeq DEF Init
<1>4. cached = {} /\ held = {} /\ seen = {} /\ answer \in Answer BY <1>1 DEF Init
<1> QED BY <1>2, <1>3, <1>4 DEF Init, TypeOK

LEMMA TypeStep == TypeOK /\ [Next]_vars => TypeOK'
<1> SUFFICES ASSUME TypeOK, [Next]_vars PROVE TypeOK'
  OBVIOUS
<1>0. 0 \in 0..MaxSize BY ConstantsAssumption
<1>1. CASE UNCHANGED vars BY <1>1 DEF vars, TypeOK
<1>2. ASSUME NEW r \in Routes, AddRoute(r) PROVE TypeOK'
  <2>1. routes' \in Seq(Routes) BY <1>2, AppendProperties DEF AddRoute, TypeOK
  <2> QED BY <1>2, <2>1 DEF AddRoute, TypeOK
<1>3. ASSUME NEW e \in Entry, Change(e) PROVE TypeOK'
  <2>1. seen' \subseteq Entry BY <1>3 DEF Change, TypeOK
  <2> QED BY <1>3, <2>1 DEF Change, TypeOK
<1>4. ASSUME NEW m \in Asked, NEW e \in Entry, Call(m, e) PROVE TypeOK'
  <2>1. NoAnswer \in Answer BY <1>0 DEF NoAnswer, Answer
  <2>2. m \in Methods BY ConstantsAssumption
  <2> QED BY <1>4, <2>1, <2>2 DEF Call, TypeOK
<1>5. ASSUME UNCHANGED <<routes, disk, path, method, seen, held>>,
             cached' = {} \/ \E n \in 0..MaxSize : cached' = {n},
             \/ /\ UNCHANGED answer
                /\ pc' \in {"exists", "directory", "folder", "regular", "size",
                            "memory", "open", "stat", "terminated"}
             \/ \E by \in {"sync", "async", "redirect", "listing", "memory", "file",
                           "not_found"} : \E n \in 0..MaxSize : Reply(by, n)
      PROVE  TypeOK'
  <2>1. answer' \in Answer /\ pc' \in {"idle", "exists", "directory", "folder",
                                       "regular", "size", "memory", "open",
                                       "stat", "terminated"}
    BY <1>5, ReplyType DEF TypeOK
  <2> QED BY <1>5, <2>1 DEF TypeOK
<1>6. cached = {} \/ \E n \in 0..MaxSize : cached = {n} BY DEF TypeOK
<1>7. CASE PassRequest
  <2>1. PICK i \in 1..Len(routes) : Reply(routes[i].handler, 0)
    BY <1>7 DEF PassRequest
  <2>2. routes[i] \in Routes BY ElementOfSeq DEF TypeOK
  <2>3. routes[i].handler \in {"sync", "async"}
    BY <2>2, ConstantsAssumption DEF Route, Handlers
  <2> QED BY <1>0, <1>5, <1>6, <1>7, <2>1, <2>3 DEF PassRequest, Asking, calls
<1>8. CASE NoRoute BY <1>5, <1>6, <1>8 DEF NoRoute, Asking, Ask, calls
<1>9. CASE Exists BY <1>0, <1>5, <1>6, <1>9 DEF Exists, Asking, Ask, calls
<1>10. CASE Directory BY <1>0, <1>5, <1>6, <1>10 DEF Directory, Asking, Ask, calls
<1>11. CASE Folder BY <1>0, <1>5, <1>6, <1>11 DEF Folder, Asking, calls
<1>12. CASE IsRegular BY <1>0, <1>5, <1>6, <1>12 DEF IsRegular, Asking, Ask, calls
<1>13. CASE ShouldCopy
  BY <1>0, <1>5, <1>6, <1>13 DEF ShouldCopy, Asking, Ask, calls
<1>14. CASE TakeFromMemory
  <2>1. disk.size \in 0..MaxSize BY EntryType DEF TypeOK
  <2>2. UNCHANGED <<routes, disk, path, method, seen, held>>
    BY <1>14 DEF TakeFromMemory, Asking
  <2>3. ASSUME NEW n \in 0..MaxSize, Served(n)
        PROVE  \E by \in {"memory", "not_found"} : \E k \in 0..MaxSize : Reply(by, k)
    BY <1>0, <2>3 DEF Served
  <2>0. ContentOf(disk) \in 0..MaxSize BY <1>0, <2>1 DEF ContentOf
  <2>4. CASE cached' = {ContentOf(disk)} /\ Served(ContentOf(disk))
    BY <1>5, <2>0, <2>2, <2>3, <2>4
  <2>5. ASSUME NEW n \in cached, Served(n), UNCHANGED cached PROVE TypeOK'
    <3>1. n \in 0..MaxSize BY <1>6, <2>5
    <3> QED BY <1>5, <1>6, <2>2, <2>3, <2>5, <3>1
  <2>6. CASE cached' \in {cached, {}, {0}} /\ Reply("not_found", 0)
    BY <1>0, <1>5, <1>6, <2>2, <2>6
  <2> QED BY <1>14, <2>4, <2>5, <2>6 DEF TakeFromMemory
<1>15. CASE Open BY <1>0, <1>5, <1>6, <1>15 DEF Open, Asking, Ask, calls
<1>16. CASE Stat
  <2>1. disk.size \in 0..MaxSize BY EntryType DEF TypeOK
  <2> QED BY <1>0, <1>5, <1>6, <1>16, <2>1 DEF Stat, Asking, calls
<1> QED BY <1>1, <1>2, <1>3, <1>4, <1>7, <1>8, <1>9, <1>10, <1>11, <1>12, <1>13,
           <1>14, <1>15, <1>16 DEF Next

\* Every variable of the dispatcher keeps its type.
THEOREM TypeCorrect == Spec => []TypeOK
BY TypeInit, TypeStep, PTL DEF Spec

-----------------------------------------------------------------------------
\* What was answered is what the path led to.

\* A change is noted, and takes no ground away.
LEMMA ChangeKeeps ==
    ASSUME TypeOK, DispatchInv, NEW e \in Entry, Change(e)
    PROVE  DispatchInv'
<1>1. /\ pc \notin {"idle", "terminated"} /\ disk' = e /\ seen' = seen \cup {e}
      /\ UNCHANGED <<routes, path, method, pc, cached, held, answer>>
  BY DEF Change
<1>2. seen \subseteq seen' /\ SeenKinds \subseteq SeenKinds' /\ e \in seen'
  BY <1>1 DEF SeenKinds
<1>3. TypeOK' BY TypeStep DEF Next
<1>4. Noted' BY <1>1, <1>2 DEF Noted, DispatchInv
<1>5. Grounds'
  <2>1. Grounds BY <1>1 DEF DispatchInv
  <2>2. pc = "memory" => \E x \in seen' : x.kind = "regular" /\ Fits(x.size)'
    BY <1>1, <1>2, <2>1 DEF Grounds, Fits
  <2> QED BY <1>1, <1>2, <2>1, <2>2 DEF Grounds
<1>6. answer = NoAnswer /\ answer' = NoAnswer BY <1>1 DEF DispatchInv
<1>7. Answered'
  BY <1>6 DEF NoAnswer, Answered, NotFoundHasReason, ServedWasThere,
     LargeIsNotCopied, ContentWasThere
<1> QED BY <1>3, <1>4, <1>5, <1>6, <1>7 DEF DispatchInv

LEMMA CallBegins ==
    ASSUME TypeOK, DispatchInv, NEW m \in Asked, NEW e \in Entry, Call(m, e)
    PROVE  DispatchInv'
<1>1. /\ disk' = e /\ pc' = "route" /\ seen' = {e} /\ answer' = NoAnswer
      /\ held' = cached /\ UNCHANGED cached
  BY DEF Call
<1>2. TypeOK' BY TypeStep DEF Next
<1>3. Noted' BY <1>1 DEF Noted
<1>4. Grounds' BY <1>1 DEF Grounds
<1>5. Answered'
  BY <1>1 DEF NoAnswer, Answered, NotFoundHasReason, ServedWasThere,
     LargeIsNotCopied, ContentWasThere
<1> QED BY <1>1, <1>2, <1>3, <1>4, <1>5 DEF DispatchInv

\* A question leaves the history alone; it is answered, or leads to the next
\* question, which has its ground.
LEMMA QuestionKeeps ==
    ASSUME DispatchInv, TypeOK',
           UNCHANGED <<disk, path, seen, held>>,
           pc \notin {"idle", "terminated"},
           \/ UNCHANGED <<answer, cached>> /\ (pc' # "terminated" => Grounds')
           \/ /\ pc' = "idle" /\ Answered',
           pc' = "idle" \/ UNCHANGED answer
    PROVE  DispatchInv'
<1>1. CASE pc' = "idle" /\ Answered'
  BY <1>1 DEF DispatchInv
<1>2. CASE UNCHANGED <<answer, cached>> /\ (pc' # "terminated" => Grounds')
  <2>1. answer' = NoAnswer BY <1>2 DEF DispatchInv
  <2>2. Noted' BY <1>2 DEF DispatchInv, Noted
  <2>3. Answered'
    BY <2>1 DEF NoAnswer, Answered, NotFoundHasReason, ServedWasThere,
     LargeIsNotCopied, ContentWasThere
  <2> QED BY <1>2, <2>1, <2>2, <2>3 DEF DispatchInv
<1> QED BY <1>1, <1>2

\* What is answered by a route, or leads on.
LEMMA RouteKeeps ==
    ASSUME TypeOK, DispatchInv, PassRequest \/ NoRoute \/ Exists PROVE DispatchInv'
<1>0. TypeOK' BY TypeStep DEF Next
<1>1. CASE PassRequest
  <2>1. PICK i \in 1..Len(routes) : Reply(routes[i].handler, 0)
    BY <1>1 DEF PassRequest
  <2>2. routes[i] \in Routes BY ElementOfSeq DEF TypeOK
  <2>3. routes[i].handler \in {"sync", "async"}
    BY <2>2, ConstantsAssumption DEF Route, Handlers
  <2>4. pc' = "idle" /\ answer'.by \in {"sync", "async"}
    BY <2>1, <2>3 DEF Reply
  <2>5. Answered'
    BY <2>4 DEF Answered, NotFoundHasReason, ServedWasThere, LargeIsNotCopied,
         ContentWasThere
  <2> QED BY <1>0, <1>1, <2>4, <2>5, QuestionKeeps DEF PassRequest, Asking, calls
<1>2. CASE NoRoute
  <2>1. pc' = "exists" /\ UNCHANGED answer /\ pc = "route"
        /\ UNCHANGED <<disk, path, seen, cached, held>>
    BY <1>2 DEF NoRoute, Ask, Asking, calls
  <2>2. Grounds' BY <2>1 DEF Grounds
  <2> QED BY <1>0, <2>1, <2>2, QuestionKeeps
<1>3. CASE Exists
  <2>1. pc = "exists" /\ UNCHANGED <<disk, path, seen, cached, held>>
    BY <1>3 DEF Exists, Asking, calls
  <2>2. disk \in seen BY <2>1 DEF DispatchInv, Noted
  <2>3. CASE disk.kind = "missing"
    <3>1. pc' = "idle" /\ answer'.by = "not_found" BY <1>3, <2>3 DEF Exists, Reply
    <3>2. disk \in seen' /\ ~disk.opens BY <2>1, <2>2, <2>3, EntryType DEF TypeOK
    <3>3. Answered'
      BY <3>1, <3>2 DEF Answered, NotFoundHasReason, ServedWasThere, LargeIsNotCopied,
         ContentWasThere
    <3> QED BY <1>0, <2>1, <3>1, <3>3, QuestionKeeps
  <2>4. CASE disk.kind # "missing"
    <3>1. pc' \in {"terminated", "directory"} /\ UNCHANGED answer
      BY <1>3, <2>4 DEF Exists, Ask
    <3>2. pc' # "terminated" => Grounds' BY <3>1 DEF Grounds
    <3> QED BY <1>0, <2>1, <3>1, <3>2, QuestionKeeps
  <2> QED BY <2>3, <2>4
<1> QED BY <1>1, <1>2, <1>3

\* A 404 for one of the reasons there are.
LEMMA RefusedKeeps ==
    ASSUME DispatchInv, TypeOK',
           UNCHANGED <<disk, path, seen, held>>,
           pc \notin {"idle", "terminated"}, Reply("not_found", 0),
           \/ 0 \in held
           \/ SeenKinds \cap {"missing", "denied", "other"} # {}
           \/ \E e \in seen : ~e.opens \/ (e.kind = "regular" /\ e.size = 0)
           \/ "dir" \in SeenKinds /\ "regular" \in SeenKinds
    PROVE  DispatchInv'
<1>1. pc' = "idle" /\ answer'.by = "not_found" BY DEF Reply
<1>2. seen' = seen /\ SeenKinds' = SeenKinds BY DEF SeenKinds
<1>3. SeenKinds \cap {"missing", "denied", "other"} # {} => \E e \in seen : ~e.opens
  <2> SUFFICES ASSUME NEW e \in seen, e.kind \in {"missing", "denied", "other"}
               PROVE  ~e.opens
    BY DEF SeenKinds
  <2> QED BY EntryType DEF DispatchInv, TypeOK
<1>4. NotFoundHasReason' BY <1>2, <1>3 DEF NotFoundHasReason
<1>5. ServedWasThere' /\ LargeIsNotCopied' /\ ContentWasThere'
  BY <1>1 DEF ServedWasThere, LargeIsNotCopied, ContentWasThere
<1> QED BY <1>1, <1>4, <1>5, QuestionKeeps DEF Answered

\* The questions about what kind of thing it is.
LEMMA KindKeeps ==
    ASSUME TypeOK, DispatchInv, Directory \/ Folder \/ IsRegular PROVE DispatchInv'
<1>0. TypeOK' BY TypeStep DEF Next
<1>1. /\ pc \in {"directory", "folder", "regular"}
      /\ UNCHANGED <<disk, path, seen, cached, held>>
  BY DEF Directory, Folder, IsRegular, Asking, calls
<1>2. Noted /\ Grounds /\ answer = NoAnswer BY <1>1 DEF DispatchInv
<1>3. /\ disk.kind \in SeenKinds
      /\ disk.kind \in {"missing", "denied", "other", "dir", "regular"}
  BY <1>2, EntryType DEF Noted, SeenKinds, TypeOK
<1>4. SeenKinds' = SeenKinds BY <1>1 DEF SeenKinds
<1>5. CASE Directory
  <2>1. CASE disk.kind = "denied"
    <3>1. Reply("not_found", 0) BY <1>5, <2>1 DEF Directory, IsDirectory
    <3> QED BY <1>0, <1>1, <1>3, <2>1, <3>1, RefusedKeeps
  <2>2. CASE disk.kind = "dir"
    <3>1. pc' = "folder" /\ UNCHANGED answer
      BY <1>5, <2>2 DEF Directory, IsDirectory, Ask
    <3>2. Grounds' BY <1>3, <1>4, <2>2, <3>1 DEF Grounds
    <3> QED BY <1>0, <1>1, <3>1, <3>2, QuestionKeeps
  <2>3. CASE disk.kind \in {"missing", "other", "regular"}
    <3>1. pc' = "regular" /\ UNCHANGED answer
      BY <1>5, <2>3 DEF Directory, IsDirectory, Ask
    <3>2. Grounds' BY <1>3, <1>4, <2>3, <3>1 DEF Grounds
    <3> QED BY <1>0, <1>1, <3>1, <3>2, QuestionKeeps
  <2> QED BY <1>3, <2>1, <2>2, <2>3
<1>6. CASE Folder
  <2>1. pc = "folder" /\ "dir" \in SeenKinds BY <1>2, <1>6 DEF Folder, Asking, Grounds
  <2>2. CASE path.slash /\ disk.kind # "dir"
    <3>1. Reply("not_found", 0) BY <1>6, <2>2 DEF Folder
    <3>2. \/ SeenKinds \cap {"missing", "denied", "other"} # {}
          \/ "dir" \in SeenKinds /\ "regular" \in SeenKinds
      BY <1>3, <2>1, <2>2
    <3> QED BY <1>0, <1>1, <3>1, <3>2, RefusedKeeps
  <2>4. CASE path.slash /\ disk.kind = "dir" /\ ~disk.opens
    <3>1. Reply("not_found", 0) BY <1>6, <2>4 DEF Folder
    <3>2. disk \in seen BY <1>2 DEF Noted
    <3> QED BY <1>0, <1>1, <2>4, <3>1, <3>2, RefusedKeeps
  <2>3. CASE ~path.slash \/ (disk.kind = "dir" /\ disk.opens)
    <3>1. pc' = "idle" /\ answer'.by \in {"redirect", "listing"}
      BY <1>6, <2>3 DEF Folder, Reply
    <3>2. Answered'
      BY <1>4, <2>1, <3>1 DEF Answered, NotFoundHasReason, ServedWasThere, LargeIsNotCopied,
         ContentWasThere
    <3> QED BY <1>0, <1>1, <3>1, <3>2, QuestionKeeps
  <2> QED BY <2>2, <2>3, <2>4
<1>7. CASE IsRegular
  <2>1. SeenKinds \cap {"missing", "other", "regular"} # {}
    BY <1>2, <1>7 DEF IsRegular, Asking, Grounds
  <2>2. CASE disk.kind = "regular"
    <3>1. pc' = "size" /\ UNCHANGED answer BY <1>7, <2>2 DEF IsRegular, Ask
    <3>2. Grounds' BY <1>3, <1>4, <2>2, <3>1 DEF Grounds
    <3> QED BY <1>0, <1>1, <3>1, <3>2, QuestionKeeps
  <2>3. CASE disk.kind # "regular"
    <3>1. Reply("not_found", 0) BY <1>7, <2>3 DEF IsRegular
    <3>2. \/ SeenKinds \cap {"missing", "denied", "other"} # {}
          \/ "dir" \in SeenKinds /\ "regular" \in SeenKinds
      BY <1>3, <2>1, <2>3
    <3> QED BY <1>0, <1>1, <3>1, <3>2, RefusedKeeps
  <2> QED BY <2>2, <2>3
<1> QED BY <1>5, <1>6, <1>7

\* The questions about a file, from its size to its content.
LEMMA FileKeeps ==
    ASSUME TypeOK, DispatchInv, ShouldCopy \/ TakeFromMemory \/ Open \/ Stat
    PROVE  DispatchInv'
<1>0. TypeOK' BY TypeStep DEF Next
<1>1. /\ pc \in {"size", "memory", "open", "stat"}
      /\ UNCHANGED <<disk, path, seen, held>>
  BY DEF ShouldCopy, TakeFromMemory, Open, Stat, Asking, calls
<1>2. Noted /\ Grounds /\ answer = NoAnswer /\ "regular" \in SeenKinds
  BY <1>1 DEF DispatchInv, Grounds
<1>3. /\ disk \in seen /\ disk.kind \in SeenKinds /\ disk.size \in Nat
      /\ disk.kind \in {"missing", "denied", "other", "dir", "regular"}
  BY <1>2, EntryType DEF Noted, SeenKinds, TypeOK
<1>4. SeenKinds' = SeenKinds BY <1>1 DEF SeenKinds
<1>5. ASSUME disk.kind # "regular", Reply("not_found", 0) PROVE DispatchInv'
  <2>1. \/ SeenKinds \cap {"missing", "denied", "other"} # {}
        \/ "dir" \in SeenKinds /\ "regular" \in SeenKinds
    BY <1>2, <1>3, <1>5
  <2> QED BY <1>0, <1>1, <1>5, <2>1, RefusedKeeps
<1>6. CASE ShouldCopy
  <2>1. CASE disk.kind # "regular" BY <1>5, <1>6, <2>1 DEF ShouldCopy
  <2>2. CASE disk.kind = "regular"
    <3>1. /\ pc' \in {"memory", "open"} /\ UNCHANGED <<answer, cached>>
          /\ pc' = "memory" => Fits(disk.size)
      BY <1>6, <2>2 DEF ShouldCopy, Ask, calls
    <3>2. pc' = "memory" => \E e \in seen' : e.kind = "regular" /\ Fits(e.size)'
      BY <1>1, <1>3, <1>4, <2>2, <3>1 DEF Fits
    <3>3. Grounds' BY <1>2, <1>4, <3>1, <3>2 DEF Grounds
    <3> QED BY <1>0, <1>1, <3>1, <3>3, QuestionKeeps
  <2> QED BY <2>1, <2>2
<1>7. CASE TakeFromMemory
  <2>1. PICK e \in seen : e.kind = "regular" /\ Fits(e.size)
    BY <1>2, <1>7 DEF TakeFromMemory, Asking, Grounds
  \* What is served from memory has its reasons, and so has a 404.
  <2>2. ASSUME NEW n \in Nat, Served(n),
               n # 0 => n \in held \/ (disk.kind = "regular" /\ disk.opens /\ disk.size = n),
               n = 0 => 0 \in held \/ ~disk.opens \/ (disk.kind = "regular" /\ disk.size = 0)
        PROVE  DispatchInv'
    <3>1. CASE Reply("memory", n) /\ n > 0
      <4>1. pc' = "idle" /\ answer'.by = "memory" /\ answer'.size = n BY <3>1 DEF Reply
      <4>2. \/ path.jpg /\ e.size < CopyLimit
            \/ e.size <= Page
        BY <2>1 DEF Fits
      <4>3. e \in seen' /\ "regular" \in SeenKinds' /\ path' = path
        BY <1>1, <1>2, <1>4
      <4>4. LargeIsNotCopied' BY <2>1, <4>2, <4>3 DEF LargeIsNotCopied
      <4>5. NotFoundHasReason' /\ ServedWasThere'
        BY <4>1, <4>3 DEF NotFoundHasReason, ServedWasThere
      <4>6. ContentWasThere'
        <5>1. n # 0 /\ seen' = seen /\ held' = held BY <1>1, <3>1
        <5> QED BY <1>3, <2>2, <4>1, <5>1 DEF ContentWasThere
      <4> QED BY <1>0, <1>1, <4>1, <4>4, <4>5, <4>6, QuestionKeeps DEF Answered
    <3>2. CASE Reply("not_found", 0) /\ ~(n > 0)
      <4>1. \/ 0 \in held
            \/ \E x \in seen : ~x.opens \/ (x.kind = "regular" /\ x.size = 0)
        <5>1. n = 0 BY <2>2, <3>2
        <5> QED BY <1>3, <2>2, <5>1
      <4> QED BY <1>0, <1>1, <3>2, <4>1, RefusedKeeps
    <3> QED BY <2>2, <3>1, <3>2 DEF Served
  <2>3. CASE disk.kind = "regular" /\ Served(ContentOf(disk))
    <3> DEFINE n == ContentOf(disk)
    <3>1. /\ n \in Nat
          /\ n # 0 => disk.opens /\ disk.size = n
          /\ n = 0 => ~disk.opens \/ disk.size = 0
      BY <1>3 DEF ContentOf
    <3> HIDE DEF n
    <3>2. Served(n) BY <2>3 DEF n
    <3> QED BY <2>2, <2>3, <3>1, <3>2
  <2>4. ASSUME NEW n \in cached, Served(n) PROVE DispatchInv'
    <3>1. n \in Nat BY <2>4, ConstantsAssumption DEF TypeOK
    <3>2. n \in held BY <1>2, <2>4 DEF Noted
    <3> QED BY <2>2, <2>4, <3>1, <3>2
  <2> QED BY <1>5, <1>7, <2>3, <2>4 DEF TakeFromMemory
<1>8. CASE Open
  <2>1. CASE ~disk.opens /\ Reply("not_found", 0)
    BY <1>0, <1>1, <1>3, <2>1, RefusedKeeps
  <2>2. CASE Ask("stat")
    <3>1. pc' = "stat" /\ UNCHANGED <<answer, cached>>
      BY <1>8, <2>2 DEF Open, Ask, calls
    <3>2. Grounds' BY <1>2, <1>4, <3>1 DEF Grounds
    <3> QED BY <1>0, <1>1, <3>1, <3>2, QuestionKeeps
  <2> QED BY <1>8, <2>1, <2>2 DEF Open
<1>9. CASE Stat
  <2>1. CASE disk.kind \in {"missing", "denied"} BY <1>5, <1>9, <2>1 DEF Stat
  <2>2. CASE disk.kind \notin {"missing", "denied"}
    <3>1. pc' = "idle" /\ answer'.by = "file" BY <1>9, <2>2 DEF Stat, Reply
    <3>2. Answered'
      BY <1>2, <1>4, <3>1 DEF Answered, NotFoundHasReason, ServedWasThere, LargeIsNotCopied,
         ContentWasThere
    <3> QED BY <1>0, <1>1, <3>1, <3>2, QuestionKeeps
  <2> QED BY <2>1, <2>2
<1> QED BY <1>6, <1>7, <1>8, <1>9

LEMMA DispatchInit == Init => DispatchInv
<1> SUFFICES ASSUME Init PROVE DispatchInv
  OBVIOUS
<1>1. pc = "idle" /\ answer = NoAnswer BY DEF Init
<1>2. Answered
  BY <1>1 DEF NoAnswer, Answered, NotFoundHasReason, ServedWasThere,
     LargeIsNotCopied, ContentWasThere
<1> QED BY <1>1, <1>2, TypeInit DEF DispatchInv

LEMMA DispatchStep == DispatchInv /\ [Next]_vars => DispatchInv'
<1> SUFFICES ASSUME DispatchInv, [Next]_vars PROVE DispatchInv'
  OBVIOUS
<1>1. TypeOK /\ TypeOK' BY TypeStep DEF DispatchInv
<1>2. ASSUME UNCHANGED <<disk, path, pc, seen, cached, held, answer>>
      PROVE  DispatchInv'
  BY <1>1, <1>2 DEF DispatchInv, Noted, Grounds, Fits, Answered, NotFoundHasReason,
     ServedWasThere, LargeIsNotCopied, ContentWasThere, SeenKinds
<1>3. CASE UNCHANGED vars BY <1>2, <1>3 DEF vars
<1>4. ASSUME NEW r \in Routes, AddRoute(r) PROVE DispatchInv'
  BY <1>2, <1>4 DEF AddRoute
<1> QED BY <1>1, <1>3, <1>4, ChangeKeeps, CallBegins, RouteKeeps, KindKeeps,
        FileKeeps DEF Next

\* A 404 has a reason: during the call the path led to nothing that can be
\* served or opened, its kind changed between two questions, or the memory cache
\* held it empty, whatever changes on disk, and when.
THEOREM NotFoundCorrect == Spec => []NotFoundHasReason
<1>1. DispatchInv => NotFoundHasReason BY DEF DispatchInv, Answered
<1> QED BY <1>1, DispatchInit, DispatchStep, PTL DEF Spec

\* Files and directories are served only from a path that led to one during
\* the call.
THEOREM ServedCorrect == Spec => []ServedWasThere
<1>1. DispatchInv => ServedWasThere BY DEF DispatchInv, Answered
<1> QED BY <1>1, DispatchInit, DispatchStep, PTL DEF Spec

\* Content beyond a page is read into memory only for a small picture, or when
\* the file had fitted a page earlier in the call.
THEOREM CopiedCorrect == Spec => []LargeIsNotCopied
<1>1. DispatchInv => LargeIsNotCopied BY DEF DispatchInv, Answered
<1> QED BY <1>1, DispatchInit, DispatchStep, PTL DEF Spec

\* What is sent from memory is a content the path led to during the call, in a
\* file that could be opened, or the one the cache held when the call began.
THEOREM ContentCorrect == Spec => []ContentWasThere
<1>1. DispatchInv => ContentWasThere BY DEF DispatchInv, Answered
<1> QED BY <1>1, DispatchInit, DispatchStep, PTL DEF Spec
=============================================================================
