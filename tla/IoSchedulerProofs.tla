--------------------------- MODULE IoSchedulerProofs ---------------------------
(***************************************************************************)
(* Theorems about the event loop, for any number of connections, any       *)
(* answers, any send buffer and any number of requests: what it keeps true *)
(* of its channels, buffers and events; with peers that await their        *)
(* answers, that it uses no channel after it freed it; and with answers in *)
(* turn, that it implements ResponseStream.                                *)
(***************************************************************************)
EXTENDS IoSchedulerStream, SequenceTheorems, FiniteSetTheorems,
        WellFoundedInduction, TLAPS

-----------------------------------------------------------------------------
\* What the operations on a schedule_item return.

\* A function from 1..n is a sequence.
LEMMA FunctionIsSeq ==
    ASSUME NEW S, NEW n \in Nat, NEW f \in [1..n -> S]
    PROVE  f \in Seq(S) /\ Len(f) = n
BY SMT

\* A new channel's queue is an item, and has nothing to write.
LEMMA EmptyItemType == EmptyItem \in Item /\ ~HasBuffers(EmptyItem)
BY EmptySeq DEF EmptyItem, Item, HasBuffers

\* The front buffer of an item that has one.
LEMMA FrontBufferType ==
    ASSUME NEW q \in Item, HasBuffers(q)
    PROVE  FrontBuffer(q) \in Buffer /\ Len(q.buffers) \in Nat \ {0}
BY HeadTailProperties, EmptySeq DEF Item, HasBuffers, FrontBuffer

\* put_back yields an item with all the buffers of both.
LEMMA PutBackType ==
    ASSUME NEW q \in Item, NEW other \in Item
    PROVE  /\ PutBack(q, other) \in Item
           /\ HasBuffers(other) => HasBuffers(PutBack(q, other))
<1>1. q.buffers \o other.buffers \in Seq(Buffer)
  BY ConcatProperties DEF Item
<1>2. HasBuffers(other) => q.buffers \o other.buffers # <<>>
  BY ConcatEqualIffEmpty, EmptySeq, ConcatProperties DEF Item, HasBuffers
<1> QED BY <1>1, <1>2 DEF PutBack, Item, HasBuffers

\* The place put_after_first_intact finds is within the item.
LEMMA BeforeIntactBound ==
    ASSUME NEW S, NEW s \in Seq(S)
    PROVE  BeforeIntact(s) \in 0..Len(s)
<1> DEFINE I == {i \in 1..Len(s) : \A j \in 1..i : ~Intact(s[j])}
<1>1. Len(s) \in Nat BY LenProperties
<1>2. IsFiniteSet(1..Len(s)) /\ Cardinality(1..Len(s)) = Len(s)
  BY <1>1, FS_Interval
<1>3. IsFiniteSet(I) /\ Cardinality(I) <= Len(s)
  BY <1>2, FS_Subset, I \in SUBSET (1..Len(s))
<1>4. Cardinality(I) \in Nat BY <1>3, FS_CardinalityType
<1> QED BY <1>1, <1>3, <1>4 DEF BeforeIntact

\* put_after_first_intact yields an item that has the other's buffers.
LEMMA PutAfterFirstIntactType ==
    ASSUME NEW q \in Item, NEW other \in Item
    PROVE  /\ PutAfterFirstIntact(q, other) \in Item
           /\ HasBuffers(other) => HasBuffers(PutAfterFirstIntact(q, other))
<1> DEFINE s == q.buffers
           at == BeforeIntact(s)
           a == SubSeq(s, 1, at)
           r == Reverse(other.buffers)
           b == SubSeq(s, at + 1, Len(s))
<1>1. s \in Seq(Buffer) /\ Len(s) \in Nat /\ other.buffers \in Seq(Buffer)
  BY LenProperties DEF Item
<1>2. at \in 0..Len(s) BY <1>1, BeforeIntactBound
<1> HIDE DEF at
<1>3. \A i \in 1..Len(s) : s[i] \in Buffer BY <1>1, ElementOfSeq
<1>4. a \in Seq(Buffer)
  <2>1. \A i \in 1..at : s[i] \in Buffer BY <1>1, <1>2, <1>3
  <2> QED BY <1>1, <1>2, <2>1, SubSeqProperties
<1>5. b \in Seq(Buffer)
  <2>1. \A i \in (at + 1)..Len(s) : s[i] \in Buffer BY <1>1, <1>2, <1>3
  <2> QED BY <1>1, <1>2, <2>1, SubSeqProperties
<1>6. r \in Seq(Buffer) /\ Len(r) = Len(other.buffers)
  <2>1. Len(other.buffers) \in Nat BY <1>1, LenProperties
  <2>2. r \in [1..Len(other.buffers) -> Buffer]
    BY <1>1, <2>1, ElementOfSeq, Z3 DEF Reverse
  <2> QED BY <2>1, <2>2, FunctionIsSeq
<1> HIDE DEF a, b, r, s
<1>7. a \o r \in Seq(Buffer) /\ Len(a \o r) = Len(a) + Len(r)
  BY <1>4, <1>6, ConcatProperties
<1>8. /\ (a \o r) \o b \in Seq(Buffer)
      /\ Len((a \o r) \o b) = Len(a) + Len(r) + Len(b)
  <2> DEFINE ar == a \o r
  <2>1. ar \in Seq(Buffer) BY <1>7
  <2> HIDE DEF ar
  <2>2. ar \o b \in Seq(Buffer) /\ Len(ar \o b) = Len(ar) + Len(b)
    BY <1>5, <2>1, ConcatProperties
  <2> QED BY <1>7, <2>2 DEF ar
<1>9. PutAfterFirstIntact(q, other) = [q EXCEPT !.buffers = (a \o r) \o b]
  BY DEF PutAfterFirstIntact, a, r, b, at, s
<1>10. HasBuffers(other) => (a \o r) \o b # <<>>
  <2> SUFFICES ASSUME HasBuffers(other) PROVE Len((a \o r) \o b) # 0
    BY EmptySeq
  <2>1. Len(r) \in Nat \ {0} BY <1>1, <1>6, EmptySeq DEF HasBuffers
  <2>2. Len(a) \in Nat /\ Len(b) \in Nat BY <1>4, <1>5, LenProperties
  <2> QED BY <2>1, <2>2, <1>8
<1> QED BY <1>8, <1>9, <1>10 DEF Item, HasBuffers

\* Replacing the front buffer keeps an item an item, with as many buffers.
LEMMA ReplaceFrontType ==
    ASSUME NEW q \in Item, HasBuffers(q), NEW b \in Buffer
    PROVE  ReplaceFront(q, b) \in Item /\ HasBuffers(ReplaceFront(q, b))
<1>1. 1 \in 1..Len(q.buffers) /\ q.buffers \in Seq(Buffer)
  BY FrontBufferType DEF Item
<1>2. /\ [q.buffers EXCEPT ![1] = b] \in Seq(Buffer)
      /\ Len([q.buffers EXCEPT ![1] = b]) = Len(q.buffers)
  BY <1>1, ExceptSeq
<1>3. [q.buffers EXCEPT ![1] = b] # <<>>
  BY <1>1, <1>2, EmptySeq, FrontBufferType
<1> QED BY <1>2, <1>3 DEF ReplaceFront, Item, HasBuffers

\* Removing the front buffer leaves an item with the same keep flag.
LEMMA RemoveFrontType ==
    ASSUME NEW q \in Item, HasBuffers(q)
    PROVE  RemoveFront(q) \in Item /\ RemoveFront(q).keep = q.keep
BY HeadTailProperties DEF RemoveFront, Item, HasBuffers

-----------------------------------------------------------------------------
\* What the parts of an action keep of the types.

\* The flags the kernel is told are the channel's: epoll::update.
LEMMA UpdateType ==
    ASSUME TypeOK, NEW c \in Chans, flags' \in [Chans -> SUBSET Flags],
           Update(c)
    PROVE  mask' \in [Chans -> SUBSET Flags] /\ rdy' \subseteq Chans
BY DEF Update, TypeOK

\* Unready futures that a removed channel takes with it are so many.
LEMMA JoiningType ==
    ASSUME TypeOK, NEW c \in Conns
    PROVE  Cardinality({i \in 1..Len(queue[c].buffers) :
                           /\ queue[c].buffers[i].type = "async"
                           /\ ~queue[c].buffers[i].ready}) \in Nat
<1> DEFINE I == {i \in 1..Len(queue[c].buffers) :
                     /\ queue[c].buffers[i].type = "async"
                     /\ ~queue[c].buffers[i].ready}
<1>1. Len(queue[c].buffers) \in Nat BY LenProperties DEF TypeOK, Item
<1>2. IsFiniteSet(I)
  <2>1. IsFiniteSet(1..Len(queue[c].buffers)) BY <1>1, FS_Interval
  <2>2. I \in SUBSET (1..Len(queue[c].buffers)) OBVIOUS
  <2> HIDE DEF I
  <2> QED BY <2>1, <2>2, FS_Subset
<1> HIDE DEF I
<1>3. Cardinality(I) \in Nat BY <1>2, FS_CardinalityType
<1> QED BY <1>3 DEF I

\* Removing a channel keeps every variable it assigns in its type.
LEMMA RemoveType ==
    ASSUME TypeOK, NEW c \in Conns, RemoveChannel(c)
    PROVE  /\ chan' \in [Conns -> {"none", "backlog", "open", "removed"}]
           /\ inbuf' \in [Conns -> SUBSET {"part", "final"}]
           /\ ctx' \in [Conns -> BOOLEAN]
           /\ queue' \in [Conns -> Item]
           /\ flags' \in [Chans -> SUBSET Flags]
           /\ mask' \in [Chans -> SUBSET Flags]
           /\ rdy' \subseteq Chans
           /\ joining' \in Nat
<1>1. joining' \in Nat
  <2> DEFINE n == Cardinality({i \in 1..Len(queue[c].buffers) :
                     /\ queue[c].buffers[i].type = "async"
                     /\ ~queue[c].buffers[i].ready})
  <2>1. n \in Nat BY JoiningType
  <2>2. joining' = IF AsyncJoins THEN n ELSE 0 BY DEF RemoveChannel
  <2> HIDE DEF n
  <2> QED BY <2>1, <2>2
<1> QED BY <1>1, EmptyItemType DEF RemoveChannel, TypeOK, Chans

\* The answer on_read gives is an item with something to write.
LEMMA AnswerItemType ==
    ASSUME TypeOK, NEW c \in Conns, NEW r \in Responses
    PROVE  AnswerItem(c, r) \in Item /\ HasBuffers(AnswerItem(c, r))
<1>1. r \in Response BY ResponsesAssumption
<1>2. r.buffers \in Seq(Part) /\ r.buffers # <<>> /\ r.keep \in BOOLEAN
  BY <1>1 DEF Response
<1>3. Len(r.buffers) \in Nat \ {0} /\ \A i \in 1..Len(r.buffers) : r.buffers[i] \in Part
  BY <1>2, EmptySeq, ElementOfSeq
<1>4. Len(answers[c]) + 1 \in Nat BY LenProperties DEF TypeOK
<1> DEFINE n == Len(r.buffers)
           req == Len(answers[c]) + 1
           bs == [i \in 1..n |->
                    [type |-> r.buffers[i].type, req |-> req,
                     size |-> r.buffers[i].size, left |-> r.buffers[i].size,
                     ready |-> FALSE]]
<1>5. bs \in [1..n -> Buffer]
  BY <1>3, <1>4 DEF Part, Buffer
<1>6. bs \in Seq(Buffer) /\ Len(bs) = n BY <1>3, <1>5, FunctionIsSeq
<1>7. AnswerItem(c, r) = [buffers |-> bs, keep |-> r.keep]
  BY DEF AnswerItem
<1> HIDE DEF bs
<1>8. bs # <<>> BY <1>3, <1>6, EmptySeq
<1> QED BY <1>2, <1>6, <1>7, <1>8 DEF Item, HasBuffers

\* Enqueueing an answer yields an item with something to write.
LEMMA EnqueueType ==
    ASSUME NEW q \in Item, NEW item \in Item, HasBuffers(item)
    PROVE  Enqueue(q, item) \in Item /\ HasBuffers(Enqueue(q, item))
BY PutBackType, PutAfterFirstIntactType DEF Enqueue

\* What Fill appends leaves the send buffer a sequence of request numbers.
LEMMA FillType ==
    ASSUME TypeOK, NEW c \in Conns, NEW n \in Nat, Fill(c, n)
    PROVE  outbuf' \in [Conns -> Seq(Nat)]
<1>1. Current(c) \in Buffer
  BY FrontBufferType DEF Fill, SyncFront, Current, TypeOK
<1>2. Current(c).req \in Nat BY <1>1 DEF Buffer
<1> DEFINE u == [i \in 1..n |-> Current(c).req]
<1>3. u \in Seq(Nat)
  <2>1. u \in [1..n -> Nat] BY <1>2
  <2> QED BY <2>1, FunctionIsSeq
<1> HIDE DEF u
<1>4. outbuf[c] \o u \in Seq(Nat) BY <1>3, ConcatProperties DEF TypeOK
<1>5. outbuf' = [outbuf EXCEPT ![c] = outbuf[c] \o u] BY DEF Fill, u
<1> QED BY <1>4, <1>5 DEF TypeOK

\* Writing to the front buffer needs one, and what is left of it is positive.
LEMMA SyncFrontType ==
    ASSUME TypeOK, NEW c \in Conns, SyncFront(c)
    PROVE  /\ queue[c] \in Item /\ HasBuffers(queue[c])
           /\ Current(c) \in Buffer
           /\ Current(c).left \in Nat \ {0}
<1>1. Current(c) \in Buffer
  BY FrontBufferType DEF SyncFront, Current, TypeOK
<1> QED BY <1>1 DEF Buffer, SyncFront, TypeOK

-----------------------------------------------------------------------------
\* The types of the variables.

LEMMA TypeInit == Init => TypeOK
<1> SUFFICES ASSUME Init PROVE TypeOK
  OBVIOUS
<1>1. flags \in [Chans -> SUBSET Flags] /\ mask = flags
  BY DEF Init, Flags
<1>2. queue \in [Conns -> Item] BY EmptyItemType DEF Init
<1>3. outbuf \in [Conns -> Seq(Nat)] /\ answers \in [Conns -> Seq(Responses)]
  BY EmptySeq DEF Init
<1> QED BY <1>1, <1>2, <1>3 DEF Init, TypeOK

\* An event of the environment keeps every variable in its type.
LEMMA TypeEnvironment == TypeOK /\ Environment => TypeOK'
<1> SUFFICES ASSUME TypeOK, Environment PROVE TypeOK'
  OBVIOUS
<1>1. ASSUME NEW c \in Conns, Connect(c) PROVE TypeOK'
  BY <1>1, ConstantsAssumption DEF Connect, Edge, TypeOK, server, Chans
<1>2. ASSUME NEW c \in Conns, NEW piece \in {"part", "final"}, Send(c, piece)
      PROVE  TypeOK'
  BY <1>2 DEF Send, Edge, TypeOK, server, Chans
<1>3. ASSUME NEW c \in Conns, Receive(c) PROVE TypeOK'
  <2>1. outbuf' \in [Conns -> Seq(Nat)]
    BY <1>3, HeadTailProperties DEF Receive, TypeOK
  <2> QED BY <1>3, <2>1 DEF Receive, Edge, TypeOK, server, Chans
<1>4. ASSUME NEW c \in Conns, NEW how \in {"fin", "reset"}, Leave(c, how)
      PROVE  TypeOK'
  BY <1>4, EmptySeq DEF Leave, Edge, TypeOK, server, Chans
<1>5. ASSUME NEW c \in Conns, NEW i \in 1..Len(queue[c].buffers),
             Complete(c, i)
      PROVE  TypeOK'
  <2> DEFINE s == queue[c].buffers
             b == [s[i] EXCEPT !.ready = TRUE]
             q == [queue[c] EXCEPT !.buffers = [s EXCEPT ![i] = b]]
  <2>1. s \in Seq(Buffer) /\ queue[c] \in Item BY DEF TypeOK, Item
  <2>2. s[i] \in Buffer BY <2>1, ElementOfSeq
  <2>3. b \in Buffer BY <2>2 DEF Buffer
  <2>4. [s EXCEPT ![i] = b] \in Seq(Buffer) BY <2>1, <2>3, ExceptSeq
  <2>5. q \in Item BY <2>1, <2>4 DEF Item
  <2>6. queue' = [queue EXCEPT ![c] = q] BY <1>5 DEF Complete
  <2> HIDE DEF q
  <2>7. queue' \in [Conns -> Item] BY <2>5, <2>6 DEF TypeOK
  <2>8. UNCHANGED <<chan, peer, inbuf, outbuf, asked, received, answers, ctx,
                    flags, mask, rdy, batch, cur, pc, filled, joining, touched>>
    BY <1>5 DEF Complete
  <2> QED BY <2>7, <2>8 DEF TypeOK
<1>6. ASSUME JoinOne PROVE TypeOK'
  BY <1>6 DEF JoinOne, TypeOK, server
<1> QED BY <1>1, <1>2, <1>3, <1>4, <1>5, <1>6 DEF Environment

\* A step of the loop that handles an event of a connection keeps every
\* variable in its type.
LEMMA TypeHandle == ASSUME TypeOK, NEW c \in Conns, Handle(c) PROVE TypeOK'
<1> c \in Chans /\ NoChan \in Chans \cup {NoChan} BY DEF Chans
<1>1. CASE TerminateEvent(c)
  BY <1>1, RemoveType
     DEF TerminateEvent, Dispatched, Running, Resume, RemoveChannel, TypeOK
<1>2. CASE ReadClosed(c)
  BY <1>2, RemoveType DEF ReadClosed, ReadDispatched, Dispatched, Running,
     Resume, RemoveChannel, TypeOK
<1>3. CASE ReadPart(c)
  BY <1>3 DEF ReadPart, ReadDispatched, Dispatched, Running, Resume,
     LeftUnread, TypeOK
<1>4. ASSUME NEW r \in Responses, ReadRequest(c, r) PROVE TypeOK'
  <2>1. queue' \in [Conns -> Item]
    <3>1. Enqueue(queue[c], AnswerItem(c, r)) \in Item
      BY AnswerItemType, EnqueueType DEF TypeOK
    <3> QED BY <1>4, <3>1 DEF ReadRequest, TypeOK
  <2>2. flags' \in [Chans -> SUBSET Flags]
    BY <1>4 DEF ReadRequest, Wanting, TypeOK, Flags
  <2>3. mask' \in [Chans -> SUBSET Flags] /\ rdy' \subseteq Chans
    BY <1>4, <2>2, UpdateType DEF ReadRequest
  <2>4. answers' \in [Conns -> Seq(Responses)]
    <3>1. Append(answers[c], r) \in Seq(Responses)
      BY AppendProperties DEF TypeOK
    <3> QED BY <1>4, <3>1 DEF ReadRequest, TypeOK
  <2> QED BY <1>4, <2>1, <2>2, <2>3, <2>4
          DEF ReadRequest, ReadDispatched, Dispatched, LeftUnread, TypeOK
<1>5. CASE WriteEvent(c)
  BY <1>5 DEF WriteEvent, WriteDispatched, TypeOK
<1>6. CASE WriteAfterRemove(c)
  BY <1>6 DEF WriteAfterRemove, WriteDispatched, Resume, TypeOK
<1>7. CASE BarrierClosed(c)
  <2>1. flags' \in [Chans -> SUBSET Flags]
    BY <1>7 DEF BarrierClosed, TypeOK
  <2>2. mask' \in [Chans -> SUBSET Flags] /\ rdy' \subseteq Chans
    BY <1>7, <2>1, UpdateType DEF BarrierClosed
  <2> QED BY <1>7, <2>1, <2>2 DEF BarrierClosed, Resume, TypeOK
<1>8. CASE BarrierOpen(c)
  <2>1. /\ queue[c] \in Item /\ HasBuffers(queue[c])
        /\ Current(c) \in Buffer
    BY <1>8, FrontBufferType DEF BarrierOpen, IsFrontAsync, Current, TypeOK
  <2>2. [Current(c) EXCEPT !.type = "memory"] \in Buffer BY <2>1 DEF Buffer
  <2>3. ReplaceFront(queue[c], [Current(c) EXCEPT !.type = "memory"]) \in Item
    BY <2>1, <2>2, ReplaceFrontType
  <2> QED BY <1>8, <2>3 DEF BarrierOpen, TypeOK
<1>9. CASE DoItYourself(c)
  <2>1. /\ queue[c] \in Item /\ HasBuffers(queue[c])
        /\ Current(c) \in Buffer
    BY <1>9, SyncFrontType DEF DoItYourself
  <2>2. [Current(c) EXCEPT !.type = "memory"] \in Buffer BY <2>1 DEF Buffer
  <2>3. ReplaceFront(queue[c], [Current(c) EXCEPT !.type = "memory"]) \in Item
    BY <2>1, <2>2, ReplaceFrontType
  <2> QED BY <1>9, <2>3 DEF DoItYourself, TypeOK
<1>10. CASE WriteFails(c)
  BY <1>10, RemoveType DEF WriteFails, Resume, RemoveChannel, TypeOK
<1>11. CASE FillNothing(c)
  <2>1. outbuf' \in [Conns -> Seq(Nat)] BY <1>11, FillType DEF FillNothing
  <2> QED BY <1>11, <2>1 DEF FillNothing, EndWriting, TypeOK
<1>12. ASSUME NEW n \in 1..Room, FillPart(c, n) PROVE TypeOK'
  <2>0. n \in Nat /\ Fill(c, n)
    BY <1>12, ConstantsAssumption DEF FillPart
  <2>1. outbuf' \in [Conns -> Seq(Nat)] BY <2>0, FillType
  <2>2. /\ queue[c] \in Item /\ HasBuffers(queue[c])
        /\ Current(c) \in Buffer
    BY <2>0, SyncFrontType DEF Fill
  <2>3. Rest(Current(c), n) \in Buffer
    BY <1>12, <2>0, <2>2 DEF Buffer, FillPart, Rest
  <2>4. ReplaceFront(queue[c], Rest(Current(c), n)) \in Item
    BY <2>2, <2>3, ReplaceFrontType
  <2> QED BY <1>12, <2>1, <2>4 DEF FillPart, TypeOK
<1>13. CASE FillAll(c)
  <2>1. SyncFront(c) /\ Fill(c, Current(c).left) BY <1>13 DEF FillAll, Fill
  <2>2. outbuf' \in [Conns -> Seq(Nat)] BY <2>1, SyncFrontType, FillType
  <2>3. RemoveFront(queue[c]) \in Item BY <2>1, SyncFrontType, RemoveFrontType
  <2> QED BY <1>13, <2>2, <2>3 DEF FillAll, TypeOK
<1>14. CASE DrainAndKeep(c)
  <2>1. SyncFront(c) /\ Fill(c, Current(c).left)
    BY <1>14 DEF DrainAndKeep, Fill
  <2>2. outbuf' \in [Conns -> Seq(Nat)] BY <2>1, SyncFrontType, FillType
  <2>3. RemoveFront(queue[c]) \in Item BY <2>1, SyncFrontType, RemoveFrontType
  <2>4. flags' \in [Chans -> SUBSET Flags]
    BY <1>14 DEF DrainAndKeep, Quiet, TypeOK, Flags
  <2> QED BY <1>14, <2>2, <2>3, <2>4 DEF DrainAndKeep, EndWriting, TypeOK
<1>15. CASE DrainAndClose(c)
  <2>1. SyncFront(c) /\ Fill(c, Current(c).left) /\ RemoveChannel(c)
    BY <1>15 DEF DrainAndClose, Fill
  <2>2. outbuf' \in [Conns -> Seq(Nat)] BY <2>1, SyncFrontType, FillType
  <2> QED BY <1>15, <2>1, <2>2, RemoveType
          DEF DrainAndClose, Resume, RemoveChannel, TypeOK
<1>16. CASE NothingToWrite(c)
  BY <1>16 DEF NothingToWrite, EndWriting, TypeOK
<1>17. CASE Rearm(c)
  <2>1. flags' \in [Chans -> SUBSET Flags]
    BY <1>17 DEF Rearm, TypeOK, Flags
  <2>2. mask' \in [Chans -> SUBSET Flags] /\ rdy' \subseteq Chans
    BY <1>17, <2>1, UpdateType DEF Rearm
  <2> QED BY <1>17, <2>1, <2>2 DEF Rearm, Resume, TypeOK
<1> QED BY <1>1, <1>2, <1>3, <1>4, <1>5, <1>6, <1>7, <1>8, <1>9, <1>10, <1>11,
           <1>12, <1>13, <1>14, <1>15, <1>16, <1>17 DEF Handle

\* Every step keeps every variable in its type.
LEMMA TypeStep == TypeOK /\ [Next]_vars => TypeOK'
<1> SUFFICES ASSUME TypeOK, [Next]_vars PROVE TypeOK'
  OBVIOUS
<1>1. CASE Await
  BY <1>1 DEF Await, TypeOK, Reported, Level, Events
<1>2. ASSUME NEW c \in Chans, TakeEvent(c) PROVE TypeOK'
  <2>1. flags' \in [Chans -> SUBSET Flags]
    <3>1. CASE "et" \in flags[c] BY <1>2, <3>1 DEF TakeEvent, TypeOK
    <3>2. CASE "et" \notin flags[c]
      <4>1. flags' = [flags EXCEPT ![c] = flags[c] \cup {"et"}]
        BY <1>2, <3>2, Zenon DEF TakeEvent
      <4>2. flags[c] \cup {"et"} \in SUBSET Flags BY DEF TypeOK, Flags
      <4> QED BY <4>1, <4>2 DEF TypeOK
    <3> QED BY <3>1, <3>2
  <2>2. mask' \in [Chans -> SUBSET Flags] /\ rdy' \subseteq Chans
    BY <1>2, <2>1, UpdateType DEF TakeEvent, TypeOK
  <2> QED BY <1>2, <2>1, <2>2 DEF TakeEvent, TypeOK
<1>3. CASE AcceptEvent
  BY <1>3 DEF AcceptEvent, Resume, TypeOK, Backlog, Chans, Flags
<1>4. CASE UNCHANGED vars
  BY <1>4 DEF vars, TypeOK
<1> QED BY <1>1, <1>2, <1>3, <1>4, TypeEnvironment, TypeHandle DEF Next, Loop

\* Every variable of the loop keeps its type.
THEOREM TypeCorrect == Spec => []TypeOK
<1> QED BY TypeInit, TypeStep, PTL DEF Spec

-----------------------------------------------------------------------------
\* Interest follows the queue.

\* A channel that is not open has nothing to write and is not registered; at
\* most the write half of the event being handled still names it.
Closed(c) == chan[c] # "open" =>
    /\ queue[c] = EmptyItem /\ flags[c] = {} /\ mask[c] = {}
    /\ batch[c] \subseteq {"write"}
    /\ batch[c] # {} => cur = c

\* An open one wants write events exactly when it has something to write, and
\* the kernel knows its flags, or knows nothing of it; only between the drain
\* of a queue and the update that follows is the kernel behind.
Armed(c) == chan[c] = "open" =>
    /\ "termination" \in flags[c]
    /\ HasBuffers(queue[c]) <=> "write" \in flags[c]
    /\ mask[c] \in {{}, flags[c]} \/ (cur = c /\ pc = "rearm")

\* process_write works on an open channel, of whose event only the write half
\* is left.
WriterOpen == pc \in {"write", "rearm"} =>
    cur \in Conns /\ chan[cur] = "open" /\ batch[cur] \subseteq {"write"}

LoopInv == TypeOK /\ WriterOpen /\ \A c \in Conns : Closed(c) /\ Armed(c)

LEMMA LoopInit == Init => LoopInv
<1> SUFFICES ASSUME Init PROVE LoopInv
  OBVIOUS
<1>1. \A c \in Conns : c # Acceptor BY ConstantsAssumption
<1> QED BY <1>1, TypeInit, EmptyItemType
        DEF Init, LoopInv, WriterOpen, Closed, Armed, Chans

\* A handler of c's event leaves the other connections as they were.
LEMMA OthersKeep ==
    ASSUME LoopInv, NEW c \in Conns, cur = c,
           NEW d \in Conns, d # c,
           chan'[d] = chan[d], queue'[d] = queue[d], flags'[d] = flags[d],
           mask'[d] = mask[d], batch'[d] = batch[d]
    PROVE  Closed(d)' /\ Armed(d)'
<1> Closed(d) /\ Armed(d) BY DEF LoopInv
<1> QED BY DEF Closed, Armed

\* The environment touches neither flags nor queues, but for a future's value.
LEMMA LoopEnvironment == LoopInv /\ Environment => LoopInv'
<1> SUFFICES ASSUME LoopInv, Environment PROVE LoopInv'
  OBVIOUS
<1>1. TypeOK' BY TypeEnvironment DEF LoopInv
<1> USE <1>1
<1>2. ASSUME NEW c \in Conns, Connect(c) PROVE LoopInv'
  BY <1>2 DEF Connect, server, LoopInv, TypeOK, WriterOpen, Closed, Armed
<1>3. ASSUME NEW c \in Conns, NEW piece \in {"part", "final"}, Send(c, piece)
      PROVE  LoopInv'
  BY <1>3 DEF Send, server, LoopInv, WriterOpen, Closed, Armed
<1>4. ASSUME NEW c \in Conns, Receive(c) PROVE LoopInv'
  BY <1>4 DEF Receive, server, LoopInv, WriterOpen, Closed, Armed
<1>5. ASSUME NEW c \in Conns, NEW how \in {"fin", "reset"}, Leave(c, how)
      PROVE  LoopInv'
  BY <1>5 DEF Leave, server, LoopInv, WriterOpen, Closed, Armed
<1>6. ASSUME NEW c \in Conns, NEW i \in 1..Len(queue[c].buffers),
             Complete(c, i)
      PROVE  LoopInv'
  <2>1. UNCHANGED <<chan, flags, mask, batch, cur, pc>> BY <1>6 DEF Complete
  <2>2. HasBuffers(queue'[c]) <=> HasBuffers(queue[c])
    <3> DEFINE s == queue[c].buffers
               b == [s[i] EXCEPT !.ready = TRUE]
    <3>1. s \in Seq(Buffer) BY DEF LoopInv, TypeOK, Item
    <3>2. s[i] \in Buffer BY <3>1, ElementOfSeq
    <3>3. b \in Buffer BY <3>2 DEF Buffer
    <3> HIDE DEF b, s
    <3>4. Len([s EXCEPT ![i] = b]) = Len(s) /\ [s EXCEPT ![i] = b] \in Seq(Buffer)
      BY <3>1, <3>3, ExceptSeq DEF s
    <3>5. s # <<>> /\ [s EXCEPT ![i] = b] # <<>>
      <4>1. Len(s) # 0 BY <3>1, LenProperties DEF s
      <4> QED BY <4>1, <3>4, EmptySeq
    <3>6. queue'[c].buffers = [s EXCEPT ![i] = b]
      BY <1>6 DEF Complete, s, b, LoopInv, TypeOK, Item
    <3> QED BY <3>5, <3>6 DEF HasBuffers, s
  <2>3. \A d \in Conns : d # c => queue'[d] = queue[d]
    BY <1>6 DEF Complete, LoopInv, TypeOK
  <2>4. chan[c] = "open"
    <3> SUFFICES ASSUME chan[c] # "open" PROVE FALSE
      OBVIOUS
    <3>1. queue[c].buffers = <<>> BY DEF LoopInv, Closed, EmptyItem
    <3> QED BY <3>1, EmptySeq
  <2> QED BY <2>1, <2>2, <2>3, <2>4 DEF LoopInv, WriterOpen, Closed, Armed
<1>7. ASSUME JoinOne PROVE LoopInv'
  BY <1>7 DEF JoinOne, server, LoopInv, WriterOpen, Closed, Armed
<1> QED BY <1>2, <1>3, <1>4, <1>5, <1>6, <1>7 DEF Environment

\* A handler of c's event is the loop's current one and leaves what the other
\* connections have alone.
Untouched(d) ==
    /\ chan'[d] = chan[d] /\ queue'[d] = queue[d] /\ flags'[d] = flags[d]
    /\ mask'[d] = mask[d] /\ batch'[d] = batch[d]

LEMMA HandleLocal ==
    ASSUME TypeOK, NEW c \in Conns, Handle(c)
    PROVE  cur = c /\ \A d \in Conns : d # c => Untouched(d)
<1> c \in Chans /\ Conns \subseteq Chans BY DEF Chans
<1> USE DEF Dispatched, Running, Untouched, TypeOK
<1>1. CASE TerminateEvent(c) BY <1>1 DEF TerminateEvent, RemoveChannel
<1>2. CASE ReadClosed(c)
  BY <1>2 DEF ReadClosed, ReadDispatched, RemoveChannel
<1>3. CASE ReadPart(c) BY <1>3 DEF ReadPart, ReadDispatched
<1>4. ASSUME NEW r \in Responses, ReadRequest(c, r)
      PROVE  cur = c /\ \A d \in Conns : d # c => Untouched(d)
  <2>1. /\ cur = c /\ UNCHANGED chan
        /\ batch' = [batch EXCEPT ![c] = @ \ {"read"}]
        /\ flags' = [flags EXCEPT ![c] = Wanting(@)]
    BY <1>4 DEF ReadRequest, ReadDispatched
  <2>2. queue' = [queue EXCEPT ![c] = Enqueue(@, AnswerItem(c, r))]
    BY <1>4 DEF ReadRequest
  <2>3. \A d \in Chans : d # c => mask'[d] = mask[d]
    BY <1>4 DEF ReadRequest, Update
  <2> QED BY <2>1, <2>2, <2>3
<1>5. CASE WriteEvent(c) BY <1>5 DEF WriteEvent, WriteDispatched
<1>6. CASE WriteAfterRemove(c) BY <1>6 DEF WriteAfterRemove, WriteDispatched
<1>7. CASE BarrierClosed(c) BY <1>7 DEF BarrierClosed, Writing, Update
<1>8. CASE BarrierOpen(c) BY <1>8 DEF BarrierOpen, Writing
<1>9. CASE DoItYourself(c) BY <1>9 DEF DoItYourself, SyncFront, Writing
<1>10. CASE WriteFails(c)
  BY <1>10 DEF WriteFails, SyncFront, Writing, RemoveChannel
<1> USE DEF Fill, SyncFront, Writing
<1>11. CASE FillNothing(c) BY <1>11 DEF FillNothing, EndWriting
<1>12. ASSUME NEW n \in 1..Room, FillPart(c, n)
       PROVE  cur = c /\ \A d \in Conns : d # c => Untouched(d)
  BY <1>12 DEF FillPart
<1>13. CASE FillAll(c) BY <1>13 DEF FillAll
<1>14. CASE DrainAndKeep(c) BY <1>14 DEF DrainAndKeep, EndWriting
<1>15. CASE DrainAndClose(c) BY <1>15 DEF DrainAndClose, RemoveChannel
<1>16. CASE NothingToWrite(c) BY <1>16 DEF NothingToWrite, EndWriting
<1>17. CASE Rearm(c) BY <1>17 DEF Rearm, Update
<1> QED BY <1>1, <1>2, <1>3, <1>4, <1>5, <1>6, <1>7, <1>8, <1>9, <1>10, <1>11,
           <1>12, <1>13, <1>14, <1>15, <1>16, <1>17 DEF Handle

\* remove() leaves a channel that is not open, and nothing behind.
LEMMA RemovedIsClosed ==
    ASSUME TypeOK, NEW c \in Conns, RemoveChannel(c), Resume(c),
           batch'[c] \subseteq {"write"}
    PROVE  Closed(c)' /\ Armed(c)' /\ WriterOpen'
<1> c \in Chans BY DEF Chans
<1>1. chan'[c] = "removed" /\ queue'[c] = EmptyItem /\ flags'[c] = {} /\ mask'[c] = {}
  BY DEF RemoveChannel, TypeOK
<1>2. pc' \in {"loop", "event"} /\ (batch'[c] # {} => cur' = c)
  BY DEF Resume
<1> QED BY <1>1, <1>2 DEF Closed, Armed, WriterOpen

\* After an update the kernel knows an open channel's flags, or knows nothing
\* of it.
LEMMA UpdateArms ==
    ASSUME TypeOK, NEW c \in Conns, Update(c)
    PROVE  mask'[c] \in {{}, flags'[c]}
BY DEF Update, TypeOK, Chans

\* A handler of c's event keeps c's own part of the invariant.
LEMMA HandleOwn ==
    ASSUME LoopInv, NEW c \in Conns, Handle(c)
    PROVE  Closed(c)' /\ Armed(c)' /\ WriterOpen'
<1> c \in Chans BY DEF Chans
<1> TypeOK /\ TypeOK' /\ Closed(c) /\ Armed(c) /\ WriterOpen
  BY TypeHandle DEF LoopInv
<1> queue[c] \in Item /\ batch[c] \subseteq Events BY DEF TypeOK
<1> ~HasBuffers(EmptyItem) BY DEF HasBuffers, EmptyItem
<1>0. cur = c BY HandleLocal
<1>1. CASE TerminateEvent(c)
  BY <1>1, RemovedIsClosed DEF TerminateEvent, TypeOK
<1>2. ASSUME ReadDispatched(c)
      PROVE  /\ chan[c] = "open" /\ batch'[c] \subseteq {"write"}
             /\ pc = "event"
  BY <1>2 DEF ReadDispatched, Dispatched, Running, Closed, TypeOK, Events
<1>3. CASE ReadClosed(c)
  BY <1>2, <1>3, RemovedIsClosed DEF ReadClosed
<1>4. CASE ReadPart(c)
  <2>1. /\ chan[c] = "open" /\ pc = "event" /\ pc' \in {"loop", "event"}
        /\ UNCHANGED <<chan, queue, flags, mask>>
    BY <1>2, <1>4 DEF ReadPart, Resume
  <2> QED BY <2>1 DEF Closed, Armed, WriterOpen
<1>5. ASSUME NEW r \in Responses, ReadRequest(c, r)
      PROVE  Closed(c)' /\ Armed(c)' /\ WriterOpen'
  <2>1. /\ chan'[c] = "open" /\ batch'[c] \subseteq {"write"}
        /\ cur' = c
    BY <1>0, <1>2, <1>5 DEF ReadRequest
  <2>2. HasBuffers(queue'[c])
    <3>1. HasBuffers(Enqueue(queue[c], AnswerItem(c, r)))
      BY AnswerItemType, EnqueueType
    <3> QED BY <1>5, <3>1 DEF ReadRequest, TypeOK
  <2>3. flags'[c] = flags[c] \cup {"write"}
    BY <1>5 DEF ReadRequest, Wanting, TypeOK
  <2>4. mask'[c] \in {{}, flags'[c]} BY <1>5, UpdateArms DEF ReadRequest
  <2>5. "termination" \in flags[c] BY <1>2, <1>5 DEF ReadRequest, Armed
  <2> QED BY <2>1, <2>2, <2>3, <2>4, <2>5 DEF Closed, Armed, WriterOpen
<1>6. CASE WriteEvent(c)
  <2>1. batch'[c] = {} BY <1>6 DEF WriteEvent, WriteDispatched, TypeOK
  <2> QED BY <1>0, <1>6, <2>1
          DEF WriteEvent, WriteDispatched, Dispatched, Running, Closed, Armed,
              WriterOpen
<1>7. CASE WriteAfterRemove(c)
  <2>1. batch'[c] = {} BY <1>7 DEF WriteAfterRemove, WriteDispatched, TypeOK
  <2>2. pc' \in {"loop", "event", "crashed"}
    BY <1>7 DEF WriteAfterRemove, Resume
  <2> QED BY <1>7, <2>1, <2>2
          DEF WriteAfterRemove, Closed, Armed, WriterOpen
<1>8. ASSUME Writing(c)
      PROVE  /\ chan[c] = "open" /\ batch[c] \subseteq {"write"} /\ pc = "write"
             /\ "termination" \in flags[c] /\ mask[c] \in {{}, flags[c]}
             /\ HasBuffers(queue[c]) <=> "write" \in flags[c]
  BY <1>8 DEF Writing, Running, WriterOpen, Armed
<1>9. CASE BarrierClosed(c)
  <2>1. flags'[c] = flags[c] \ {"et"} BY <1>9 DEF BarrierClosed, TypeOK
  <2>2. mask'[c] \in {{}, flags'[c]} BY <1>9, UpdateArms DEF BarrierClosed
  <2>3. pc' \in {"loop", "event"} BY <1>9 DEF BarrierClosed, Resume
  <2> QED BY <1>8, <1>9, <2>1, <2>2, <2>3
          DEF BarrierClosed, Closed, Armed, WriterOpen
<1>10. ASSUME Writing(c), HasBuffers(queue[c]), HasBuffers(queue'[c]),
              UNCHANGED <<chan, flags, mask, batch, cur, pc>>
       PROVE  Closed(c)' /\ Armed(c)' /\ WriterOpen'
  BY <1>0, <1>8, <1>10 DEF Closed, Armed, WriterOpen
<1>11. ASSUME NEW b \in Buffer, HasBuffers(queue[c]),
              queue' = [queue EXCEPT ![c] = ReplaceFront(@, b)]
       PROVE  HasBuffers(queue'[c])
  <2>1. HasBuffers(ReplaceFront(queue[c], b)) BY <1>11, ReplaceFrontType
  <2> QED BY <1>11, <2>1 DEF TypeOK
<1>12. CASE BarrierOpen(c)
  <2>1. Current(c) \in Buffer /\ HasBuffers(queue[c])
    BY <1>12, FrontBufferType DEF BarrierOpen, IsFrontAsync, Current
  <2>2. [Current(c) EXCEPT !.type = "memory"] \in Buffer BY <2>1 DEF Buffer
  <2>3. HasBuffers(queue'[c]) BY <1>11, <1>12, <2>1, <2>2, Zenon DEF BarrierOpen
  <2>4. Writing(c) /\ UNCHANGED <<chan, flags, mask, batch, cur, pc>>
    BY <1>12 DEF BarrierOpen
  <2> QED BY <1>10, <2>1, <2>3, <2>4
<1>13. CASE DoItYourself(c)
  <2>1. Current(c) \in Buffer /\ HasBuffers(queue[c]) /\ Writing(c)
    BY <1>13, SyncFrontType DEF DoItYourself, SyncFront
  <2>2. [Current(c) EXCEPT !.type = "memory"] \in Buffer BY <2>1 DEF Buffer
  <2>3. HasBuffers(queue'[c]) BY <1>11, <1>13, <2>1, <2>2, Zenon DEF DoItYourself
  <2>4. UNCHANGED <<chan, flags, mask, batch, cur, pc>> BY <1>13 DEF DoItYourself
  <2> QED BY <1>10, <2>1, <2>3, <2>4
<1>14. CASE WriteFails(c)
  <2>1. batch'[c] \subseteq {"write"}
    BY <1>8, <1>14 DEF WriteFails, SyncFront
  <2> QED BY <1>14, <2>1, RemovedIsClosed DEF WriteFails
<1>15. CASE FillNothing(c)
  BY <1>0, <1>8, <1>15 DEF FillNothing, Fill, SyncFront, EndWriting, Closed,
     Armed, WriterOpen
<1>16. ASSUME NEW n \in 1..Room, FillPart(c, n)
       PROVE  Closed(c)' /\ Armed(c)' /\ WriterOpen'
  <2>0. n \in Nat /\ Fill(c, n)
    BY <1>16, ConstantsAssumption DEF FillPart
  <2>1. Current(c) \in Buffer /\ HasBuffers(queue[c]) /\ Writing(c)
    BY <2>0, SyncFrontType DEF Fill, SyncFront
  <2>2. Rest(Current(c), n) \in Buffer
    BY <1>16, <2>0, <2>1 DEF Buffer, FillPart, Rest
  <2>3. HasBuffers(queue'[c])
    BY <1>11, <1>16, <2>1, <2>2, Zenon DEF FillPart
  <2>4. UNCHANGED <<chan, flags, mask, batch, cur, pc>> BY <1>16 DEF FillPart
  <2> QED BY <1>10, <2>1, <2>3, <2>4
<1>17. CASE FillAll(c)
  <2>1. HasBuffers(queue[c]) /\ Writing(c) BY <1>17 DEF FillAll, Fill, SyncFront
  <2>2. HasBuffers(queue'[c]) BY <1>17 DEF FillAll, Drained, TypeOK
  <2>3. UNCHANGED <<chan, flags, mask, batch, cur, pc>> BY <1>17 DEF FillAll
  <2> QED BY <1>10, <2>1, <2>2, <2>3
<1>18. CASE DrainAndKeep(c)
  <2>1. Writing(c) BY <1>18 DEF DrainAndKeep, Fill, SyncFront
  <2>2. ~HasBuffers(queue'[c]) BY <1>18 DEF DrainAndKeep, Drained, TypeOK
  <2>3. flags'[c] = (flags[c] \ {"write"}) \cup {"read"}
    BY <1>18 DEF DrainAndKeep, Quiet, TypeOK
  <2>4. /\ UNCHANGED <<chan, batch, cur>> /\ pc' = "rearm"
    BY <1>18 DEF DrainAndKeep, EndWriting
  <2> QED BY <1>0, <1>8, <2>1, <2>2, <2>3, <2>4 DEF Closed, Armed, WriterOpen
<1>19. CASE DrainAndClose(c)
  <2>1. batch'[c] \subseteq {"write"}
    BY <1>8, <1>19 DEF DrainAndClose, Fill, SyncFront
  <2> QED BY <1>19, <2>1, RemovedIsClosed DEF DrainAndClose
<1>20. CASE NothingToWrite(c)
  BY <1>0, <1>8, <1>20 DEF NothingToWrite, EndWriting, Closed, Armed, WriterOpen
<1>21. CASE Rearm(c)
  <2>1. "termination" \in flags[c] /\ (HasBuffers(queue[c]) <=> "write" \in flags[c])
        /\ chan[c] = "open"
    BY <1>21 DEF Rearm, Running, WriterOpen, Armed
  <2>2. flags'[c] \in {flags[c] \cup {"et"}, flags[c] \ {"et"}}
    BY <1>21 DEF Rearm, TypeOK
  <2>3. mask'[c] \in {{}, flags'[c]} BY <1>21, UpdateArms DEF Rearm
  <2>4. pc' \in {"loop", "event"} BY <1>21 DEF Rearm, Resume
  <2>5. UNCHANGED <<chan, queue>> BY <1>21 DEF Rearm
  <2> QED BY <2>1, <2>2, <2>3, <2>4, <2>5 DEF Closed, Armed, WriterOpen
<1> QED BY <1>1, <1>3, <1>4, <1>5, <1>6, <1>7, <1>9, <1>12, <1>13, <1>14, <1>15,
           <1>16, <1>17, <1>18, <1>19, <1>20, <1>21 DEF Handle

\* Await, TakeEvent and AcceptEvent change no queue.
LEMMA LoopAwait == LoopInv /\ Await => LoopInv'
<1> SUFFICES ASSUME LoopInv, Await PROVE LoopInv'
  OBVIOUS
<1>1. TypeOK' BY TypeStep DEF LoopInv, Next, Loop
<1>2. cur = NoChan /\ pc = "loop" BY DEF Await, Running
<1>3. ASSUME NEW c \in Conns PROVE Closed(c)' /\ Armed(c)'
  <2>1. Closed(c) /\ Armed(c) BY DEF LoopInv
  <2>2. mask[c] = {} => batch'[c] = {} BY DEF Await, Reported, Chans
  <2> QED BY <2>1, <2>2 DEF Await, Closed, Armed
<1> QED BY <1>1, <1>2, <1>3 DEF LoopInv, WriterOpen, Await

LEMMA LoopTake == ASSUME LoopInv, NEW c \in Chans, TakeEvent(c) PROVE LoopInv'
<1>1. TypeOK' BY TypeStep DEF LoopInv, Next, Loop
<1>2. /\ cur = NoChan /\ pc = "loop" /\ cur' = c /\ pc' = "event"
      /\ UNCHANGED <<chan, queue, batch>>
  BY DEF TakeEvent, Running
<1>3. TypeOK BY DEF LoopInv
<1>4. ASSUME NEW d \in Conns, d # c PROVE Closed(d)' /\ Armed(d)'
  <2>1. flags'[d] = flags[d] /\ mask'[d] = mask[d]
    <3>1. CASE "et" \in flags[c] BY <3>1 DEF TakeEvent
    <3>2. CASE "et" \notin flags[c]
      BY <1>3, <1>4, <3>2 DEF TakeEvent, Update, TypeOK, Chans
    <3> QED BY <3>1, <3>2
  <2>2. d # NoChan BY ConstantsAssumption
  <2>3. Closed(d) /\ Armed(d) BY DEF LoopInv
  <2> QED BY <1>2, <2>1, <2>2, <2>3 DEF Closed, Armed
<1>5. ASSUME c \in Conns PROVE Closed(c)' /\ Armed(c)'
  <2>1. Closed(c) /\ Armed(c) BY <1>5 DEF LoopInv
  <2>2. c # NoChan BY <1>5, ConstantsAssumption
  <2>3. chan[c] = "open" BY <1>2, <2>1, <2>2 DEF Closed, TakeEvent
  <2>4. /\ flags'[c] \in {flags[c], flags[c] \cup {"et"}}
        /\ mask'[c] \in {{}, flags'[c]}
    <3>1. CASE "et" \in flags[c]
      BY <1>2, <2>1, <2>3, <3>1 DEF TakeEvent, Armed
    <3>2. CASE "et" \notin flags[c]
      <4>1. flags' = [flags EXCEPT ![c] = flags[c] \cup {"et"}] /\ Update(c)
        BY <3>2, Zenon DEF TakeEvent
      <4>2. mask'[c] \in {{}, flags'[c]} BY <1>3, <1>5, <4>1, UpdateArms
      <4> QED BY <1>3, <4>1, <4>2 DEF TypeOK
    <3> QED BY <3>1, <3>2
  <2> QED BY <1>2, <2>1, <2>3, <2>4 DEF Closed, Armed
<1> QED BY <1>1, <1>2, <1>4, <1>5 DEF LoopInv, WriterOpen

LEMMA LoopAccept == LoopInv /\ AcceptEvent => LoopInv'
<1> SUFFICES ASSUME LoopInv, AcceptEvent PROVE LoopInv'
  OBVIOUS
<1>1. TypeOK /\ TypeOK' BY TypeStep DEF LoopInv, Next, Loop
<1>2. PICK new \in SUBSET Backlog : \E failed \in SUBSET new :
        /\ chan' = [c \in Conns |-> IF c \in new THEN "open" ELSE chan[c]]
        /\ flags' = [c \in Chans |-> IF c \in new THEN {"read", "termination"}
                                                  ELSE flags[c]]
        /\ mask' = [c \in Chans |-> IF c \in new \ failed
                                    THEN {"read", "termination"} ELSE mask[c]]
  BY DEF AcceptEvent
<1>3. /\ cur = Acceptor /\ pc = "event" /\ pc' \in {"loop", "event"}
      /\ cur' = NoChan /\ UNCHANGED queue
      /\ batch' = [batch EXCEPT ![Acceptor] = {}]
  BY <1>1 DEF AcceptEvent, Running, Resume, TypeOK, Chans
<1>4. ASSUME NEW c \in Conns PROVE Closed(c)' /\ Armed(c)'
  <2>1. Closed(c) /\ Armed(c) /\ c # Acceptor
    BY ConstantsAssumption DEF LoopInv
  <2>2. batch'[c] = batch[c] /\ c \in Chans
    BY <1>1, <1>3, <2>1 DEF TypeOK, Chans
  <2>3. CASE c \in new
    <3>1. /\ chan[c] = "backlog" /\ chan'[c] = "open"
          /\ flags'[c] = {"read", "termination"}
          /\ mask'[c] \in {{}, flags'[c]}
      BY <1>2, <2>1, <2>2, <2>3 DEF Backlog, Closed
    <3>2. ~HasBuffers(queue[c]) BY <2>1, <3>1, EmptyItemType DEF Closed
    <3> QED BY <1>3, <3>1, <3>2 DEF Closed, Armed
  <2>4. CASE c \notin new
    <3>1. chan'[c] = chan[c] /\ flags'[c] = flags[c] /\ mask'[c] = mask[c]
      BY <1>2, <2>2, <2>4
    <3> QED BY <1>3, <2>1, <2>2, <3>1 DEF Closed, Armed
  <2> QED BY <2>3, <2>4
<1> QED BY <1>1, <1>3, <1>4 DEF LoopInv, WriterOpen

LEMMA LoopHandle == ASSUME LoopInv, NEW c \in Conns, Handle(c) PROVE LoopInv'
<1>1. TypeOK' BY TypeHandle DEF LoopInv
<1>2. ASSUME NEW d \in Conns, d # c PROVE Closed(d)' /\ Armed(d)'
  BY <1>2, HandleLocal, OthersKeep DEF LoopInv, Untouched
<1> QED BY <1>1, <1>2, HandleOwn DEF LoopInv

LEMMA LoopStep == LoopInv /\ [Next]_vars => LoopInv'
<1> SUFFICES ASSUME LoopInv, [Next]_vars PROVE LoopInv'
  OBVIOUS
<1>1. CASE UNCHANGED vars
  BY <1>1 DEF vars, LoopInv, TypeOK, WriterOpen, Closed, Armed
<1> QED BY <1>1, LoopEnvironment, LoopAwait, LoopTake, LoopAccept, LoopHandle
        DEF Next, Loop

\* The invariant of the loop: a channel's interest follows its queue.
THEOREM LoopInvariant == Spec => []LoopInv
<1> QED BY LoopInit, LoopStep, PTL DEF Spec

\* Between two events, a registered channel waits for write events exactly
\* when it has something to write, and the kernel knows its flags.
THEOREM ArmedCorrect == Spec => []ArmedForQueue
<1>1. LoopInv => ArmedForQueue
  BY DEF LoopInv, Armed, ArmedForQueue, Open
<1> QED BY <1>1, LoopInvariant, PTL

-----------------------------------------------------------------------------
\* No wakeup is lost.

\* process_write has c in hand and ends in an update of epoll, or removes it.
Busy(c) == cur = c /\ pc \in {"write", "rearm"}

\* Whatever epoll would report of an open channel is among the events still to
\* be handled, or is on the ready list: this is NoLostWakeup, and stronger
\* while the events are handled one after the other.
Awake(c) == chan[c] = "open" /\ ~Busy(c) => Reported(c) \subseteq batch[c] \/ c \in rdy

\* Room is an edge only for a send buffer that was full, so it must never be
\* more than that.
Fits(c) == Len(outbuf[c]) \in 0..Room

WakeInv == LoopInv /\ \A c \in Conns : Fits(c) /\ Awake(c)

LEMMA WakeInit == Init => WakeInv
<1> SUFFICES ASSUME Init PROVE WakeInv OBVIOUS
<1>1. \A c \in Conns : Fits(c)
  BY EmptySeq, ConstantsAssumption DEF Init, Fits
<1>2. \A c \in Conns : Awake(c) BY DEF Init, Awake
<1> QED BY <1>1, <1>2, LoopInit DEF WakeInv

\* What the kernel knows of a registered channel that is not being written to
\* includes the wish to hear of the peer's departure.
LEMMA HearsOfDeparture ==
    ASSUME LoopInv, NEW c \in Conns, chan[c] = "open", ~Busy(c), mask[c] # {}
    PROVE  "termination" \in mask[c]
BY DEF LoopInv, Armed, Busy

\* What happens below a channel is reported at once, or changes nothing of it.
LEMMA EdgeWakes ==
    ASSUME NEW c \in Conns, Awake(c), NEW e,
           UNCHANGED <<chan, mask, batch, cur, pc>>, Edge(c, e),
           Level(c)' \cap mask[c] \subseteq
               Level(c) \cup (IF e \in mask[c] THEN Events ELSE {})
    PROVE  Awake(c)'
<1> SUFFICES ASSUME chan[c] = "open", ~Busy(c)
             PROVE  Reported(c)' \subseteq batch[c] \/ c \in rdy'
  BY DEF Awake, Busy
<1>1. CASE e \in mask[c] BY <1>1 DEF Edge
<1>2. CASE e \notin mask[c]
  <2>1. rdy' = rdy BY <1>2 DEF Edge
  <2>2. Reported(c)' \subseteq Reported(c) BY <1>2 DEF Reported
  <2> QED BY <2>1, <2>2 DEF Awake
<1> QED BY <1>1, <1>2

\* A channel to which nothing happens stays awake.
LEMMA StaysAwake ==
    ASSUME NEW c \in Conns, Awake(c), ~Busy(c) \/ Busy(c)',
           chan'[c] = chan[c], mask'[c] = mask[c], batch'[c] = batch[c],
           inbuf'[c] = inbuf[c], outbuf'[c] = outbuf[c], peer'[c] = peer[c],
           c \in rdy => c \in rdy'
    PROVE  Awake(c)'
<1>1. c # Acceptor BY ConstantsAssumption
<1>2. Level(c)' = Level(c) BY <1>1 DEF Level, Gone
<1>3. Reported(c)' = Reported(c) BY <1>2 DEF Reported
<1> QED BY <1>3 DEF Awake

LEMMA WakeEnvironment == WakeInv /\ Environment => WakeInv'
<1> SUFFICES ASSUME WakeInv, Environment PROVE WakeInv' OBVIOUS
<1>1. LoopInv /\ LoopInv' /\ TypeOK
  BY LoopEnvironment DEF WakeInv, LoopInv
<1>2. ASSUME UNCHANGED <<chan, mask, batch, cur, pc, inbuf, outbuf, peer>>,
             rdy \subseteq rdy'
      PROVE  WakeInv'
  <2>1. ASSUME NEW d \in Conns PROVE Fits(d)' /\ Awake(d)'
    <3>1. Fits(d) /\ Awake(d) BY DEF WakeInv
    <3>2. ~Busy(d) \/ Busy(d)' BY <1>2 DEF Busy
    <3> QED BY <1>2, <3>1, <3>2, StaysAwake DEF Fits
  <2> QED BY <1>1, <2>1 DEF WakeInv
<1>3. ASSUME NEW c \in Conns,
             UNCHANGED <<mask, batch, cur, pc>>, rdy \subseteq rdy',
             \A d \in Conns : d # c =>
                 /\ chan'[d] = chan[d] /\ inbuf'[d] = inbuf[d]
                 /\ outbuf'[d] = outbuf[d] /\ peer'[d] = peer[d],
             Fits(c)', Awake(c)'
      PROVE  WakeInv'
  <2>1. ASSUME NEW d \in Conns, d # c PROVE Fits(d)' /\ Awake(d)'
    <3>1. Fits(d) /\ Awake(d) BY DEF WakeInv
    <3>2. ~Busy(d) \/ Busy(d)' BY <1>3 DEF Busy
    <3> QED BY <1>3, <2>1, <3>1, <3>2, StaysAwake DEF Fits
  <2> QED BY <1>1, <1>3, <2>1 DEF WakeInv
<1>4. ASSUME NEW c \in Conns, Connect(c) PROVE WakeInv'
  <2>1. /\ chan' = [chan EXCEPT ![c] = "backlog"] /\ peer' = [peer EXCEPT ![c] = "up"]
        /\ UNCHANGED <<mask, batch, cur, pc, inbuf, outbuf>> /\ rdy \subseteq rdy'
    BY <1>4 DEF Connect, server, Edge
  <2>2. Fits(c)' BY <2>1 DEF WakeInv, Fits
  <2>3. Awake(c)' BY <2>1 DEF Awake, TypeOK, LoopInv, WakeInv
  <2> QED BY <1>1, <1>3, <2>1, <2>2, <2>3 DEF TypeOK
<1>5. ASSUME NEW c \in Conns, NEW piece \in {"part", "final"}, Send(c, piece)
      PROVE  WakeInv'
  <2>1. /\ inbuf' = [inbuf EXCEPT ![c] = @ \cup {piece}] /\ Edge(c, "read")
        /\ UNCHANGED <<chan, mask, batch, cur, pc, outbuf, peer>> /\ rdy \subseteq rdy'
    BY <1>5 DEF Send, server, Edge
  <2>2. Fits(c) /\ Awake(c) /\ c # Acceptor BY ConstantsAssumption DEF WakeInv
  <2>3. Level(c)' \subseteq Level(c) \cup {"read"} BY <2>1, <2>2 DEF Level, Gone
  <2>4. Awake(c)' BY <2>1, <2>2, <2>3, EdgeWakes DEF Events
  <2>5. Fits(c)' BY <2>1, <2>2 DEF Fits
  <2> QED BY <1>1, <1>3, <2>1, <2>4, <2>5 DEF TypeOK
<1>6. ASSUME NEW c \in Conns, Receive(c) PROVE WakeInv'
  <2>1. /\ outbuf' = [outbuf EXCEPT ![c] = Tail(@)] /\ outbuf[c] # <<>>
        /\ UNCHANGED <<chan, mask, batch, cur, pc, inbuf, peer>> /\ rdy \subseteq rdy'
        /\ IF Len(outbuf[c]) = Room THEN Edge(c, "write") ELSE UNCHANGED rdy
    BY <1>6 DEF Receive, server, Edge
  <2>2. Fits(c) /\ Awake(c) /\ c # Acceptor BY ConstantsAssumption DEF WakeInv
  <2>3. outbuf[c] \in Seq(Nat) BY <1>1 DEF TypeOK
  <2>4. Len(outbuf'[c]) = Len(outbuf[c]) - 1 /\ Len(outbuf[c]) \in Nat
        /\ Len(outbuf'[c]) \in Nat
    <3>1. outbuf'[c] = Tail(outbuf[c]) BY <1>1, <2>1 DEF TypeOK
    <3> QED BY <2>1, <2>3, <3>1, HeadTailProperties, LenProperties
  <2>5. Fits(c)' BY <2>2, <2>4, ConstantsAssumption DEF Fits
  <2>6. Awake(c)'
    <3>1. CASE Len(outbuf[c]) = Room
      <4>1. Level(c)' \subseteq Level(c) \cup {"write"} BY <2>1, <2>2 DEF Level, Gone
      <4> QED BY <2>1, <2>2, <3>1, <4>1, EdgeWakes DEF Events
    <3>2. CASE Len(outbuf[c]) # Room
      <4>1. Len(outbuf[c]) < Room /\ Len(outbuf'[c]) < Room
        BY <2>2, <2>4, <3>2, ConstantsAssumption DEF Fits
      <4>2. Level(c)' = Level(c) BY <2>1, <2>2, <4>1 DEF Level, Gone
      <4>3. Reported(c)' = Reported(c) BY <2>1, <4>2 DEF Reported
      <4> QED BY <2>1, <2>2, <3>2, <4>3 DEF Awake, Busy
    <3> QED BY <3>1, <3>2
  <2> QED BY <1>1, <1>3, <2>1, <2>5, <2>6 DEF TypeOK
<1>7. ASSUME NEW c \in Conns, NEW how \in {"fin", "reset"}, Leave(c, how)
      PROVE  WakeInv'
  <2>1. /\ peer' = [peer EXCEPT ![c] = how] /\ Edge(c, "termination")
        /\ outbuf' = [outbuf EXCEPT ![c] = IF how = "reset" THEN <<>> ELSE @]
        /\ inbuf' \in {inbuf, [inbuf EXCEPT ![c] = {}]}
        /\ UNCHANGED <<chan, mask, batch, cur, pc>> /\ rdy \subseteq rdy'
    BY <1>7 DEF Leave, server, Edge
  <2>2. Fits(c) /\ Awake(c) /\ c \in Chans BY DEF WakeInv, Chans
  <2>3. Fits(c)'
    <3>1. outbuf'[c] \in {<<>>, outbuf[c]} BY <1>1, <2>1 DEF TypeOK
    <3> QED BY <2>2, <3>1, EmptySeq, ConstantsAssumption DEF Fits
  <2>4. Awake(c)'
    <3> SUFFICES ASSUME chan[c] = "open", ~Busy(c)
                 PROVE  Reported(c)' \subseteq batch[c] \/ c \in rdy'
      BY <2>1 DEF Awake, Busy
    <3>1. CASE mask[c] = {} BY <2>1, <3>1 DEF Reported
    <3>2. CASE mask[c] # {}
      BY <1>1, <2>1, <3>2, HearsOfDeparture DEF Edge
    <3> QED BY <3>1, <3>2
  <2> QED BY <1>1, <1>3, <2>1, <2>3, <2>4 DEF TypeOK
<1>8. ASSUME NEW c \in Conns, NEW i \in 1..Len(queue[c].buffers), Complete(c, i)
      PROVE  WakeInv'
  BY <1>2, <1>8 DEF Complete
<1>9. CASE JoinOne BY <1>2, <1>9 DEF JoinOne, server
<1> QED BY <1>4, <1>5, <1>6, <1>7, <1>8, <1>9 DEF Environment

\* An update asks epoll afresh.
LEMMA UpdateWakes ==
    ASSUME NEW c \in Conns, Update(c)
    PROVE  Awake(c)' /\ rdy \subseteq rdy'
BY DEF Update, Awake

\* A handler of c's event leaves what the others have below them alone, too,
\* and never fills a send buffer beyond its room.
Undisturbed(d) ==
    /\ inbuf'[d] = inbuf[d] /\ outbuf'[d] = outbuf[d] /\ peer'[d] = peer[d]
    /\ d \in rdy => d \in rdy'

LEMMA FillFits ==
    ASSUME TypeOK, NEW c \in Conns, Fits(c), NEW n \in Nat, Fill(c, n)
    PROVE  Fits(c)' /\ \A d \in Conns : d # c => outbuf'[d] = outbuf[d]
<1> DEFINE u == [i \in 1..n |-> Current(c).req]
<1>1. Current(c).req \in Nat
  BY SyncFrontType DEF Fill, Buffer
<1>2. u \in [1..n -> Nat] BY <1>1
<1>3. u \in Seq(Nat) /\ Len(u) = n
  <2> HIDE DEF u
  <2> QED BY <1>2, FunctionIsSeq
<1>4. outbuf' = [outbuf EXCEPT ![c] = outbuf[c] \o u] /\ n <= Room - Len(outbuf[c])
  BY DEF Fill, u
<1> HIDE DEF u
<1>5. outbuf[c] \in Seq(Nat) BY DEF TypeOK
<1>6. Len(outbuf[c] \o u) = Len(outbuf[c]) + n BY <1>3, <1>5, ConcatProperties
<1>7. outbuf'[c] = outbuf[c] \o u /\ \A d \in Conns : d # c => outbuf'[d] = outbuf[d]
  BY <1>4 DEF TypeOK
<1> QED BY <1>4, <1>6, <1>7, ConstantsAssumption DEF Fits

LEMMA HandleQuietly ==
    ASSUME TypeOK, NEW c \in Conns, Fits(c), Handle(c)
    PROVE  Fits(c)' /\ \A d \in Conns : d # c => Undisturbed(d)
<1> DEFINE Goal == Fits(c)' /\ \A d \in Conns : d # c => Undisturbed(d)
<1> c \in Chans BY DEF Chans
<1>1. ASSUME RemoveChannel(c), UNCHANGED outbuf PROVE Goal
  BY <1>1 DEF RemoveChannel, Undisturbed, Fits, TypeOK
<1>2. ASSUME UNCHANGED <<inbuf, outbuf, peer>>, rdy \subseteq rdy' PROVE Goal
  BY <1>2 DEF Undisturbed, Fits
<1>3. ASSUME NEW left, inbuf' = [inbuf EXCEPT ![c] = left],
             UNCHANGED <<outbuf, peer>>, rdy \subseteq rdy'
      PROVE  Goal
  BY <1>3 DEF Undisturbed, Fits, TypeOK
<1>4. ASSUME NEW n \in Nat, Fill(c, n), UNCHANGED <<inbuf, peer, rdy>> PROVE Goal
  BY <1>4, FillFits DEF Undisturbed
<1>5. CASE TerminateEvent(c) \/ ReadClosed(c)
  BY <1>1, <1>5 DEF TerminateEvent, ReadClosed
<1>6. CASE ReadPart(c) BY <1>3, <1>6 DEF ReadPart
<1>7. ASSUME NEW r \in Responses, ReadRequest(c, r) PROVE Goal
  <2>1. rdy \subseteq rdy' BY <1>7, UpdateWakes DEF ReadRequest
  <2> QED BY <1>3, <1>7, <2>1 DEF ReadRequest
<1>8. CASE WriteEvent(c) \/ WriteAfterRemove(c)
  BY <1>2, <1>8 DEF WriteEvent, WriteAfterRemove
<1>9. CASE BarrierClosed(c) BY <1>2, <1>9, UpdateWakes DEF BarrierClosed
<1>10. CASE BarrierOpen(c) \/ DoItYourself(c) \/ NothingToWrite(c)
  BY <1>2, <1>10 DEF BarrierOpen, DoItYourself, NothingToWrite
<1>11. CASE WriteFails(c) BY <1>1, <1>11 DEF WriteFails
<1>12. CASE FillNothing(c)
  <2>1. UNCHANGED <<inbuf, peer, rdy>> /\ Fill(c, 0) BY <1>12 DEF FillNothing
  <2> QED BY <1>4, <2>1
<1>13. ASSUME NEW n \in 1..Room, FillPart(c, n) PROVE Goal
  <2>1. UNCHANGED <<inbuf, peer, rdy>> /\ Fill(c, n) BY <1>13 DEF FillPart
  <2>2. n \in Nat BY ConstantsAssumption
  <2> QED BY <1>4, <2>1, <2>2
<1>14. ASSUME SyncFront(c) PROVE Current(c).left \in Nat
  BY <1>14, SyncFrontType
<1>15. CASE FillAll(c)
  <2>1. UNCHANGED <<inbuf, peer, rdy>> /\ Fill(c, Current(c).left)
    BY <1>15 DEF FillAll
  <2>2. Current(c).left \in Nat BY <1>14, <2>1 DEF Fill
  <2> QED BY <1>4, <2>1, <2>2
<1>16. CASE DrainAndKeep(c)
  <2>1. UNCHANGED <<inbuf, peer, rdy>> /\ Fill(c, Current(c).left)
    BY <1>16 DEF DrainAndKeep
  <2>2. Current(c).left \in Nat BY <1>14, <2>1 DEF Fill
  <2> QED BY <1>4, <2>1, <2>2
<1>17. CASE DrainAndClose(c)
  <2>1. Fill(c, Current(c).left) /\ RemoveChannel(c) BY <1>17 DEF DrainAndClose
  <2>2. Current(c).left \in Nat BY <1>14, <2>1 DEF Fill
  <2>3. Fits(c)' /\ \A d \in Conns : d # c => outbuf'[d] = outbuf[d]
    BY <2>1, <2>2, FillFits
  <2>4. \A d \in Conns : d # c => inbuf'[d] = inbuf[d] /\ peer'[d] = peer[d]
                                  /\ (d \in rdy => d \in rdy')
    BY <2>1 DEF RemoveChannel, TypeOK
  <2> QED BY <2>3, <2>4 DEF Undisturbed
<1>18. CASE Rearm(c) BY <1>2, <1>18, UpdateWakes DEF Rearm
<1> QED BY <1>5, <1>6, <1>7, <1>8, <1>9, <1>10, <1>11, <1>12, <1>13, <1>15, <1>16,
           <1>17, <1>18 DEF Handle

\* What is left of an event after the read half: had the peer been gone when
\* the event was reported, it would have been one for termination.
LEMMA ReadPartWakes ==
    ASSUME LoopInv, NEW c \in Conns, Awake(c), ReadPart(c)
    PROVE  Awake(c)'
<1> c \in Chans /\ c # Acceptor BY ConstantsAssumption DEF Chans
<1>1. /\ pc = "event" /\ "termination" \notin batch[c]
      /\ batch'[c] = batch[c] \ {"read"} /\ inbuf'[c] = {}
      /\ UNCHANGED <<chan, mask, outbuf, peer, rdy>>
  BY DEF ReadPart, ReadDispatched, Dispatched, Running, LeftUnread, LoopInv, TypeOK
<1> SUFFICES ASSUME chan[c] = "open", c \notin rdy
             PROVE  Reported(c)' \subseteq batch'[c]
  BY <1>1 DEF Awake
<1>2. ~Busy(c) BY <1>1 DEF Busy
<1>3. Reported(c) \subseteq batch[c] BY <1>2 DEF Awake
<1>4. CASE mask[c] = {} BY <1>1, <1>4 DEF Reported
<1>5. CASE mask[c] # {}
  <2>1. "termination" \in mask[c] BY <1>2, <1>5, HearsOfDeparture
  <2>2. ~Gone(c) BY <1>1, <1>3, <2>1 DEF Reported, Level
  <2>3. Level(c)' \subseteq Level(c) \ {"read"} BY <1>1, <2>2 DEF Level, Gone
  <2>4. Reported(c)' \subseteq Reported(c) \ {"read"} BY <1>1, <2>3 DEF Reported
  <2> QED BY <1>1, <1>3, <2>4
<1> QED BY <1>4, <1>5

LEMMA HandleWakes ==
    ASSUME LoopInv, NEW c \in Conns, Awake(c), Handle(c)
    PROVE  Awake(c)'
<1> TypeOK BY DEF LoopInv
<1>1. ASSUME RemoveChannel(c) PROVE Awake(c)'
  BY <1>1 DEF RemoveChannel, Awake, TypeOK
<1>2. ASSUME cur' = c, pc' \in {"write", "rearm"} PROVE Awake(c)'
  BY <1>2 DEF Awake, Busy
<1>3. cur = c BY HandleLocal
<1>4. ASSUME Writing(c), UNCHANGED <<cur, pc>> PROVE Awake(c)'
  BY <1>2, <1>3, <1>4 DEF Writing, Running
<1>5. CASE TerminateEvent(c) \/ ReadClosed(c) \/ WriteFails(c) \/ DrainAndClose(c)
  BY <1>1, <1>5 DEF TerminateEvent, ReadClosed, WriteFails, DrainAndClose
<1>6. CASE ReadPart(c) BY <1>6, ReadPartWakes
<1>7. ASSUME NEW r \in Responses, ReadRequest(c, r) PROVE Awake(c)'
  BY <1>7, UpdateWakes DEF ReadRequest
<1>8. CASE WriteEvent(c) BY <1>2, <1>3, <1>8 DEF WriteEvent
<1>9. CASE WriteAfterRemove(c) BY <1>9 DEF WriteAfterRemove, Awake
<1>10. CASE BarrierClosed(c) \/ Rearm(c)
  BY <1>10, UpdateWakes DEF BarrierClosed, Rearm
<1>11. CASE BarrierOpen(c) \/ DoItYourself(c)
  BY <1>4, <1>11 DEF BarrierOpen, DoItYourself, SyncFront
<1>12. ASSUME NEW n \in 1..Room, FillPart(c, n) PROVE Awake(c)'
  BY <1>4, <1>12 DEF FillPart, Fill, SyncFront
<1>13. CASE FillAll(c) BY <1>4, <1>13 DEF FillAll, Fill, SyncFront
<1>14. CASE FillNothing(c) \/ DrainAndKeep(c) \/ NothingToWrite(c)
  BY <1>2, <1>3, <1>14 DEF FillNothing, DrainAndKeep, NothingToWrite, EndWriting
<1> QED BY <1>5, <1>6, <1>7, <1>8, <1>9, <1>10, <1>11, <1>12, <1>13, <1>14 DEF Handle

LEMMA WakeHandle == ASSUME WakeInv, NEW c \in Conns, Handle(c) PROVE WakeInv'
<1>1. LoopInv /\ TypeOK /\ LoopInv' BY LoopHandle DEF WakeInv, LoopInv
<1>2. cur = c /\ \A d \in Conns : d # c => Untouched(d) BY <1>1, HandleLocal
<1>3. Fits(c)' /\ \A d \in Conns : d # c => Undisturbed(d)
  BY <1>1, HandleQuietly DEF WakeInv
<1>4. Awake(c)' BY <1>1, HandleWakes DEF WakeInv
<1>5. ASSUME NEW d \in Conns, d # c PROVE Fits(d)' /\ Awake(d)'
  <2>1. Fits(d) /\ Awake(d) /\ ~Busy(d) BY <1>2, <1>5 DEF WakeInv, Busy
  <2>2. Untouched(d) /\ Undisturbed(d) BY <1>2, <1>3, <1>5
  <2> QED BY <2>1, <2>2, StaysAwake DEF Untouched, Undisturbed, Fits
<1> QED BY <1>1, <1>3, <1>4, <1>5 DEF WakeInv

\* A channel that epoll has dropped from the ready list has its events in the
\* batch, or had none.
LEMMA WakeAwait == WakeInv /\ Await => WakeInv'
<1> SUFFICES ASSUME WakeInv, Await PROVE WakeInv' OBVIOUS
<1>1. LoopInv /\ LoopInv' BY LoopAwait DEF WakeInv
<1>2. ASSUME NEW c \in Conns PROVE Fits(c)' /\ Awake(c)'
  <2>1. Fits(c) /\ Awake(c) /\ c \in Chans /\ c # Acceptor
    BY ConstantsAssumption DEF WakeInv, Chans
  <2>2. /\ pc = "loop" /\ batch[c] = {}
        /\ batch'[c] = IF c \in rdy THEN Reported(c) ELSE {}
        /\ UNCHANGED <<chan, mask, inbuf, outbuf, peer, cur, pc>>
    BY <2>1 DEF Await, Running
  <2>3. Reported(c)' = Reported(c) BY <2>1, <2>2 DEF Reported, Level, Gone
  <2> QED BY <2>1, <2>2, <2>3 DEF Awake, Busy, Fits
<1> QED BY <1>1, <1>2 DEF WakeInv

LEMMA WakeTake == ASSUME WakeInv, NEW c \in Chans, TakeEvent(c) PROVE WakeInv'
<1>1. LoopInv /\ LoopInv' /\ TypeOK BY LoopTake DEF WakeInv, LoopInv
<1>2. /\ pc = "loop" /\ pc' = "event"
      /\ UNCHANGED <<chan, peer, inbuf, outbuf, batch>>
  BY DEF TakeEvent, Running
<1>3. ASSUME NEW d \in Conns PROVE Fits(d)' /\ Awake(d)'
  <2>1. Fits(d) /\ Awake(d) /\ ~Busy(d) BY <1>2 DEF WakeInv, Busy
  <2>2. CASE "et" \in flags[c]
    BY <1>2, <2>1, <2>2, StaysAwake DEF TakeEvent, Fits
  <2>3. CASE "et" \notin flags[c]
    <3>1. Update(c) BY <2>3 DEF TakeEvent
    <3>2. CASE d = c BY <1>2, <2>1, <3>1, <3>2, UpdateWakes DEF Fits
    <3>3. CASE d # c
      <4>1. mask'[d] = mask[d] /\ rdy \subseteq rdy'
        BY <1>1, <3>1, <3>3 DEF Update, TypeOK, Chans
      <4> QED BY <1>2, <2>1, <4>1, StaysAwake DEF Fits
    <3> QED BY <3>2, <3>3
  <2> QED BY <2>2, <2>3
<1> QED BY <1>1, <1>3 DEF WakeInv

\* EPOLL_CTL_ADD polls the new channel at once.
LEMMA WakeAccept == WakeInv /\ AcceptEvent => WakeInv'
<1> SUFFICES ASSUME WakeInv, AcceptEvent PROVE WakeInv' OBVIOUS
<1>1. LoopInv /\ LoopInv' /\ TypeOK BY LoopAccept DEF WakeInv, LoopInv
<1>2. PICK new \in SUBSET Backlog : \E failed \in SUBSET new :
        /\ chan' = [c \in Conns |-> IF c \in new THEN "open" ELSE chan[c]]
        /\ mask' = [c \in Chans |-> IF c \in new \ failed
                                    THEN {"read", "termination"} ELSE mask[c]]
        /\ rdy' = rdy \cup {c \in new : Reported(c)' # {}}
  BY DEF AcceptEvent
<1>3. /\ pc = "event" /\ batch' = [batch EXCEPT ![Acceptor] = {}]
      /\ UNCHANGED <<peer, inbuf, outbuf>>
  BY DEF AcceptEvent, Running
<1>4. ASSUME NEW c \in Conns PROVE Fits(c)' /\ Awake(c)'
  <2>1. Fits(c) /\ Awake(c) /\ ~Busy(c) /\ c # Acceptor /\ c \in Chans
    BY <1>3, ConstantsAssumption DEF WakeInv, Busy, Chans
  <2>2. batch'[c] = batch[c] BY <1>1, <1>3, <2>1 DEF TypeOK
  <2>3. CASE c \in new BY <1>2, <1>3, <2>1, <2>3 DEF Awake, Fits
  <2>4. CASE c \notin new
    <3>1. chan'[c] = chan[c] /\ mask'[c] = mask[c] /\ rdy \subseteq rdy'
      BY <1>2, <2>1, <2>4
    <3> QED BY <1>3, <2>1, <2>2, <3>1, StaysAwake DEF Fits
  <2> QED BY <2>3, <2>4
<1> QED BY <1>1, <1>4 DEF WakeInv

LEMMA WakeStep == WakeInv /\ [Next]_vars => WakeInv'
<1> SUFFICES ASSUME WakeInv, [Next]_vars PROVE WakeInv' OBVIOUS
<1>1. CASE UNCHANGED vars
  <2>1. LoopInv' BY <1>1, LoopStep DEF WakeInv
  <2>2. UNCHANGED <<chan, mask, batch, cur, pc, inbuf, outbuf, peer, rdy>>
    BY <1>1 DEF vars
  <2>3. ASSUME NEW c \in Conns PROVE Fits(c)' /\ Awake(c)'
    BY <2>2, StaysAwake DEF WakeInv, Fits, Busy
  <2> QED BY <2>1, <2>3 DEF WakeInv
<1> QED BY <1>1, WakeEnvironment, WakeAwait, WakeTake, WakeAccept, WakeHandle
        DEF Next, Loop

\* No wakeup is lost between edge and level triggering: a channel that epoll
\* would report is on the ready list, or an event of it is being handled,
\* whatever peers do between any two calls of the loop.
THEOREM WakeupCorrect == Spec => []NoLostWakeup
<1>1. WakeInv => NoLostWakeup
  <2> SUFFICES ASSUME WakeInv, NEW c \in Open, Reported(c) # {}, cur # c
               PROVE  c \in rdy \/ batch[c] # {}
    BY DEF NoLostWakeup
  <2>1. chan[c] = "open" /\ c \in Conns BY DEF Open
  <2> QED BY <2>1 DEF WakeInv, Awake, Busy
<1> QED BY <1>1, WakeInit, WakeStep, PTL DEF Spec

-----------------------------------------------------------------------------
\* The loop waits only for the futures of peers that are gone.

\* An event that is still to be handled has a reason that lasts: unread pieces
\* stay until the loop reads them or the peer resets, and a peer that is gone
\* stays gone.
Reasoned(c) == chan[c] = "open" =>
    /\ "read" \in batch[c] => inbuf[c] # {} \/ Gone(c)
    /\ "termination" \in batch[c] => Gone(c)

WaitInv == WakeInv /\ \A c \in Conns : Reasoned(c)

LEMMA WaitInit == Init => WaitInv
BY WakeInit DEF Init, WaitInv, Reasoned

LEMMA StaysReasoned ==
    ASSUME NEW c \in Conns, Reasoned(c), chan'[c] = chan[c],
           batch'[c] \subseteq batch[c], Gone(c) => Gone(c)',
           inbuf'[c] # {} \/ inbuf[c] = {} \/ Gone(c)' \/ "read" \notin batch'[c]
    PROVE  Reasoned(c)'
BY DEF Reasoned

LEMMA WaitEnvironment == WaitInv /\ Environment => WaitInv'
<1> SUFFICES ASSUME WaitInv, Environment PROVE WaitInv' OBVIOUS
<1>1. WakeInv' /\ TypeOK BY WakeEnvironment DEF WaitInv, WakeInv, LoopInv
<1>2. ASSUME UNCHANGED <<chan, batch, inbuf, peer>> PROVE WaitInv'
  BY <1>1, <1>2, StaysReasoned DEF WaitInv, Gone
<1>3. ASSUME NEW c \in Conns, Connect(c) PROVE WaitInv'
  <2>1. /\ chan' = [chan EXCEPT ![c] = "backlog"] /\ peer' = [peer EXCEPT ![c] = "up"]
        /\ UNCHANGED <<batch, inbuf>>
    BY <1>3 DEF Connect, server
  <2>2. ASSUME NEW d \in Conns PROVE Reasoned(d)'
    <3>1. CASE d = c BY <1>1, <2>1, <3>1 DEF Reasoned, TypeOK
    <3>2. CASE d # c
      BY <1>1, <2>1, <3>2, StaysReasoned DEF WaitInv, TypeOK, Gone
    <3> QED BY <3>1, <3>2
  <2> QED BY <1>1, <2>2 DEF WaitInv
<1>4. ASSUME NEW c \in Conns, NEW piece \in {"part", "final"}, Send(c, piece)
      PROVE  WaitInv'
  <2>1. /\ inbuf' = [inbuf EXCEPT ![c] = @ \cup {piece}]
        /\ UNCHANGED <<chan, batch, peer>>
    BY <1>4 DEF Send, server
  <2>2. ASSUME NEW d \in Conns PROVE Reasoned(d)'
    <3>1. inbuf[d] \subseteq inbuf'[d] BY <1>1, <2>1 DEF TypeOK
    <3> QED BY <2>1, <3>1, StaysReasoned DEF WaitInv, Gone
  <2> QED BY <1>1, <2>2 DEF WaitInv
<1>5. ASSUME NEW c \in Conns, Receive(c) PROVE WaitInv'
  BY <1>2, <1>5 DEF Receive, server
<1>6. ASSUME NEW c \in Conns, NEW how \in {"fin", "reset"}, Leave(c, how)
      PROVE  WaitInv'
  <2>1. /\ peer' = [peer EXCEPT ![c] = how]
        /\ inbuf' \in {inbuf, [inbuf EXCEPT ![c] = {}]}
        /\ UNCHANGED <<chan, batch>>
    BY <1>6 DEF Leave, server
  <2>2. ASSUME NEW d \in Conns PROVE Reasoned(d)'
    <3>1. CASE d = c
      <4>1. Gone(d)' BY <1>1, <2>1, <3>1 DEF TypeOK, Gone
      <4> QED BY <2>1, <4>1, StaysReasoned DEF WaitInv
    <3>2. CASE d # c
      <4>1. peer'[d] = peer[d] /\ inbuf'[d] = inbuf[d] BY <1>1, <2>1, <3>2 DEF TypeOK
      <4> QED BY <2>1, <4>1, StaysReasoned DEF WaitInv, Gone
    <3> QED BY <3>1, <3>2
  <2> QED BY <1>1, <2>2 DEF WaitInv
<1>7. ASSUME NEW c \in Conns, NEW i \in 1..Len(queue[c].buffers), Complete(c, i)
      PROVE  WaitInv'
  BY <1>2, <1>7 DEF Complete
<1>8. CASE JoinOne BY <1>2, <1>8 DEF JoinOne, server
<1> QED BY <1>3, <1>4, <1>5, <1>6, <1>7, <1>8 DEF Environment

LEMMA WaitAwait == WaitInv /\ Await => WaitInv'
<1> SUFFICES ASSUME WaitInv, Await PROVE WaitInv' OBVIOUS
<1>1. WakeInv' BY WakeAwait DEF WaitInv
<1>2. ASSUME NEW c \in Conns PROVE Reasoned(c)'
  <2>1. c \in Chans /\ c # Acceptor BY ConstantsAssumption DEF Chans
  <2>2. batch'[c] \subseteq Level(c) /\ UNCHANGED <<chan, inbuf, peer>>
    BY <2>1 DEF Await, Reported
  <2> QED BY <2>1, <2>2 DEF Reasoned, Level, Gone
<1> QED BY <1>1, <1>2 DEF WaitInv

LEMMA WaitAccept == WaitInv /\ AcceptEvent => WaitInv'
<1> SUFFICES ASSUME WaitInv, AcceptEvent PROVE WaitInv' OBVIOUS
<1>1. WakeInv' /\ LoopInv /\ TypeOK BY WakeAccept DEF WaitInv, WakeInv, LoopInv
<1>2. PICK new \in SUBSET Backlog :
          chan' = [c \in Conns |-> IF c \in new THEN "open" ELSE chan[c]]
  BY DEF AcceptEvent
<1>3. /\ cur = Acceptor /\ UNCHANGED <<inbuf, peer>>
      /\ batch' = [batch EXCEPT ![Acceptor] = {}]
  BY DEF AcceptEvent, Running
<1>4. ASSUME NEW c \in Conns PROVE Reasoned(c)'
  <2>1. c # Acceptor /\ c \in Chans BY ConstantsAssumption DEF Chans
  <2>2. batch'[c] = batch[c] BY <1>1, <1>3, <2>1 DEF TypeOK
  <2>3. CASE c \in new
    <3>1. batch[c] = {} BY <1>1, <1>3, <2>1, <2>3 DEF LoopInv, Closed, Backlog
    <3> QED BY <2>2, <3>1 DEF Reasoned
  <2>4. CASE c \notin new
    <3>1. chan'[c] = chan[c] BY <1>2, <2>4
    <3> QED BY <1>3, <2>2, <3>1, StaysReasoned DEF WaitInv, Gone
  <2> QED BY <2>3, <2>4
<1> QED BY <1>1, <1>4 DEF WaitInv

LEMMA WaitHandle == ASSUME WaitInv, NEW c \in Conns, Handle(c) PROVE WaitInv'
<1>1. WakeInv' /\ LoopInv /\ TypeOK BY WakeHandle DEF WaitInv, WakeInv, LoopInv
<1> c \in Chans BY DEF Chans
<1>2. ASSUME NEW d \in Conns, d # c PROVE Reasoned(d)'
  <2>1. Untouched(d) /\ Undisturbed(d)
    BY <1>1, <1>2, HandleLocal, HandleQuietly DEF WaitInv, WakeInv
  <2> QED BY <2>1, StaysReasoned DEF WaitInv, Untouched, Undisturbed, Gone
<1>3. ASSUME RemoveChannel(c) PROVE Reasoned(c)'
  BY <1>1, <1>3 DEF RemoveChannel, Reasoned, TypeOK
<1>4. ASSUME ReadDispatched(c), UNCHANGED <<chan, peer>> PROVE Reasoned(c)'
  <2>1. batch'[c] = batch[c] \ {"read"} BY <1>1, <1>4 DEF ReadDispatched, TypeOK
  <2> QED BY <1>4, <2>1, StaysReasoned DEF WaitInv, Gone
<1>5. ASSUME batch'[c] \subseteq batch[c], UNCHANGED <<chan, peer, inbuf>>
      PROVE  Reasoned(c)'
  BY <1>5, StaysReasoned DEF WaitInv, Gone
<1>6. ASSUME TerminateEvent(c) \/ ReadClosed(c) \/ WriteFails(c) \/ DrainAndClose(c)
      PROVE  Reasoned(c)'
  BY <1>3, <1>6 DEF TerminateEvent, ReadClosed, WriteFails, DrainAndClose
<1>7. ASSUME ReadPart(c) PROVE Reasoned(c)' BY <1>4, <1>7 DEF ReadPart
<1>8. ASSUME NEW r \in Responses, ReadRequest(c, r) PROVE Reasoned(c)'
  BY <1>4, <1>8 DEF ReadRequest
<1>9. ASSUME WriteEvent(c) \/ WriteAfterRemove(c) PROVE Reasoned(c)'
  <2>1. batch'[c] = {}
    BY <1>1, <1>9 DEF WriteEvent, WriteAfterRemove, WriteDispatched, TypeOK
  <2> QED BY <1>5, <1>9, <2>1 DEF WriteEvent, WriteAfterRemove
<1>10. ASSUME \/ BarrierClosed(c) \/ BarrierOpen(c) \/ DoItYourself(c)
              \/ FillNothing(c) \/ (\E n \in 1..Room : FillPart(c, n)) \/ FillAll(c)
              \/ DrainAndKeep(c) \/ NothingToWrite(c) \/ Rearm(c)
       PROVE  Reasoned(c)'
  <2>1. UNCHANGED <<chan, peer, inbuf, batch>>
    BY <1>10 DEF BarrierClosed, BarrierOpen, DoItYourself, FillNothing, FillPart,
                 FillAll, DrainAndKeep, NothingToWrite, Rearm, EndWriting
  <2> QED BY <1>5, <2>1
<1>11. Reasoned(c)' BY <1>6, <1>7, <1>8, <1>9, <1>10 DEF Handle
<1> QED BY <1>1, <1>2, <1>11 DEF WaitInv

LEMMA WaitStep == WaitInv /\ [Next]_vars => WaitInv'
<1> SUFFICES ASSUME WaitInv, [Next]_vars PROVE WaitInv' OBVIOUS
<1>1. WakeInv' BY WakeStep DEF WaitInv
<1>2. ASSUME UNCHANGED <<chan, batch, inbuf, peer>> PROVE WaitInv'
  BY <1>1, <1>2, StaysReasoned DEF WaitInv, Gone
<1>3. CASE UNCHANGED vars BY <1>2, <1>3 DEF vars
<1>4. ASSUME NEW c \in Chans, TakeEvent(c) PROVE WaitInv'
  BY <1>2, <1>4 DEF TakeEvent
<1> QED BY <1>3, <1>4, WaitEnvironment, WaitAwait, WaitAccept, WaitHandle
        DEF Next, Loop

\* A channel that goes because its queue is drained takes no future with it.
LEMMA DrainWaitsForNothing ==
    ASSUME TypeOK, NEW c \in Conns, DrainAndClose(c)
    PROVE  joining' = 0
<1> DEFINE s == queue[c].buffers
           I == {i \in 1..Len(s) : s[i].type = "async" /\ ~s[i].ready}
<1>1. SyncFront(c) /\ Drained(c) BY DEF DrainAndClose, Fill
<1>2. HasBuffers(queue[c]) /\ ~(Head(s).type = "async") /\ Tail(s) = <<>>
  BY <1>1 DEF SyncFront, IsFrontAsync, FrontBuffer, Drained, HasBuffers, RemoveFront,
              TypeOK, Item
<1>3. s \in Seq(Buffer) /\ s # <<>> BY <1>2 DEF TypeOK, Item, HasBuffers
<1> HIDE DEF s
<1>4. Len(s) = 1 /\ s[1].type # "async"
  <2>1. Len(s) \in Nat /\ Len(s) # 0 BY <1>3, LenProperties, EmptySeq
  <2>2. Head(s) = s[1] /\ Len(Tail(s)) = Len(s) - 1 BY <1>3, HeadTailProperties
  <2>3. Len(Tail(s)) = 0 BY <1>2, EmptySeq
  <2>4. Len(s) = 1
    <3> DEFINE n == Len(s)
               m == Len(Tail(s))
    <3>1. n \in Nat /\ m = n - 1 /\ m = 0 BY <2>1, <2>2, <2>3
    <3> HIDE DEF n, m
    <3>2. n = 1 BY <3>1
    <3> QED BY <3>2 DEF n
  <2>5. s[1].type # "async" BY <1>2, <2>2, Zenon
  <2> QED BY <2>4, <2>5
<1>5. I = {} BY <1>4
<1>6. Cardinality(I) = 0 BY <1>5, FS_EmptySet
<1> HIDE DEF I
<1>7. joining' = IF AsyncJoins THEN Cardinality(I) ELSE 0
  BY DEF DrainAndClose, RemoveChannel, I, s
<1> QED BY <1>6, <1>7

-----------------------------------------------------------------------------
\* A connection is closed only on request.

\* A queue holds answers, and closes the connection when it is drained if the
\* last answer said so, unless that was an asynchronous one.
Wishes(c) ==
    /\ HasBuffers(queue[c]) => answers[c] # <<>>
    /\ chan[c] # "removed" /\ answers[c] # <<>> =>
          \/ Last(answers[c]).buffers[1].type = "async"
          \/ queue[c].keep = Last(answers[c]).keep

WishInv == WaitInv /\ \A c \in Conns : Wishes(c)

LEMMA WishInit == Init => WishInv
BY WaitInit, EmptyItemType DEF Init, WishInv, Wishes

LEMMA WishStays ==
    ASSUME NEW c \in Conns, Wishes(c), answers'[c] = answers[c],
           queue'[c].keep = queue[c].keep \/ chan'[c] = "removed",
           HasBuffers(queue'[c]) => HasBuffers(queue[c]),
           chan'[c] # "removed" => chan[c] # "removed"
    PROVE  Wishes(c)'
BY DEF Wishes

LEMMA WishEnvironment == WishInv /\ Environment => WishInv'
<1> SUFFICES ASSUME WishInv, Environment PROVE WishInv' OBVIOUS
<1>1. WaitInv' /\ LoopInv /\ TypeOK
  BY WaitEnvironment DEF WishInv, WaitInv, WakeInv, LoopInv
<1>2. ASSUME UNCHANGED <<answers, queue>>,
             \A c \in Conns : chan'[c] # "removed" => chan[c] # "removed"
      PROVE  WishInv'
  BY <1>1, <1>2, WishStays DEF WishInv
<1>3. ASSUME NEW c \in Conns, Connect(c) PROVE WishInv'
  <2>1. \A d \in Conns : chan'[d] # "removed" => chan[d] # "removed"
    BY <1>1, <1>3 DEF Connect, TypeOK
  <2> QED BY <1>2, <1>3, <2>1 DEF Connect, server
<1>4. ASSUME NEW c \in Conns, NEW i \in 1..Len(queue[c].buffers), Complete(c, i)
      PROVE  WishInv'
  <2>1. queue' = [queue EXCEPT ![c].buffers[i].ready = TRUE]
        /\ UNCHANGED <<chan, answers>>
    BY <1>4 DEF Complete
  <2>2. ASSUME NEW d \in Conns PROVE queue'[d].keep = queue[d].keep
    BY <1>1, <2>1 DEF TypeOK, Item
  <2>3. ASSUME NEW d \in Conns PROVE HasBuffers(queue'[d]) => HasBuffers(queue[d])
    <3>1. CASE d = c
      <4>1. queue[c].buffers # <<>>
        <5> SUFFICES ASSUME queue[c].buffers = <<>> PROVE FALSE OBVIOUS
        <5> QED BY EmptySeq
      <4> QED BY <3>1, <4>1 DEF HasBuffers
    <3>2. CASE d # c BY <1>1, <2>1, <3>2 DEF TypeOK
    <3> QED BY <3>1, <3>2
  <2> QED BY <1>1, <2>1, <2>2, <2>3, WishStays DEF WishInv
<1>5. CASE \/ \E c \in Conns :
                 \/ \E piece \in {"part", "final"} : Send(c, piece)
                 \/ Receive(c)
                 \/ \E how \in {"fin", "reset"} : Leave(c, how)
           \/ JoinOne
  BY <1>2, <1>5 DEF Send, Receive, Leave, JoinOne, server
<1> QED BY <1>3, <1>4, <1>5 DEF Environment

\* An answer in memory or in a file brings its wish along.
LEMMA ReadRequestWish ==
    ASSUME TypeOK, NEW c \in Conns, NEW r \in Responses, ReadRequest(c, r)
    PROVE  Wishes(c)'
<1> DEFINE item == AnswerItem(c, r)
<1>1. answers'[c] = Append(answers[c], r) /\ queue'[c] = Enqueue(queue[c], item)
  BY DEF ReadRequest, TypeOK
<1>2. answers[c] \in Seq(Responses) BY DEF TypeOK
<1>3. answers'[c] # <<>> /\ Last(answers'[c]) = r
  <2>1. Append(answers[c], r) # <<>>
        /\ Append(answers[c], r)[Len(Append(answers[c], r))] = r
    BY <1>2, AppendProperties
  <2> QED BY <1>1, <2>1 DEF Last
<1>4. /\ FrontBuffer(item).type = r.buffers[1].type
      /\ r.buffers[1].type \in {"memory", "file", "async"}
      /\ item.keep = r.keep
  <2>1. r \in Response BY ResponsesAssumption
  <2>2. r.buffers \in Seq(Part) /\ r.buffers # <<>> BY <2>1 DEF Response
  <2>3. Len(r.buffers) \in Nat /\ 1 \in 1..Len(r.buffers)
    BY <2>2, LenProperties, EmptySeq
  <2>4. r.buffers[1] \in Part BY <2>2, <2>3, ElementOfSeq
  <2> DEFINE bs == [i \in 1..Len(r.buffers) |->
                     [type |-> r.buffers[i].type, req |-> Len(answers[c]) + 1,
                      size |-> r.buffers[i].size, left |-> r.buffers[i].size,
                      ready |-> FALSE]]
  <2>5. item.buffers = bs /\ item.keep = r.keep BY DEF AnswerItem
  <2>6. item \in Item /\ HasBuffers(item) BY AnswerItemType
  <2>7. Head(item.buffers) = item.buffers[1]
    BY <2>6 DEF Item, HasBuffers
  <2>8. item.buffers[1].type = r.buffers[1].type BY <2>3, <2>5
  <2> QED BY <2>4, <2>5, <2>7, <2>8 DEF Part, FrontBuffer
<1> HIDE DEF item
<1>5. CASE r.buffers[1].type = "async" BY <1>3, <1>5 DEF Wishes
<1>6. CASE r.buffers[1].type \in {"memory", "file"}
  <2>1. queue'[c].keep = r.keep BY <1>1, <1>4, <1>6 DEF Enqueue, PutBack
  <2> QED BY <1>3, <2>1 DEF Wishes
<1> QED BY <1>4, <1>5, <1>6

LEMMA WishHandle == ASSUME WishInv, NEW c \in Conns, Handle(c) PROVE WishInv'
<1> DEFINE Keeps == /\ UNCHANGED answers
                    /\ queue'[c].keep = queue[c].keep \/ chan'[c] = "removed"
                    /\ HasBuffers(queue'[c]) => HasBuffers(queue[c])
<1>1. WaitInv' /\ LoopInv /\ TypeOK
  BY WaitHandle DEF WishInv, WaitInv, WakeInv, LoopInv
<1> c \in Chans BY DEF Chans
<1>2. ASSUME RemoveChannel(c) PROVE Keeps
  BY <1>1, <1>2, EmptyItemType DEF RemoveChannel, TypeOK
<1>3. ASSUME UNCHANGED <<answers, queue>> PROVE Keeps BY <1>3
<1>4. ASSUME NEW b, HasBuffers(queue[c]), UNCHANGED answers,
             queue' = [queue EXCEPT ![c] = ReplaceFront(@, b)]
      PROVE  Keeps
  BY <1>1, <1>4 DEF ReplaceFront, TypeOK, Item
<1>5. ASSUME HasBuffers(queue[c]), UNCHANGED answers,
             queue' = [queue EXCEPT ![c] = RemoveFront(@)]
      PROVE  Keeps
  BY <1>1, <1>5 DEF RemoveFront, TypeOK, Item
<1>6. (\E r \in Responses : ReadRequest(c, r)) \/ Keeps
  <2>1. ASSUME TerminateEvent(c) \/ ReadClosed(c) \/ WriteFails(c) \/ DrainAndClose(c)
        PROVE  Keeps
    BY <1>2, <2>1 DEF TerminateEvent, ReadClosed, WriteFails, DrainAndClose
  <2>2. ASSUME \/ ReadPart(c) \/ WriteEvent(c) \/ WriteAfterRemove(c)
               \/ BarrierClosed(c) \/ FillNothing(c) \/ NothingToWrite(c) \/ Rearm(c)
        PROVE  Keeps
    BY <1>3, <2>2 DEF ReadPart, WriteEvent, WriteAfterRemove, BarrierClosed,
                      FillNothing, NothingToWrite, Rearm
  <2>3. ASSUME BarrierOpen(c) PROVE Keeps
    BY <1>4, <2>3 DEF BarrierOpen, IsFrontAsync
  <2>4. ASSUME DoItYourself(c) PROVE Keeps
    BY <1>4, <2>4 DEF DoItYourself, SyncFront
  <2>5. ASSUME NEW n \in 1..Room, FillPart(c, n) PROVE Keeps
    BY <1>4, <2>5 DEF FillPart, Fill, SyncFront
  <2>6. ASSUME FillAll(c) \/ DrainAndKeep(c) PROVE Keeps
    BY <1>5, <2>6 DEF FillAll, DrainAndKeep, Fill, SyncFront
  <2> QED BY <2>1, <2>2, <2>3, <2>4, <2>5, <2>6 DEF Handle
<1>7. \A d \in Conns : d # c => answers'[d] = answers[d]
  BY <1>1, <1>6 DEF ReadRequest, TypeOK
<1>8. ASSUME NEW d \in Conns, d # c PROVE Wishes(d)'
  <2>1. Untouched(d) BY <1>1, <1>8, HandleLocal
  <2> QED BY <1>7, <1>8, <2>1, WishStays DEF WishInv, Untouched
<1>9. Wishes(c)'
  <2>1. CASE \E r \in Responses : ReadRequest(c, r)
    BY <1>1, <2>1, ReadRequestWish
  <2>2. CASE Keeps
    <3>1. chan'[c] # "removed" => chan[c] # "removed"
      <4>1. chan' = chan \/ chan'[c] = "removed"
        BY <1>1 DEF Handle, TerminateEvent, ReadClosed, ReadPart, ReadRequest,
             WriteEvent, WriteAfterRemove, BarrierClosed, BarrierOpen, DoItYourself,
             WriteFails, FillNothing, FillPart, FillAll, DrainAndKeep, DrainAndClose,
             NothingToWrite, Rearm, RemoveChannel, TypeOK
      <4> QED BY <4>1
    <3> QED BY <2>2, <3>1, WishStays DEF WishInv
  <2> QED BY <1>6, <2>1, <2>2
<1> QED BY <1>1, <1>8, <1>9 DEF WishInv

LEMMA WishStep == WishInv /\ [Next]_vars => WishInv'
<1> SUFFICES ASSUME WishInv, [Next]_vars PROVE WishInv' OBVIOUS
<1>1. WaitInv' BY WaitStep DEF WishInv
<1>2. ASSUME UNCHANGED <<answers, queue>>,
             \A c \in Conns : chan'[c] # "removed" => chan[c] # "removed"
      PROVE  WishInv'
  BY <1>1, <1>2, WishStays DEF WishInv
<1>3. CASE UNCHANGED vars BY <1>2, <1>3 DEF vars
<1>4. CASE Await BY <1>2, <1>4 DEF Await
<1>5. ASSUME NEW c \in Chans, TakeEvent(c) PROVE WishInv'
  BY <1>2, <1>5 DEF TakeEvent
<1>6. CASE AcceptEvent
  <2>1. \A c \in Conns : chan'[c] # "removed" => chan[c] # "removed"
    BY <1>6 DEF AcceptEvent, Backlog
  <2> QED BY <1>2, <1>6, <2>1 DEF AcceptEvent
<1> QED BY <1>3, <1>4, <1>5, <1>6, WishEnvironment, WishHandle DEF Next, Loop

\* Only the drain of a queue, or a file that cannot be sent, removes the channel
\* of a peer that is still there.
LEMMA RemovedWhileUp ==
    ASSUME WishInv, Next, NEW c \in Conns,
           chan[c] = "open", chan'[c] = "removed", peer[c] = "up"
    PROVE  DrainAndClose(c) \/ FileUnsent(c)
<1>1. WakeInv /\ LoopInv /\ TypeOK /\ Reasoned(c)
  BY DEF WishInv, WaitInv, WakeInv, LoopInv
<1>2. ~Environment
  <2>1. ASSUME NEW d \in Conns, Connect(d) PROVE FALSE
    BY <1>1, <2>1 DEF Connect, TypeOK
  <2> QED BY <2>1 DEF Environment, Send, Receive, Leave, Complete, JoinOne, server
<1>3. ~Await /\ ~AcceptEvent /\ \A d \in Chans : ~TakeEvent(d)
  BY DEF Await, AcceptEvent, TakeEvent
<1>4. PICK d \in Conns : Handle(d) BY <1>2, <1>3 DEF Next, Loop
<1>5. d = c BY <1>1, <1>4, HandleLocal DEF Untouched
<1>6. TerminateEvent(c) \/ ReadClosed(c) \/ WriteFails(c) \/ DrainAndClose(c)
  BY <1>4, <1>5 DEF Handle, ReadPart, ReadRequest, WriteEvent, WriteAfterRemove,
     BarrierClosed, BarrierOpen, DoItYourself, FillNothing, FillPart, FillAll,
     DrainAndKeep, NothingToWrite, Rearm
<1>7. ~Gone(c) /\ peer[c] # "reset" BY DEF Gone
<1>8. WriteFails(c) => FileUnsent(c) BY <1>7 DEF WriteFails, FileUnsent
<1> QED BY <1>1, <1>6, <1>7, <1>8 DEF Reasoned, TerminateEvent, ReadClosed,
        ReadDispatched, Dispatched

\* A peer that stays sees its connection closed only after an answer that did
\* not ask to keep it, or an asynchronous one, whose wish is ignored, or in place
\* of a file that could not be sent.
THEOREM ClosedCorrect == Spec => ClosedOnlyOnRequest
<1> DEFINE Asked(c) == /\ answers[c] # <<>>
                       /\ \/ ~Last(answers[c]).keep
                          \/ Last(answers[c]).buffers[1].type = "async"
                          \/ FileUnsent(c)
           Step == \A c \in Conns :
               chan[c] = "open" /\ chan'[c] = "removed" /\ peer[c] = "up" => Asked(c)
<1>1. ASSUME WishInv, Next PROVE Step
  <2> SUFFICES ASSUME NEW c \in Conns, chan[c] = "open", chan'[c] = "removed",
                      peer[c] = "up"
               PROVE  Asked(c)
    OBVIOUS
  <2>1. DrainAndClose(c) \/ FileUnsent(c) BY <1>1, RemovedWhileUp
  <2>2. HasBuffers(queue[c]) /\ (~queue[c].keep \/ FileUnsent(c))
    BY <2>1 DEF DrainAndClose, FileUnsent, Fill, SyncFront
  <2>3. Wishes(c) BY <1>1 DEF WishInv
  <2> QED BY <2>2, <2>3 DEF Wishes
<1>2. WishInv /\ [Next]_vars => [Step]_vars BY <1>1
<1> QED BY <1>2, WishInit, WishStep, PTL DEF Spec, ClosedOnlyOnRequest

-----------------------------------------------------------------------------
\* run() tests event.can_write() after process_read, which may have freed the
\* channel: this is safe only as long as no event of a living peer is for
\* reading and for writing, and that in turn rests on the peer sending nothing
\* while an answer is queued.

\* A peer whose answer is not written yet has sent nothing more; no event
\* lets a channel be read and written; process_write has no event left.
Quiescent(c) ==
    /\ HasBuffers(queue[c]) => inbuf[c] = {}
    /\ {"read", "write"} \subseteq batch[c] => "termination" \in batch[c]
    /\ chan[c] # "open" => batch[c] = {}
    /\ cur = c /\ pc \in {"write", "rearm"} => batch[c] = {}

PoliteInv == touched = {} /\ \A c \in Conns : Quiescent(c)

LEMMA PoliteInit == Init => PoliteInv
<1> SUFFICES ASSUME Init PROVE PoliteInv
  OBVIOUS
<1>1. \A c \in Conns : c # NoChan BY ConstantsAssumption
<1> QED BY <1>1, EmptyItemType DEF Init, PoliteInv, Quiescent, Chans

\* A peer that awaits an answer sends nothing, and nothing else of the
\* environment puts anything in a queue or an event in the batch.
LEMMA PoliteEnvironment ==
    ASSUME Polite, LoopInv, PoliteInv, Environment
    PROVE  PoliteInv'
<1> TypeOK BY DEF LoopInv
<1>1. ASSUME NEW c \in Conns, Connect(c) PROVE PoliteInv'
  BY <1>1 DEF Connect, server, PoliteInv, Quiescent, TypeOK
<1>2. ASSUME NEW c \in Conns, NEW piece \in {"part", "final"}, Send(c, piece)
      PROVE  PoliteInv'
  <2>1. ~HasBuffers(queue[c]) BY <1>2 DEF Send, Awaiting
  <2> QED BY <1>2, <2>1 DEF Send, server, PoliteInv, Quiescent, TypeOK
<1>3. ASSUME NEW c \in Conns, Receive(c) PROVE PoliteInv'
  BY <1>3 DEF Receive, server, PoliteInv, Quiescent
<1>4. ASSUME NEW c \in Conns, NEW how \in {"fin", "reset"}, Leave(c, how)
      PROVE  PoliteInv'
  <2>1. \A d \in Conns : inbuf'[d] \in {inbuf[d], {}}
    BY <1>4 DEF Leave, TypeOK
  <2>2. UNCHANGED <<chan, queue, batch, cur, pc, touched>>
    BY <1>4 DEF Leave, server
  <2> QED BY <2>1, <2>2 DEF PoliteInv, Quiescent
<1>5. ASSUME NEW c \in Conns, NEW i \in 1..Len(queue[c].buffers),
             Complete(c, i)
      PROVE  PoliteInv'
  <2>1. \A d \in Conns : d # c => queue'[d] = queue[d]
    BY <1>5 DEF Complete, TypeOK
  <2>2. HasBuffers(queue[c])
    <3> SUFFICES ASSUME queue[c].buffers = <<>> PROVE FALSE
      BY DEF HasBuffers
    <3> QED BY EmptySeq
  <2>3. UNCHANGED <<chan, inbuf, batch, cur, pc, touched>>
    BY <1>5 DEF Complete
  <2> QED BY <2>1, <2>2, <2>3 DEF PoliteInv, Quiescent
<1>6. ASSUME JoinOne PROVE PoliteInv'
  BY <1>6 DEF JoinOne, server, PoliteInv, Quiescent
<1> QED BY <1>1, <1>2, <1>3, <1>4, <1>5, <1>6 DEF Environment

\* epoll reports reading and writing together only with the peer's leaving:
\* a channel asks to write only while it has something to write, and has then
\* nothing to read but the end of the stream.
LEMMA PoliteAwait ==
    ASSUME LoopInv, PoliteInv, Await PROVE PoliteInv'
<1>1. /\ cur = NoChan /\ pc = "loop"
      /\ UNCHANGED <<chan, inbuf, queue, cur, pc, touched>>
  BY DEF Await, Running
<1>2. ASSUME NEW c \in Conns PROVE Quiescent(c)'
  <2>1. /\ Closed(c) /\ Armed(c) /\ Quiescent(c) /\ c # NoChan
        /\ c \in Chans /\ c # Acceptor
    BY ConstantsAssumption DEF LoopInv, PoliteInv, Chans
  <2>2. batch'[c] \in {{}, mask[c] \cap Level(c)}
    BY <2>1 DEF Await, Reported
  <2>3. CASE mask[c] = {}
    BY <1>1, <2>1, <2>2, <2>3 DEF Quiescent
  <2>4. CASE mask[c] # {}
    <3>1. /\ chan[c] = "open" /\ mask[c] = flags[c]
          /\ "termination" \in mask[c]
          /\ "write" \in mask[c] => HasBuffers(queue[c])
      BY <1>1, <2>1, <2>4 DEF Closed, Armed
    <3>2. "read" \in Level(c) /\ inbuf[c] = {} => "termination" \in Level(c)
      BY <2>1 DEF Level
    <3> QED BY <1>1, <2>1, <2>2, <3>1, <3>2 DEF Quiescent
  <2> QED BY <2>3, <2>4
<1> QED BY <1>1, <1>2 DEF PoliteInv

LEMMA PoliteTake ==
    ASSUME LoopInv, PoliteInv, NEW c \in Chans, TakeEvent(c) PROVE PoliteInv'
BY DEF TakeEvent, PoliteInv, Quiescent

LEMMA PoliteAccept == ASSUME LoopInv, PoliteInv, AcceptEvent PROVE PoliteInv'
<1>1. /\ cur = Acceptor /\ pc = "event" /\ pc' \in {"loop", "event"}
      /\ UNCHANGED <<inbuf, queue, touched>>
      /\ batch' = [batch EXCEPT ![Acceptor] = {}]
  BY DEF AcceptEvent, Running, Resume
<1>2. PICK new \in SUBSET Backlog :
          chan' = [c \in Conns |-> IF c \in new THEN "open" ELSE chan[c]]
  BY DEF AcceptEvent
<1>3. ASSUME NEW c \in Conns PROVE Quiescent(c)'
  <2>1. Quiescent(c) /\ c # Acceptor /\ c \in Chans
    BY ConstantsAssumption DEF PoliteInv, Chans
  <2>2. batch'[c] = batch[c] BY <1>1, <2>1 DEF LoopInv, TypeOK
  <2>3. chan'[c] # "open" => chan[c] # "open" BY <1>2
  <2> QED BY <1>1, <2>1, <2>2, <2>3 DEF Quiescent
<1> QED BY <1>1, <1>3 DEF PoliteInv

\* A handler of c's event leaves the unread input of the others alone, and
\* goes on to none of them.
LEMMA HandleKeepsOthers ==
    ASSUME TypeOK, NEW c \in Conns, Handle(c)
    PROVE  /\ cur' \in {c, NoChan}
           /\ \A d \in Conns : d # c => inbuf'[d] = inbuf[d]
<1> USE DEF TypeOK
<1>0. cur = c BY HandleLocal
<1>1. CASE TerminateEvent(c) BY <1>1 DEF TerminateEvent, RemoveChannel, Resume
<1>2. CASE ReadClosed(c) BY <1>2 DEF ReadClosed, RemoveChannel, Resume
<1>3. CASE ReadPart(c) BY <1>3 DEF ReadPart, Resume
<1>4. ASSUME NEW r \in Responses, ReadRequest(c, r)
      PROVE  /\ cur' \in {c, NoChan}
             /\ \A d \in Conns : d # c => inbuf'[d] = inbuf[d]
  <2>1. cur' = cur /\ inbuf' = [inbuf EXCEPT ![c] = LeftUnread(@)]
    BY <1>4 DEF ReadRequest
  <2> QED BY <1>0, <2>1
<1>5. CASE WriteEvent(c) BY <1>0, <1>5 DEF WriteEvent
<1>6. CASE WriteAfterRemove(c) BY <1>0, <1>6 DEF WriteAfterRemove, Resume
<1>7. CASE BarrierClosed(c) BY <1>7 DEF BarrierClosed, Resume
<1>8. CASE BarrierOpen(c)
  <2>1. UNCHANGED <<cur, inbuf>> BY <1>8 DEF BarrierOpen
  <2> QED BY <1>0, <2>1
<1>9. CASE DoItYourself(c)
  <2>1. UNCHANGED <<cur, inbuf>> BY <1>9 DEF DoItYourself
  <2> QED BY <1>0, <2>1
<1>10. CASE WriteFails(c) BY <1>10 DEF WriteFails, RemoveChannel, Resume
<1>11. CASE FillNothing(c) BY <1>0, <1>11 DEF FillNothing, EndWriting
<1>12. ASSUME NEW n \in 1..Room, FillPart(c, n)
       PROVE  /\ cur' \in {c, NoChan}
              /\ \A d \in Conns : d # c => inbuf'[d] = inbuf[d]
  <2>1. UNCHANGED <<cur, inbuf>> BY <1>12 DEF FillPart
  <2> QED BY <1>0, <2>1
<1>13. CASE FillAll(c) BY <1>0, <1>13 DEF FillAll
<1>14. CASE DrainAndKeep(c) BY <1>0, <1>14 DEF DrainAndKeep, EndWriting
<1>15. CASE DrainAndClose(c) BY <1>15 DEF DrainAndClose, RemoveChannel, Resume
<1>16. CASE NothingToWrite(c) BY <1>0, <1>16 DEF NothingToWrite, EndWriting
<1>17. CASE Rearm(c) BY <1>17 DEF Rearm, Resume
<1> QED BY <1>1, <1>2, <1>3, <1>4, <1>5, <1>6, <1>7, <1>8, <1>9, <1>10, <1>11,
           <1>12, <1>13, <1>14, <1>15, <1>16, <1>17 DEF Handle

\* Whatever the handler of c's event does, it leaves c quiescent and uses no
\* freed channel.
LEMMA PoliteOwn ==
    ASSUME LoopInv, PoliteInv, NEW c \in Conns, Handle(c)
    PROVE  touched' = {} /\ Quiescent(c)'
<1> /\ TypeOK /\ Quiescent(c) /\ touched = {} /\ c \in Chans
  BY DEF LoopInv, PoliteInv, Chans
<1>0. cur = c BY HandleLocal
<1>1. ASSUME batch'[c] = {}, UNCHANGED <<inbuf, touched>>,
             HasBuffers(queue[c]) \/ UNCHANGED queue
      PROVE  touched' = {} /\ Quiescent(c)'
  BY <1>1 DEF Quiescent
<1>2. ASSUME RemoveChannel(c), batch'[c] = {}, UNCHANGED touched
      PROVE  touched' = {} /\ Quiescent(c)'
  <2>1. ~HasBuffers(queue'[c])
    BY <1>2, EmptyItemType DEF RemoveChannel, TypeOK
  <2> QED BY <1>2, <2>1 DEF Quiescent
<1>3. CASE TerminateEvent(c)
  BY <1>2, <1>3 DEF TerminateEvent, TypeOK
<1>4. ASSUME ReadDispatched(c) PROVE batch'[c] = {}
  BY <1>4 DEF ReadDispatched, Dispatched, Quiescent, TypeOK, Events
<1>5. CASE ReadClosed(c) BY <1>2, <1>4, <1>5 DEF ReadClosed
<1>6. CASE ReadPart(c)
  <2>1. inbuf'[c] = {} /\ batch'[c] = {} /\ UNCHANGED touched
    BY <1>4, <1>6 DEF ReadPart, LeftUnread, TypeOK
  <2> QED BY <2>1 DEF Quiescent
<1>7. ASSUME NEW r \in Responses, ReadRequest(c, r)
      PROVE  touched' = {} /\ Quiescent(c)'
  <2>1. inbuf'[c] = {} /\ batch'[c] = {} /\ UNCHANGED touched
    BY <1>4, <1>7 DEF ReadRequest, LeftUnread, TypeOK
  <2> QED BY <2>1 DEF Quiescent
<1>8. CASE WriteEvent(c)
  BY <1>1, <1>8 DEF WriteEvent, WriteDispatched, TypeOK
<1>9. ~WriteAfterRemove(c)
  BY DEF WriteAfterRemove, WriteDispatched, Quiescent
<1>10. ASSUME pc \in {"write", "rearm"} PROVE batch[c] = {}
  BY <1>0, <1>10 DEF Quiescent
<1>11. ASSUME Writing(c) PROVE batch[c] = {}
  BY <1>10, <1>11 DEF Writing, Running
<1>12. CASE BarrierClosed(c)
  BY <1>1, <1>11, <1>12 DEF BarrierClosed
<1>13. CASE BarrierOpen(c)
  <2>1. HasBuffers(queue[c]) /\ UNCHANGED <<batch, inbuf, touched>>
    BY <1>13 DEF BarrierOpen, IsFrontAsync
  <2>2. batch[c] = {} BY <1>11, <1>13 DEF BarrierOpen
  <2> QED BY <1>1, <2>1, <2>2
<1>14. CASE DoItYourself(c)
  <2>1. HasBuffers(queue[c]) /\ UNCHANGED <<batch, inbuf, touched>>
    BY <1>14 DEF DoItYourself, SyncFront
  <2>2. batch[c] = {} BY <1>11, <1>14 DEF DoItYourself, SyncFront
  <2> QED BY <1>1, <2>1, <2>2
<1>15. CASE WriteFails(c)
  BY <1>2, <1>11, <1>15 DEF WriteFails, SyncFront
<1>16. CASE FillNothing(c)
  BY <1>1, <1>11, <1>16 DEF FillNothing, Fill, SyncFront, EndWriting
<1>17. ASSUME NEW n \in 1..Room, FillPart(c, n)
       PROVE  touched' = {} /\ Quiescent(c)'
  <2>1. HasBuffers(queue[c]) /\ UNCHANGED <<batch, inbuf, touched>>
    BY <1>17 DEF FillPart, Fill, SyncFront
  <2>2. batch[c] = {} BY <1>11, <1>17 DEF FillPart, Fill, SyncFront
  <2> QED BY <1>1, <2>1, <2>2
<1>18. CASE FillAll(c)
  BY <1>1, <1>11, <1>18 DEF FillAll, Fill, SyncFront
<1>19. CASE DrainAndKeep(c)
  BY <1>1, <1>11, <1>19 DEF DrainAndKeep, Fill, SyncFront, EndWriting
<1>20. CASE DrainAndClose(c)
  BY <1>2, <1>11, <1>20 DEF DrainAndClose, Fill, SyncFront
<1>21. CASE NothingToWrite(c)
  BY <1>1, <1>11, <1>21 DEF NothingToWrite, EndWriting
<1>22. CASE Rearm(c)
  BY <1>1, <1>10, <1>22 DEF Rearm, Running
<1> QED BY <1>3, <1>5, <1>6, <1>7, <1>8, <1>9, <1>12, <1>13, <1>14, <1>15, <1>16,
           <1>17, <1>18, <1>19, <1>20, <1>21, <1>22 DEF Handle

LEMMA PoliteHandle ==
    ASSUME LoopInv, PoliteInv, NEW c \in Conns, Handle(c) PROVE PoliteInv'
<1>1. ASSUME NEW d \in Conns, d # c PROVE Quiescent(d)'
  <2>1. Untouched(d) /\ inbuf'[d] = inbuf[d] /\ cur' \in {c, NoChan}
    BY <1>1, HandleLocal, HandleKeepsOthers DEF LoopInv
  <2>2. Quiescent(d) /\ cur' # d BY <1>1, <2>1, ConstantsAssumption DEF PoliteInv
  <2> QED BY <2>1, <2>2 DEF Untouched, Quiescent
<1> QED BY <1>1, PoliteOwn DEF PoliteInv

LEMMA PoliteStep ==
    ASSUME Polite, LoopInv, PoliteInv, [Next]_vars PROVE PoliteInv'
<1>1. CASE UNCHANGED vars BY <1>1 DEF vars, PoliteInv, Quiescent
<1> QED BY <1>1, PoliteEnvironment, PoliteAwait, PoliteTake, PoliteAccept,
           PoliteHandle DEF Next, Loop

\* run() handles the write half of an event after process_read, which may
\* have freed the channel.  With peers that await their answers, no channel
\* is used after it was freed, whatever the answers, the send buffers, the
\* failures of epoll_ctl and the departures.
THEOREM NoTouchCorrect == ASSUME Polite PROVE Spec => []NoTouchAfterRemove
<1>1. PoliteInv => NoTouchAfterRemove BY DEF PoliteInv, NoTouchAfterRemove
<1>2. LoopInv /\ PoliteInv /\ [Next]_vars => PoliteInv' BY PoliteStep
<1> QED BY <1>1, <1>2, PoliteInit, LoopInvariant, PTL DEF Spec

-----------------------------------------------------------------------------
\* Induction over the naturals, and what flattening a sequence of sequences
\* yields.

\* A non-empty set of naturals has a least element.
LEMMA LeastNatural ==
    ASSUME NEW T, T \subseteq Nat, T # {}
    PROVE  \E x \in T : \A y \in T : x <= y
<1> DEFINE R == {ss \in Nat \X Nat : ss[1] < ss[2]}
<1>1. IsWellFoundedOn(R, Nat) BY NatLessThanWellFounded DEF OpToRel
<1>2. PICK x \in T : \A y \in T : <<y, x>> \notin R
  <2> HIDE DEF R
  <2> QED BY <1>1, WFMin
<1>3. ASSUME NEW y \in T PROVE x <= y
  <2>1. <<y, x>> \in Nat \X Nat OBVIOUS
  <2>2. <<y, x>> \notin R BY <1>2
  <2>3. ~(y < x) BY <2>1, <2>2
  <2> QED BY <2>3
<1> QED BY <1>3

\* Induction over the naturals, for a property given as the set of numbers that
\* have it.
LEMMA NaturalInduction ==
    ASSUME NEW T, 0 \in T, \A n \in Nat : n \in T => n + 1 \in T
    PROVE  Nat \subseteq T
<1> SUFFICES ASSUME NEW m \in Nat, m \notin T PROVE FALSE
  OBVIOUS
<1> DEFINE U == {n \in Nat : n \notin T}
<1>1. PICK x \in U : \A y \in U : x <= y
  <2>1. U \subseteq Nat /\ U # {} OBVIOUS
  <2> QED BY <2>1, LeastNatural
<1>2. x # 0 /\ x - 1 \in Nat /\ x - 1 \in T BY <1>1
<1> QED BY <1>1, <1>2

\* What FlattenSeq adds up: the i-th partial result.
Flattens(f, ss) ==
    f = [i \in 1..Len(ss) |-> IF i = 1 THEN ss[i] ELSE f[i - 1] \o ss[i]]

\* The first is the first sequence, and each next one adds the next.
LEMMA FlattensSteps ==
    ASSUME NEW S, NEW ss \in Seq(Seq(S)), NEW f, Flattens(f, ss)
    PROVE  /\ DOMAIN f = 1..Len(ss)
           /\ 1 \in 1..Len(ss) => f[1] = ss[1]
           /\ \A k \in Nat : k + 1 \in 1..Len(ss) /\ k # 0 =>
                  k \in 1..Len(ss) /\ f[k + 1] = f[k] \o ss[k + 1]
<1>1. Len(ss) \in Nat BY LenProperties
<1>2. /\ DOMAIN f = 1..Len(ss)
      /\ \A i \in 1..Len(ss) : f[i] = IF i = 1 THEN ss[i] ELSE f[i - 1] \o ss[i]
  BY DEF Flattens
<1>3. ASSUME NEW k \in Nat, k + 1 \in 1..Len(ss), k # 0
      PROVE  k \in 1..Len(ss) /\ f[k + 1] = f[k] \o ss[k + 1]
  <2> DEFINE i == k + 1
  <2>0. i \in 1..Len(ss) /\ i # 1 BY <1>3
  <2> HIDE DEF i
  <2>1. f[i] = f[i - 1] \o ss[i] BY <1>2, <2>0
  <2>2. i - 1 = k /\ k \in 1..Len(ss) BY <1>1, <1>3 DEF i
  <2> QED BY <2>1, <2>2 DEF i
<1> QED BY <1>2, <1>3

\* All partial results are sequences of the same elements.
LEMMA FlattensType ==
    ASSUME NEW S, NEW ss \in Seq(Seq(S)), NEW f, Flattens(f, ss)
    PROVE  f \in [1..Len(ss) -> Seq(S)]
<1>1. Len(ss) \in Nat /\ \A i \in 1..Len(ss) : ss[i] \in Seq(S)
  BY LenProperties, ElementOfSeq
<1>2. /\ 1 \in 1..Len(ss) => f[1] = ss[1]
      /\ \A k \in Nat : k + 1 \in 1..Len(ss) /\ k # 0 =>
             k \in 1..Len(ss) /\ f[k + 1] = f[k] \o ss[k + 1]
  BY FlattensSteps
<1> DEFINE T == {k \in Nat : k \in 1..Len(ss) => f[k] \in Seq(S)}
<1>3. Nat \subseteq T
  <2>1. 0 \in T OBVIOUS
  <2>2. ASSUME NEW k \in Nat, k \in T PROVE k + 1 \in T
    <3> SUFFICES ASSUME k + 1 \in 1..Len(ss) PROVE f[k + 1] \in Seq(S)
      OBVIOUS
    <3>1. CASE k = 0
      <4>1. 1 \in 1..Len(ss) /\ f[1] = ss[1] BY <1>1, <1>2, <3>1
      <4> QED BY <1>1, <3>1, <4>1
    <3>2. CASE k # 0
      <4>1. k \in 1..Len(ss) /\ f[k + 1] = f[k] \o ss[k + 1]
        BY <1>2, <3>2
      <4>2. f[k] \in Seq(S) /\ ss[k + 1] \in Seq(S) BY <1>1, <2>2, <4>1
      <4> QED BY <4>1, <4>2, ConcatProperties
    <3> QED BY <3>1, <3>2
  <2> HIDE DEF T
  <2> QED BY <2>1, <2>2, NaturalInduction
<1>4. \A i \in 1..Len(ss) : f[i] \in Seq(S) BY <1>3
<1> QED BY <1>4, FlattensSteps DEF Flattens

\* Such partial results exist.
LEMMA FlattensExists ==
    ASSUME NEW S, NEW ss \in Seq(Seq(S))
    PROVE  \E f : Flattens(f, ss)
<1>1. Len(ss) \in Nat BY LenProperties
<1> DEFINE Upto(f, k) ==
        f = [i \in 1..k |-> IF i = 1 THEN ss[i] ELSE f[i - 1] \o ss[i]]
    T == {k \in Nat : \E f : Upto(f, k)}
<1>2. Nat \subseteq T
  <2>1. 0 \in T
    <3> DEFINE f == [i \in 1..0 |-> 0]
    <3>1. Upto(f, 0) OBVIOUS
    <3> QED BY <3>1
  <2>2. ASSUME NEW k \in Nat, k \in T PROVE k + 1 \in T
    <3>1. PICK f : Upto(f, k) BY <2>2
    <3> DEFINE g == [i \in 1..(k + 1) |-> IF i = k + 1
                        THEN (IF i = 1 THEN ss[i] ELSE f[i - 1] \o ss[i]) ELSE f[i]]
    <3>2. ASSUME NEW i \in 1..(k + 1)
          PROVE  g[i] = IF i = 1 THEN ss[i] ELSE g[i - 1] \o ss[i]
      <4>1. CASE i = k + 1
        <5>1. k # 0 => g[k] = f[k] OBVIOUS
        <5> QED BY <4>1, <5>1
      <4>2. CASE i # k + 1
        <5>1. i \in 1..k /\ g[i] = f[i] BY <4>2
        <5>2. f[i] = IF i = 1 THEN ss[i] ELSE f[i - 1] \o ss[i] BY <3>1, <5>1
        <5>3. i # 1 => g[i - 1] = f[i - 1] BY <5>1
        <5> QED BY <5>1, <5>2, <5>3
      <4> QED BY <4>1, <4>2
    <3>3. Upto(g, k + 1) BY <3>2
    <3>4. \E h : Upto(h, k + 1)
      <4> HIDE DEF g
      <4> QED BY <3>3
    <3> HIDE DEF Upto
    <3> QED BY <3>4
  <2> HIDE DEF T
  <2> QED BY <2>1, <2>2, NaturalInduction
<1>3. PICK f : Upto(f, Len(ss)) BY <1>1, <1>2
<1> QED BY <1>3 DEF Flattens

\* FlattenSeq is the last of them.
LEMMA FlattenSeqIs ==
    ASSUME NEW S, NEW ss \in Seq(Seq(S)), ss # <<>>
    PROVE  \E f : Flattens(f, ss) /\ FlattenSeq(ss) = f[Len(ss)]
<1>1. Len(ss) # 0 BY EmptySeq
<1> DEFINE flatten == CHOOSE f : Flattens(f, ss)
<1>2. Flattens(flatten, ss) BY FlattensExists, Zenon
<1>3. FlattenSeq(ss) = flatten[Len(ss)]
  BY <1>1 DEF FlattenSeq, Flattens
<1> QED BY <1>2, <1>3

\* Nothing flattened is nothing; what is flattened consists of the same elements.
LEMMA FlattenType ==
    ASSUME NEW S, NEW ss \in Seq(Seq(S))
    PROVE  FlattenSeq(ss) \in Seq(S) /\ (ss = <<>> => FlattenSeq(ss) = <<>>)
<1>1. CASE ss = <<>>
  <2>1. FlattenSeq(ss) = <<>> BY <1>1, EmptySeq DEF FlattenSeq
  <2> QED BY <2>1, EmptySeq
<1>2. CASE ss # <<>>
  <2>1. PICK f : Flattens(f, ss) /\ FlattenSeq(ss) = f[Len(ss)]
    BY <1>2, FlattenSeqIs
  <2>2. Len(ss) \in 1..Len(ss) BY <1>2, EmptySeq, LenProperties
  <2>3. f \in [1..Len(ss) -> Seq(S)] BY <2>1, FlattensType
  <2> QED BY <1>2, <2>1, <2>2, <2>3
<1> QED BY <1>1, <1>2

\* One sequence flattened is itself.
LEMMA FlattenOne ==
    ASSUME NEW S, NEW s \in Seq(S)
    PROVE  FlattenSeq(<<s>>) = s
<1>1. <<s>> \in Seq(Seq(S)) /\ Len(<<s>>) = 1 /\ <<s>>[1] = s /\ <<s>> # <<>>
  OBVIOUS
<1>2. PICK f : Flattens(f, <<s>>) /\ FlattenSeq(<<s>>) = f[Len(<<s>>)]
  BY <1>1, FlattenSeqIs
<1>3. 1 \in 1..Len(<<s>>) => f[1] = <<s>>[1] BY <1>1, <1>2, FlattensSteps
<1> QED BY <1>1, <1>2, <1>3

\* Flattening goes through concatenation.
LEMMA FlattenConcat ==
    ASSUME NEW S, NEW ss \in Seq(Seq(S)), NEW tt \in Seq(Seq(S))
    PROVE  FlattenSeq(ss \o tt) = FlattenSeq(ss) \o FlattenSeq(tt)
<1> DEFINE st == ss \o tt
           m == Len(ss)
           n == Len(tt)
<1>1. m \in Nat /\ n \in Nat BY LenProperties
<1>2. /\ st \in Seq(Seq(S)) /\ Len(st) = m + n
      /\ \A i \in 1..m : st[i] = ss[i]
      /\ \A i \in 1..n : st[m + i] = tt[i]
  BY <1>1, ConcatProperties
<1>3. FlattenSeq(ss) \in Seq(S) /\ FlattenSeq(tt) \in Seq(S) BY FlattenType
<1>7. \A x, y, z \in Seq(S) : (x \o y) \o z = x \o (y \o z)
  BY ConcatAssociative
<1>4. CASE ss = <<>>
  <2>1. st = tt /\ FlattenSeq(ss) = <<>> BY <1>4, ConcatEmptySeq, FlattenType
  <2> QED BY <1>3, <2>1, ConcatEmptySeq
<1>5. CASE tt = <<>>
  <2>1. st = ss /\ FlattenSeq(tt) = <<>> BY <1>5, ConcatEmptySeq, FlattenType
  <2> QED BY <1>3, <2>1, ConcatEmptySeq
<1>6. CASE ss # <<>> /\ tt # <<>>
  <2>1. m # 0 /\ n # 0 BY <1>6, EmptySeq
  <2>2. st # <<>> BY <1>1, <1>2, <2>1, EmptySeq
  <2>3. PICK f : Flattens(f, ss) /\ FlattenSeq(ss) = f[m] BY <1>6, FlattenSeqIs
  <2>4. PICK g : Flattens(g, tt) /\ FlattenSeq(tt) = g[n] BY <1>6, FlattenSeqIs
  <2> HIDE DEF m, n, st
  <2>5. PICK h : Flattens(h, st) /\ FlattenSeq(st) = h[Len(st)]
    BY <1>2, <2>2, FlattenSeqIs
  <2>6. /\ f[1] = ss[1] /\ g[1] = tt[1] /\ h[1] = st[1]
        /\ \A k \in Nat : k + 1 \in 1..m /\ k # 0 => f[k + 1] = f[k] \o ss[k + 1]
        /\ \A k \in Nat : k + 1 \in 1..n /\ k # 0 => g[k + 1] = g[k] \o tt[k + 1]
        /\ \A k \in Nat : k + 1 \in 1..(m + n) /\ k # 0 => h[k + 1] = h[k] \o st[k + 1]
    <3>1. 1 \in 1..m /\ 1 \in 1..n /\ 1 \in 1..(m + n) BY <1>1, <2>1
    <3>2. /\ f[1] = ss[1]
          /\ \A k \in Nat : k + 1 \in 1..m /\ k # 0 => f[k + 1] = f[k] \o ss[k + 1]
      BY <2>3, <3>1, FlattensSteps DEF m
    <3>3. /\ g[1] = tt[1]
          /\ \A k \in Nat : k + 1 \in 1..n /\ k # 0 => g[k + 1] = g[k] \o tt[k + 1]
      BY <2>4, <3>1, FlattensSteps DEF n
    <3>4. /\ h[1] = st[1]
          /\ \A k \in Nat : k + 1 \in 1..(m + n) /\ k # 0 =>
                 h[k + 1] = h[k] \o st[k + 1]
      <4>0. st \in Seq(Seq(S)) /\ Flattens(h, st) BY <1>2, <2>5
      <4>1. 1 \in 1..Len(st) => h[1] = st[1] BY <4>0, FlattensSteps
      <4>2. \A k \in Nat : k + 1 \in 1..Len(st) /\ k # 0 =>
                   h[k + 1] = h[k] \o st[k + 1]
        BY <4>0, FlattensSteps
      <4> QED BY <1>2, <3>1, <4>1, <4>2
    <3> QED BY <3>2, <3>3, <3>4
  <2>7. \A k \in 1..m : f[k] \in Seq(S) BY <2>3, FlattensType DEF m
  <2>8. \A k \in 1..n : g[k] \in Seq(S) BY <2>4, FlattensType DEF n
  <2>9. \A k \in 1..n : tt[k] \in Seq(S) BY ElementOfSeq DEF n
  <2> DEFINE T == {k \in Nat : k \in 1..m => h[k] = f[k]}
             U == {k \in Nat : k \in 1..n => h[m + k] = f[m] \o g[k]}
  <2>10. Nat \subseteq T
    <3>1. 0 \in T OBVIOUS
    <3>2. ASSUME NEW k \in Nat, k \in T PROVE k + 1 \in T
      <4> SUFFICES ASSUME k + 1 \in 1..m PROVE h[k + 1] = f[k + 1]
        OBVIOUS
      <4>1. st[k + 1] = ss[k + 1] BY <1>2
      <4>2. CASE k = 0 BY <2>6, <4>1, <4>2
      <4>3. CASE k # 0
        <5>1. h[k] = f[k] BY <1>1, <3>2, <4>3
        <5>2. k + 1 \in 1..(m + n) BY <1>1
        <5>3. h[k + 1] = h[k] \o st[k + 1] /\ f[k + 1] = f[k] \o ss[k + 1]
          BY <2>6, <4>3, <5>2
        <5> QED BY <4>1, <5>1, <5>3
      <4> QED BY <4>2, <4>3
    <3> HIDE DEF T
    <3> QED BY <3>1, <3>2, NaturalInduction
  <2>11. h[m] = f[m] BY <1>1, <2>1, <2>10
  <2>12. Nat \subseteq U
    <3>1. 0 \in U OBVIOUS
    <3>2. ASSUME NEW k \in Nat, k \in U PROVE k + 1 \in U
      <4> SUFFICES ASSUME k + 1 \in 1..n PROVE h[m + (k + 1)] = f[m] \o g[k + 1]
        BY k + 1 \in Nat
      <4>1. st[m + (k + 1)] = tt[k + 1] BY <1>2
      <4>2. m + k \in Nat /\ m + k # 0 /\ (m + k) + 1 \in 1..(m + n)
        BY <1>1, <2>1
      <4>3. h[(m + k) + 1] = h[m + k] \o st[(m + k) + 1] BY <2>6, <4>2
      <4>4. (m + k) + 1 = m + (k + 1) BY <1>1
      <4>5. h[m + (k + 1)] = h[m + k] \o tt[k + 1] BY <4>1, <4>3, <4>4
      <4>6. CASE k = 0
        <5>1. m + k = m /\ k + 1 = 1 BY <1>1, <4>6
        <5> QED BY <2>6, <2>11, <4>5, <5>1
      <4>7. CASE k # 0
        <5>1. k \in 1..n BY <1>1, <4>7
        <5>2. h[m + k] = f[m] \o g[k] BY <3>2, <5>1
        <5>3. g[k + 1] = g[k] \o tt[k + 1] BY <2>6, <4>7
        <5>4. f[m] \in Seq(S) /\ g[k] \in Seq(S) /\ tt[k + 1] \in Seq(S)
          BY <1>1, <2>1, <2>7, <2>8, <2>9, <5>1
        <5>5. (f[m] \o g[k]) \o tt[k + 1] = f[m] \o (g[k] \o tt[k + 1])
          BY <1>7, <5>4
        <5> QED BY <4>5, <5>2, <5>3, <5>5
      <4> QED BY <4>6, <4>7
    <3> HIDE DEF U
    <3> QED BY <3>1, <3>2, NaturalInduction
  <2>13. n \in Nat /\ n \in 1..n BY <1>1, <2>1
  <2>14. h[m + n] = f[m] \o g[n]
    <3>1. n \in U BY <2>12, <2>13
    <3> QED BY <2>13, <3>1
  <2> QED BY <1>2, <2>3, <2>4, <2>5, <2>14 DEF st
<1> QED BY <1>4, <1>5, <1>6

\* How long the result is depends on the lengths of the parts only.
LEMMA FlattenLength ==
    ASSUME NEW S, NEW ss \in Seq(Seq(S)), NEW R, NEW tt \in Seq(Seq(R)),
           Len(ss) = Len(tt), \A i \in 1..Len(ss) : Len(ss[i]) = Len(tt[i])
    PROVE  Len(FlattenSeq(ss)) = Len(FlattenSeq(tt))
<1> DEFINE n == Len(ss)
<1>1. n \in Nat BY LenProperties
<1>2. CASE n = 0
  <2>1. ss = <<>> /\ tt = <<>> BY <1>2, EmptySeq
  <2> QED BY <2>1, FlattenType, EmptySeq
<1>3. CASE n # 0
  <2>1. ss # <<>> /\ tt # <<>> BY <1>3, EmptySeq
  <2>2. PICK f : Flattens(f, ss) /\ FlattenSeq(ss) = f[n] BY <2>1, FlattenSeqIs
  <2>3. PICK g : Flattens(g, tt) /\ FlattenSeq(tt) = g[n] BY <2>1, FlattenSeqIs
  <2>4. \A k \in 1..n : /\ f[k] \in Seq(S) /\ g[k] \in Seq(R)
                       /\ ss[k] \in Seq(S) /\ tt[k] \in Seq(R)
    <3>1. f \in [1..n -> Seq(S)] BY <2>2, FlattensType
    <3>2. g \in [1..n -> Seq(R)] BY <2>3, FlattensType
    <3> QED BY <3>1, <3>2, ElementOfSeq
  <2>5. 1 \in 1..n BY <1>1, <1>3
  <2>6. /\ f[1] = ss[1] /\ g[1] = tt[1]
        /\ \A k \in Nat : k + 1 \in 1..n /\ k # 0 => f[k + 1] = f[k] \o ss[k + 1]
        /\ \A k \in Nat : k + 1 \in 1..n /\ k # 0 => g[k + 1] = g[k] \o tt[k + 1]
    BY <2>2, <2>3, <2>5, FlattensSteps
  <2>7. \A k \in 1..n : Len(ss[k]) = Len(tt[k]) OBVIOUS
  <2> HIDE DEF n
  <2> DEFINE T == {k \in Nat : k \in 1..n => Len(f[k]) = Len(g[k])}
  <2>8. Nat \subseteq T
    <3>1. 0 \in T OBVIOUS
    <3>2. ASSUME NEW k \in Nat, k \in T PROVE k + 1 \in T
      <4> SUFFICES ASSUME k + 1 \in 1..n PROVE Len(f[k + 1]) = Len(g[k + 1])
        OBVIOUS
      <4>1. CASE k = 0 BY <2>5, <2>6, <2>7, <4>1
      <4>2. CASE k # 0
        <5>1. k \in 1..n /\ Len(f[k]) = Len(g[k]) BY <1>1, <3>2, <4>2
        <5>2. f[k + 1] = f[k] \o ss[k + 1] /\ g[k + 1] = g[k] \o tt[k + 1]
          BY <2>6, <4>2
        <5>3. /\ f[k] \in Seq(S) /\ g[k] \in Seq(R)
              /\ ss[k + 1] \in Seq(S) /\ tt[k + 1] \in Seq(R)
          BY <2>4, <5>1
        <5>4. /\ Len(f[k] \o ss[k + 1]) = Len(f[k]) + Len(ss[k + 1])
              /\ Len(g[k] \o tt[k + 1]) = Len(g[k]) + Len(tt[k + 1])
          BY <5>3, ConcatProperties
        <5> QED BY <2>7, <5>1, <5>2, <5>4
      <4> QED BY <4>1, <4>2
    <3> HIDE DEF T
    <3> QED BY <3>1, <3>2, NaturalInduction
  <2>9. n \in Nat /\ n \in 1..n BY <1>1, <1>3
  <2>10. n \in T BY <2>8, <2>9
  <2>11. Len(f[n]) = Len(g[n]) BY <2>9, <2>10
  <2> QED BY <2>2, <2>3, <2>11
<1> QED BY <1>2, <1>3

-----------------------------------------------------------------------------
\* Units: what is left of a buffer, of a queue and of an answer.

\* A stretch of k units x before others: its first m units, and the rest.
LEMMA Stretch ==
    ASSUME NEW S, NEW x \in S, NEW k \in Nat, NEW m \in 0..k, NEW rest \in Seq(S)
    PROVE  LET w == [j \in 1..k |-> x] \o rest
           IN  /\ w \in Seq(S) /\ Len(w) = k + Len(rest)
               /\ SubSeq(w, 1, m) = [j \in 1..m |-> x]
               /\ SubSeq(w, m + 1, Len(w)) = [j \in 1..(k - m) |-> x] \o rest
<1> DEFINE a == [j \in 1..k |-> x]
           b == [j \in 1..m |-> x]
           d == [j \in 1..(k - m) |-> x]
           w == a \o rest
<1>1. a \in Seq(S) /\ Len(a) = k BY FunctionIsSeq
<1>2. b \in Seq(S) /\ Len(b) = m BY FunctionIsSeq
<1>3. d \in Seq(S) /\ Len(d) = k - m BY FunctionIsSeq
<1>4. Len(rest) \in Nat BY LenProperties
<1>5. /\ w \in Seq(S) /\ Len(w) = k + Len(rest)
      /\ \A i \in 1..(k + Len(rest)) : w[i] = IF i <= k THEN a[i] ELSE rest[i - k]
  BY <1>1, ConcatProperties
<1>6. /\ d \o rest \in Seq(S) /\ Len(d \o rest) = (k - m) + Len(rest)
      /\ \A i \in 1..((k - m) + Len(rest)) :
             (d \o rest)[i] = IF i <= k - m THEN d[i] ELSE rest[i - (k - m)]
  BY <1>3, ConcatProperties
<1> HIDE DEF w
<1>7. SubSeq(w, 1, m) = b
  <2>1. \A i \in 1..m : w[i] = x
    <3> SUFFICES ASSUME NEW i \in 1..m PROVE w[i] = x OBVIOUS
    <3>1. i \in 1..(k + Len(rest)) /\ i <= k /\ i \in 1..k BY <1>4
    <3> QED BY <1>5, <3>1
  <2>2. /\ SubSeq(w, 1, m) \in Seq(S) /\ Len(SubSeq(w, 1, m)) = m
        /\ \A i \in 1..m : SubSeq(w, 1, m)[i] = w[i]
    <3>1. \A i \in 1..m : w[i] \in S BY <2>1
    <3>2. SubSeq(w, 1, m) = [i \in 1..m |-> w[i]] BY <1>4, <1>5, SubSeqProperties
    <3> QED BY <3>1, <3>2, FunctionIsSeq
  <2>3. \A i \in 1..m : SubSeq(w, 1, m)[i] = b[i] BY <2>1, <2>2
  <2> QED BY <1>2, <2>2, <2>3, SeqEqual
<1>8. SubSeq(w, m + 1, Len(w)) = d \o rest
  <2> DEFINE n == (k - m) + Len(rest)
             t == SubSeq(w, m + 1, Len(w))
             u == d \o rest
  <2>1. n \in Nat /\ Len(w) = m + n BY <1>4, <1>5
  <2>2. t \in Seq(S) /\ Len(t) = n /\ \A i \in 1..n : t[i] = w[m + i]
    <3>1. \A i \in (m + 1)..Len(w) : w[i] \in S BY <1>5, ElementOfSeq
    <3> QED BY <1>5, <2>1, <3>1, SubSeqProperties
  <2>3. \A i \in 1..n : w[m + i] = u[i]
    <3> SUFFICES ASSUME NEW i \in 1..n PROVE w[m + i] = u[i] OBVIOUS
    <3>1. m + i \in 1..(k + Len(rest)) BY <1>4
    <3>2. CASE i <= k - m
      <4>1. m + i <= k /\ m + i \in 1..k /\ i \in 1..(k - m) BY <3>2
      <4>2. w[m + i] = x BY <1>5, <3>1, <4>1
      <4>3. u[i] = x BY <1>6, <3>2, <4>1
      <4> QED BY <4>2, <4>3
    <3>3. CASE ~(i <= k - m)
      <4>1. ~(m + i <= k) BY <3>3
      <4>2. (m + i) - k = i - (k - m) OBVIOUS
      <4>3. w[m + i] = rest[(m + i) - k] BY <1>5, <3>1, <4>1
      <4>4. u[i] = rest[i - (k - m)] BY <1>6, <3>3
      <4> QED BY <4>2, <4>3, <4>4
    <3> QED BY <3>2, <3>3
  <2>4. u \in Seq(S) /\ Len(u) = n BY <1>6
  <2> HIDE DEF n, t, u
  <2>5. t = u BY <2>2, <2>3, <2>4, SeqEqual
  <2> QED BY <2>5 DEF t, u
<1> QED BY <1>5, <1>7, <1>8 DEF w

\* The units of the buffers, one sequence for each.
LEMMA UnitsType ==
    ASSUME NEW s \in Seq(Buffer)
    PROVE  /\ Units(s) \in Seq(Seq(Nat)) /\ Len(Units(s)) = Len(s)
           /\ \A i \in 1..Len(s) : Units(s)[i] = [j \in 1..s[i].left |-> s[i].req]
           /\ UnitsIn(s) \in Seq(Nat)
<1>1. Len(s) \in Nat /\ \A i \in 1..Len(s) : s[i] \in Buffer
  BY LenProperties, ElementOfSeq
<1>2. \A i \in 1..Len(s) : [j \in 1..s[i].left |-> s[i].req] \in Seq(Nat)
  <2> SUFFICES ASSUME NEW i \in 1..Len(s)
               PROVE  [j \in 1..s[i].left |-> s[i].req] \in Seq(Nat)
    OBVIOUS
  <2>1. s[i].left \in Nat /\ s[i].req \in Nat BY <1>1 DEF Buffer
  <2> QED BY <2>1, FunctionIsSeq
<1>3. Units(s) \in [1..Len(s) -> Seq(Nat)] BY <1>2 DEF Units
<1>4. Units(s) \in Seq(Seq(Nat)) /\ Len(Units(s)) = Len(s)
  BY <1>1, <1>3, FunctionIsSeq
<1>5. UnitsIn(s) \in Seq(Nat) BY <1>4, FlattenType DEF UnitsIn
<1> QED BY <1>4, <1>5 DEF Units

\* Buffers that follow others have their units after theirs.
LEMMA UnitsConcat ==
    ASSUME NEW s \in Seq(Buffer), NEW t \in Seq(Buffer)
    PROVE  UnitsIn(s \o t) = UnitsIn(s) \o UnitsIn(t)
<1> DEFINE st == s \o t
           u == Units(s) \o Units(t)
<1>1. Len(s) \in Nat /\ Len(t) \in Nat BY LenProperties
<1>2. /\ st \in Seq(Buffer) /\ Len(st) = Len(s) + Len(t)
      /\ \A i \in 1..(Len(s) + Len(t)) :
             st[i] = IF i <= Len(s) THEN s[i] ELSE t[i - Len(s)]
  BY ConcatProperties
<1>3. /\ Units(s) \in Seq(Seq(Nat)) /\ Len(Units(s)) = Len(s)
      /\ Units(t) \in Seq(Seq(Nat)) /\ Len(Units(t)) = Len(t)
  BY UnitsType
<1>4. /\ u \in Seq(Seq(Nat)) /\ Len(u) = Len(s) + Len(t)
      /\ \A i \in 1..(Len(s) + Len(t)) :
             u[i] = IF i <= Len(s) THEN Units(s)[i] ELSE Units(t)[i - Len(s)]
  <2> DEFINE a == Units(s)
             b == Units(t)
  <2>1. a \in Seq(Seq(Nat)) /\ b \in Seq(Seq(Nat)) BY <1>3
  <2> HIDE DEF a, b
  <2>2. /\ a \o b \in Seq(Seq(Nat)) /\ Len(a \o b) = Len(a) + Len(b)
        /\ \A i \in 1..(Len(a) + Len(b)) :
               (a \o b)[i] = IF i <= Len(a) THEN a[i] ELSE b[i - Len(a)]
    BY <2>1, ConcatProperties
  <2>3. u = a \o b BY DEF a, b
  <2>4. Len(a) = Len(s) /\ Len(b) = Len(t) BY <1>3 DEF a, b
  <2>5. /\ u \in Seq(Seq(Nat)) /\ Len(u) = Len(s) + Len(t)
        /\ \A i \in 1..(Len(s) + Len(t)) :
               u[i] = IF i <= Len(s) THEN a[i] ELSE b[i - Len(s)]
    <3> HIDE DEF u
    <3> QED BY <2>2, <2>3, <2>4
  <2> QED BY <2>5 DEF a, b
<1> HIDE DEF st, u
<1>5. Units(st) \in Seq(Seq(Nat)) /\ Len(Units(st)) = Len(s) + Len(t)
  BY <1>2, UnitsType
<1>6. \A i \in 1..(Len(s) + Len(t)) : Units(st)[i] = u[i]
  <2> SUFFICES ASSUME NEW i \in 1..(Len(s) + Len(t)) PROVE Units(st)[i] = u[i]
    OBVIOUS
  <2>1. Units(st)[i] = [j \in 1..st[i].left |-> st[i].req] BY <1>2, UnitsType
  <2>2. CASE i <= Len(s)
    <3>1. i \in 1..Len(s) BY <1>1, <2>2
    <3>2. Units(s)[i] = [j \in 1..s[i].left |-> s[i].req] BY <3>1, UnitsType
    <3> QED BY <1>2, <1>4, <2>1, <2>2, <3>2
  <2>3. CASE ~(i <= Len(s))
    <3> DEFINE k == i - Len(s)
    <3>1. k \in 1..Len(t) BY <1>1, <2>3
    <3>2. st[i] = t[k] /\ u[i] = Units(t)[k] BY <1>2, <1>4, <2>3
    <3> HIDE DEF k
    <3>3. Units(t)[k] = [j \in 1..t[k].left |-> t[k].req] BY <3>1, UnitsType
    <3> QED BY <2>1, <3>2, <3>3
  <2> QED BY <2>2, <2>3
<1>7. Units(st) = u BY <1>4, <1>5, <1>6, SeqEqual
<1>8. FlattenSeq(u) = FlattenSeq(Units(s)) \o FlattenSeq(Units(t))
  BY <1>3, FlattenConcat DEF u
<1> QED BY <1>7, <1>8 DEF UnitsIn, st

\* The units of a queue that has any begin with those of its front buffer.
LEMMA UnitsFront ==
    ASSUME NEW s \in Seq(Buffer), s # <<>>
    PROVE  /\ Head(s) \in Buffer /\ Tail(s) \in Seq(Buffer)
           /\ UnitsIn(s) =
                  [j \in 1..Head(s).left |-> Head(s).req] \o UnitsIn(Tail(s))
<1>1. Head(s) \in Buffer /\ Tail(s) \in Seq(Buffer) BY HeadTailProperties
<1> DEFINE one == <<Head(s)>>
           f == [j \in 1..Head(s).left |-> Head(s).req]
<1>2. one \in Seq(Buffer) /\ Len(one) = 1 /\ one[1] = Head(s) BY <1>1
<1>3. s = one \o Tail(s)
  <2>1. one \o Tail(s) \in Seq(Buffer) /\ Len(one \o Tail(s)) = 1 + Len(Tail(s))
    BY <1>1, <1>2, ConcatProperties
  <2> QED BY <1>1, <1>2, <2>1
<1>4. UnitsIn(one) = f
  <2>2. Head(s).left \in Nat /\ Head(s).req \in Nat BY <1>1 DEF Buffer
  <2>3. f \in Seq(Nat) BY <2>2, FunctionIsSeq
  <2>4. /\ Units(one) \in Seq(Seq(Nat)) /\ Len(Units(one)) = 1
        /\ 1 \in 1..Len(one)
        /\ Units(one)[1] = [j \in 1..one[1].left |-> one[1].req]
    <3> HIDE DEF one, f
    <3>1. /\ Units(one) \in Seq(Seq(Nat)) /\ Len(Units(one)) = Len(one)
          /\ \A i \in 1..Len(one) :
                 Units(one)[i] = [j \in 1..one[i].left |-> one[i].req]
      BY <1>2, UnitsType
    <3>2. Len(one) = 1 /\ 1 \in 1..Len(one) BY <1>2
    <3> QED BY <3>1, <3>2
  <2>5. Units(one)[1] = f BY <1>2, <2>4
  <2> HIDE DEF f
  <2>1. Units(one) = <<f>>
    <3> DEFINE u == Units(one)
    <3>1. u \in Seq(Seq(Nat)) /\ Len(u) = 1 /\ u[1] = f BY <2>4, <2>5
    <3> HIDE DEF u
    <3>2. u = <<f>> BY <2>3, <3>1
    <3> QED BY <3>2 DEF u
  <2> QED BY <2>1, <2>3, FlattenOne DEF UnitsIn
<1>5. UnitsIn(one \o Tail(s)) = UnitsIn(one) \o UnitsIn(Tail(s))
  BY <1>1, <1>2, UnitsConcat
<1> QED BY <1>1, <1>3, <1>4, <1>5

\* No buffers have no units, and any have some.
LEMMA UnitsEmpty ==
    ASSUME NEW s \in Seq(Buffer)
    PROVE  UnitsIn(s) = <<>> <=> s = <<>>
<1>1. CASE s = <<>>
  <2>1. Units(s) = <<>> /\ Units(s) \in Seq(Seq(Nat)) BY <1>1, UnitsType, EmptySeq
  <2> QED BY <1>1, <2>1, FlattenType DEF UnitsIn
<1>2. CASE s # <<>>
  <2> DEFINE f == [j \in 1..Head(s).left |-> Head(s).req]
             rest == UnitsIn(Tail(s))
  <2>1. /\ Head(s) \in Buffer /\ Tail(s) \in Seq(Buffer)
        /\ UnitsIn(s) = f \o rest
    BY <1>2, UnitsFront
  <2>2. Head(s).left \in Nat \ {0} /\ Head(s).req \in Nat BY <2>1 DEF Buffer
  <2>3. f \in Seq(Nat) /\ Len(f) = Head(s).left BY <2>2, FunctionIsSeq
  <2>4. rest \in Seq(Nat) BY <2>1, UnitsType
  <2> HIDE DEF f, rest
  <2>5. Len(f \o rest) = Len(f) + Len(rest) /\ Len(rest) \in Nat
    BY <2>3, <2>4, ConcatProperties, LenProperties
  <2>6. Len(UnitsIn(s)) # 0 BY <2>1, <2>2, <2>3, <2>5
  <2> QED BY <1>2, <2>6, EmptySeq
<1> QED BY <1>1, <1>2

\* Buffers that agree on what is left of which answer hold the same units.
LEMMA UnitsSame ==
    ASSUME NEW s \in Seq(Buffer), NEW t \in Seq(Buffer), Len(s) = Len(t),
           \A i \in 1..Len(s) : s[i].left = t[i].left /\ s[i].req = t[i].req
    PROVE  UnitsIn(s) = UnitsIn(t)
<1>1. Units(s) = Units(t) BY DEF Units
<1> QED BY <1>1 DEF UnitsIn

\* With another front buffer, the rest of the units stay.
LEMMA UnitsReplaced ==
    ASSUME NEW q \in Item, HasBuffers(q), NEW b \in Buffer
    PROVE  /\ ReplaceFront(q, b).keep = q.keep
           /\ UnitsIn(ReplaceFront(q, b).buffers) =
                  [j \in 1..b.left |-> b.req] \o UnitsIn(Tail(q.buffers))
<1> DEFINE s == q.buffers
           t == ReplaceFront(q, b).buffers
<1>1. s \in Seq(Buffer) /\ s # <<>> /\ Len(s) \in Nat \ {0}
  BY FrontBufferType DEF Item, HasBuffers
<1>2. t = [s EXCEPT ![1] = b] /\ ReplaceFront(q, b).keep = q.keep
  BY DEF ReplaceFront, Item
<1>3. t \in Seq(Buffer) /\ Len(t) = Len(s)
  <2>1. s \in [1..Len(s) -> Buffer] BY <1>1, LenProperties
  <2>2. t \in [1..Len(s) -> Buffer] BY <1>2, <2>1
  <2> QED BY <1>1, <2>2, FunctionIsSeq
<1>4. t[1] = b /\ \A i \in 2..Len(s) : t[i] = s[i]
  <2>1. s \in [1..Len(s) -> Buffer] BY <1>1, LenProperties
  <2> QED BY <1>1, <1>2, <2>1
<1> HIDE DEF s, t
<1>5. t # <<>> BY <1>1, <1>3, EmptySeq
<1>6. Head(t) = b BY <1>3, <1>4, <1>5, HeadTailProperties
<1>7. Tail(t) = Tail(s)
  <2>1. /\ Tail(s) \in Seq(Buffer) /\ Len(Tail(s)) = Len(s) - 1
        /\ \A i \in 1..Len(Tail(s)) : Tail(s)[i] = s[i + 1]
    BY <1>1, HeadTailProperties
  <2>2. /\ Tail(t) \in Seq(Buffer) /\ Len(Tail(t)) = Len(t) - 1
        /\ \A i \in 1..Len(Tail(t)) : Tail(t)[i] = t[i + 1]
    BY <1>3, <1>5, HeadTailProperties
  <2> DEFINE m == Len(Tail(s))
             a == Tail(s)
             d == Tail(t)
  <2>3. m \in Nat /\ m + 1 = Len(s) /\ Len(Tail(t)) = m BY <1>1, <1>3, <2>1, <2>2
  <2> HIDE DEF m
  <2>4. ASSUME NEW i \in 1..m PROVE d[i] = a[i]
    <3>1. i + 1 \in 2..Len(s) BY <2>3
    <3> QED BY <1>4, <2>1, <2>2, <2>3, <3>1 DEF m
  <2>5. a \in Seq(Buffer) /\ d \in Seq(Buffer) /\ Len(a) = m /\ Len(d) = m
    BY <2>1, <2>2, <2>3 DEF m
  <2> HIDE DEF a, d
  <2>6. a = d BY <2>4, <2>5, SeqEqual
  <2> QED BY <2>6 DEF a, d
<1>8. UnitsIn(t) = [j \in 1..Head(t).left |-> Head(t).req] \o UnitsIn(Tail(t))
  BY <1>3, <1>5, UnitsFront
<1> QED BY <1>2, <1>6, <1>7, <1>8 DEF s, t

\* An answer holds its number as often as it has units.
LEMMA AnswerUnits ==
    ASSUME TypeOK, NEW c \in Conns, NEW r \in Responses
    PROVE  /\ Size(r) \in Nat
           /\ UnitsIn(AnswerItem(c, r).buffers) =
                  [j \in 1..Size(r) |-> Len(answers[c]) + 1]
<1> DEFINE k == Len(answers[c]) + 1
           n == Len(r.buffers)
           s == AnswerItem(c, r).buffers
           u == Units(s)
           t == [i \in 1..n |-> [j \in 1..r.buffers[i].size |-> i]]
<1>1. /\ n \in Nat /\ k \in Nat
      /\ \A i \in 1..n : r.buffers[i].size \in Nat \ {0}
  <2>1. answers[c] \in Seq(Responses) BY DEF TypeOK
  <2>2. r.buffers \in Seq(Part) BY ResponsesAssumption DEF Response
  <2>3. \A i \in 1..n : r.buffers[i] \in Part BY <2>2, ElementOfSeq
  <2> QED BY <2>1, <2>2, <2>3, LenProperties DEF Part
<1>2. /\ s \in Seq(Buffer) /\ Len(s) = n
      /\ \A i \in 1..n : s[i].left = r.buffers[i].size /\ s[i].req = k
  <2>1. AnswerItem(c, r) \in Item BY AnswerItemType
  <2>2. s \in Seq(Buffer) BY <2>1 DEF Item
  <2>3. s = [i \in 1..n |->
               [type |-> r.buffers[i].type, req |-> k, size |-> r.buffers[i].size,
                left |-> r.buffers[i].size, ready |-> FALSE]]
    BY DEF AnswerItem
  <2>4. Len(s) = n /\ DOMAIN s = 1..n BY <1>1, <2>2, <2>3, LenProperties
  <2>5. \A i \in 1..n : s[i].left = r.buffers[i].size /\ s[i].req = k
    <3> HIDE DEF n, k, s
    <3> QED BY <2>3
  <2> QED BY <2>2, <2>4, <2>5
<1> HIDE DEF n, k, s
<1>3. /\ Len(u) = n
      /\ \A i \in 1..n : u[i] = [j \in 1..s[i].left |-> s[i].req]
  BY <1>2, UnitsType
<1>4. \A i \in 1..n : u[i] = [j \in 1..r.buffers[i].size |-> k]
  BY <1>2, <1>3
<1>5. \A i \in 1..n : u[i] \in Seq({k}) /\ Len(u[i]) = r.buffers[i].size
  <2> SUFFICES ASSUME NEW i \in 1..n
               PROVE  u[i] \in Seq({k}) /\ Len(u[i]) = r.buffers[i].size
    OBVIOUS
  <2> DEFINE z == r.buffers[i].size
             v == [j \in 1..z |-> k]
  <2>1. z \in Nat BY <1>1
  <2>2. v \in [1..z -> {k}] OBVIOUS
  <2> HIDE DEF z
  <2>3. v \in Seq({k}) /\ Len(v) = z BY <2>1, <2>2, FunctionIsSeq
  <2> QED BY <1>4, <2>3 DEF z
<1>6. u \in Seq(Seq({k}))
  <2>1. u \in [1..n -> Seq({k})] BY <1>2, <1>5 DEF Units
  <2> HIDE DEF u
  <2> QED BY <1>1, <2>1, FunctionIsSeq
<1>7. /\ t \in Seq(Seq(Nat)) /\ Len(t) = n
      /\ \A i \in 1..n : Len(t[i]) = r.buffers[i].size
  <2>1. \A i \in 1..n : t[i] \in Seq(Nat) /\ Len(t[i]) = r.buffers[i].size
    <3> SUFFICES ASSUME NEW i \in 1..n
                 PROVE  t[i] \in Seq(Nat) /\ Len(t[i]) = r.buffers[i].size
      OBVIOUS
    <3> DEFINE z == r.buffers[i].size
               v == [j \in 1..z |-> i]
    <3>1. z \in Nat BY <1>1
    <3>2. v \in [1..z -> Nat] BY <1>1
    <3> HIDE DEF z
    <3>3. v \in Seq(Nat) /\ Len(v) = z BY <3>1, <3>2, FunctionIsSeq
    <3> QED BY <3>3 DEF z
  <2>2. t \in [1..n -> Seq(Nat)] BY <2>1
  <2> QED BY <1>1, <2>1, <2>2, FunctionIsSeq
<1>8. Size(r) = Len(FlattenSeq(t)) BY DEF Size, n
<1> HIDE DEF u, t
<1>9. Len(FlattenSeq(u)) = Len(FlattenSeq(t))
  <2>1. Len(u) = Len(t) /\ \A i \in 1..Len(u) : Len(u[i]) = Len(t[i])
    BY <1>3, <1>5, <1>7
  <2> QED BY <1>6, <1>7, <2>1, FlattenLength
<1>10. FlattenSeq(u) \in Seq({k}) BY <1>6, FlattenType
<1>11. Size(r) \in Nat BY <1>8, <1>9, <1>10, LenProperties
<1>12. FlattenSeq(u) = [j \in 1..Size(r) |-> k]
  <2> DEFINE f == FlattenSeq(u)
             z == Size(r)
             v == [j \in 1..z |-> k]
  <2>1. f \in Seq({k}) /\ Len(f) = z BY <1>8, <1>9, <1>10
  <2>2. v \in [1..z -> {k}] OBVIOUS
  <2>3. z \in Nat BY <1>11
  <2> HIDE DEF f, z
  <2>4. v \in Seq({k}) /\ Len(v) = z BY <2>2, <2>3, FunctionIsSeq
  <2>5. \A i \in 1..z : f[i] = v[i] BY <2>1, ElementOfSeq
  <2>6. f = v BY <2>1, <2>4, <2>5, SeqEqual
  <2> QED BY <2>6 DEF f, z
<1> QED BY <1>11, <1>12 DEF UnitsIn, u, k, s

-----------------------------------------------------------------------------
\* The invariant the refinement needs.

\* A complete request that is still unread is one the peer has no answer to,
\* and a connection nobody opened has no peer.
Counted(c) ==
    /\ asked[c] <= MaxRequests /\ Len(answers[c]) <= asked[c]
    /\ "final" \in inbuf[c] => Len(answers[c]) < asked[c]
    /\ chan[c] = "none" => peer[c] = "none"

StreamInv == /\ WishInv /\ (Polite => PoliteInv)
             /\ \A c \in Conns : Counted(c)

LEMMA StreamInit == Init => StreamInv
<1> SUFFICES ASSUME Init PROVE StreamInv
  OBVIOUS
<1>1. \A c \in Conns : Counted(c)
  BY EmptySeq, ConstantsAssumption DEF Init, Counted
<1> QED BY <1>1, WishInit, PoliteInit DEF StreamInv

LEMMA StreamTypes == StreamInv => TypeOK /\ LoopInv /\ WaitInv
BY DEF StreamInv, WishInv, WaitInv, WakeInv, LoopInv

\* Requests that are lost, and peers that come, change nothing of it.
LEMMA StaysCounted ==
    ASSUME NEW c \in Conns, Counted(c), asked'[c] = asked[c],
           answers'[c] = answers[c], inbuf'[c] \subseteq inbuf[c],
           peer'[c] = peer[c] \/ peer[c] # "none",
           chan'[c] = "none" => chan[c] = "none"
    PROVE  Counted(c)'
BY DEF Counted

LEMMA CountedEnvironment ==
    ASSUME StreamInv, Environment PROVE \A d \in Conns : Counted(d)'
<1> DEFINE Goal == \A d \in Conns : Counted(d)'
<1>1. TypeOK /\ \A d \in Conns : Counted(d) BY StreamTypes DEF StreamInv
<1>2. ASSUME UNCHANGED <<chan, peer, inbuf, asked, answers>> PROVE Goal
  BY <1>1, <1>2, StaysCounted
<1>3. ASSUME NEW c \in Conns, Connect(c) PROVE Goal
  <2>1. /\ chan' = [chan EXCEPT ![c] = "backlog"] /\ peer' = [peer EXCEPT ![c] = "up"]
        /\ UNCHANGED <<inbuf, asked, answers>>
    BY <1>3 DEF Connect, server
  <2> SUFFICES ASSUME NEW d \in Conns PROVE Counted(d)'
    OBVIOUS
  <2>2. CASE d = c BY <1>1, <2>1, <2>2 DEF Counted, TypeOK
  <2>3. CASE d # c
    <3>1. chan'[d] = chan[d] /\ peer'[d] = peer[d] BY <1>1, <2>1, <2>3 DEF TypeOK
    <3> QED BY <1>1, <2>1, <3>1, StaysCounted
  <2> QED BY <2>2, <2>3
<1>4. ASSUME NEW c \in Conns, NEW piece \in {"part", "final"}, Send(c, piece)
      PROVE  Goal
  <2>1. /\ inbuf' = [inbuf EXCEPT ![c] = @ \cup {piece}]
        /\ asked' = [asked EXCEPT ![c] = IF piece = "final" THEN @ + 1 ELSE @]
        /\ asked[c] < MaxRequests /\ UNCHANGED <<chan, peer, answers>>
    BY <1>4 DEF Send, server
  <2> SUFFICES ASSUME NEW d \in Conns PROVE Counted(d)'
    OBVIOUS
  <2>2. CASE d = c
    <3>1. asked[c] \in Nat /\ Len(answers[c]) \in Nat
      BY <1>1, LenProperties DEF TypeOK
    <3>2. /\ asked'[c] = IF piece = "final" THEN asked[c] + 1 ELSE asked[c]
          /\ inbuf'[c] = inbuf[c] \cup {piece} /\ Counted(c)
      BY <1>1, <2>1 DEF TypeOK
    <3>3. CASE piece = "final"
      <4>1. asked'[c] = asked[c] + 1 BY <3>2, <3>3
      <4>2. /\ asked'[c] <= MaxRequests /\ Len(answers[c]) < asked'[c]
            /\ Len(answers[c]) <= asked'[c]
        BY <2>1, <3>1, <3>2, <4>1, ConstantsAssumption DEF Counted
      <4> QED BY <2>1, <2>2, <3>2, <4>2 DEF Counted
    <3>4. CASE piece # "final"
      <4>1. asked'[c] = asked[c] /\ ("final" \in inbuf'[c] => "final" \in inbuf[c])
        BY <3>2, <3>4
      <4> QED BY <2>1, <2>2, <3>2, <4>1 DEF Counted
    <3> QED BY <3>3, <3>4
  <2>3. CASE d # c
    <3>1. inbuf'[d] = inbuf[d] /\ asked'[d] = asked[d]
      BY <1>1, <2>1, <2>3 DEF TypeOK
    <3> QED BY <1>1, <2>1, <3>1, StaysCounted
  <2> QED BY <2>2, <2>3
<1>5. ASSUME NEW c \in Conns, NEW how \in {"fin", "reset"}, Leave(c, how)
      PROVE  Goal
  <2>1. /\ peer' = [peer EXCEPT ![c] = how] /\ peer[c] # "none"
        /\ inbuf' \in {inbuf, [inbuf EXCEPT ![c] = {}]}
        /\ UNCHANGED <<chan, asked, answers>>
    BY <1>5 DEF Leave, server
  <2> SUFFICES ASSUME NEW d \in Conns PROVE Counted(d)'
    OBVIOUS
  <2>2. inbuf'[d] \subseteq inbuf[d] BY <1>1, <2>1 DEF TypeOK
  <2>3. peer'[d] = peer[d] \/ peer[d] # "none" BY <1>1, <2>1 DEF TypeOK
  <2> QED BY <1>1, <2>1, <2>2, <2>3, StaysCounted
<1>6. ASSUME NEW c \in Conns, Receive(c) PROVE Goal
  BY <1>2, <1>6 DEF Receive, server
<1>7. ASSUME NEW c \in Conns, NEW i \in 1..Len(queue[c].buffers), Complete(c, i)
      PROVE  Goal
  BY <1>2, <1>7 DEF Complete
<1>8. CASE JoinOne BY <1>2, <1>8 DEF JoinOne, server
<1> QED BY <1>3, <1>4, <1>5, <1>6, <1>7, <1>8 DEF Environment

\* What a handler of c's event leaves alone: the peers always, all of the other
\* connections, and, but for an answer, the count of what was answered.
LEMMA HandleKeeps ==
    ASSUME TypeOK, NEW c \in Conns, Handle(c)
    PROVE  /\ UNCHANGED <<peer, asked>>
           /\ \/ UNCHANGED answers /\ \A d \in Conns : inbuf'[d] \subseteq inbuf[d]
              \/ \E r \in Responses : ReadRequest(c, r)
<1> DEFINE Left == UNCHANGED <<peer, asked, answers>>
                   /\ \A d \in Conns : inbuf'[d] \subseteq inbuf[d]
<1>1. ASSUME UNCHANGED <<peer, asked, answers, inbuf>> PROVE Left BY <1>1
<1>2. ASSUME RemoveChannel(c) PROVE Left BY <1>2 DEF RemoveChannel, TypeOK
<1>3. CASE TerminateEvent(c) \/ ReadClosed(c) \/ WriteFails(c) \/ DrainAndClose(c)
  BY <1>2, <1>3 DEF TerminateEvent, ReadClosed, WriteFails, DrainAndClose
<1>4. CASE ReadPart(c) BY <1>4 DEF ReadPart, LeftUnread, TypeOK
<1>5. CASE WriteEvent(c) \/ WriteAfterRemove(c) \/ BarrierClosed(c) \/ BarrierOpen(c)
           \/ DoItYourself(c) \/ NothingToWrite(c) \/ Rearm(c)
  BY <1>1, <1>5 DEF WriteEvent, WriteAfterRemove, BarrierClosed, BarrierOpen,
     DoItYourself, NothingToWrite, Rearm
<1>6. CASE FillNothing(c) \/ FillAll(c) \/ DrainAndKeep(c)
  BY <1>1, <1>6 DEF FillNothing, FillAll, DrainAndKeep
<1>7. ASSUME NEW n \in 1..Room, FillPart(c, n) PROVE Left
  BY <1>1, <1>7 DEF FillPart
<1>8. ASSUME NEW r \in Responses, ReadRequest(c, r) PROVE UNCHANGED <<peer, asked>>
  BY <1>8 DEF ReadRequest
<1> QED BY <1>3, <1>4, <1>5, <1>6, <1>7, <1>8 DEF Handle

LEMMA CountedHandle ==
    ASSUME StreamInv, NEW c \in Conns, Handle(c)
    PROVE  \A d \in Conns : Counted(d)'
<1>1. TypeOK /\ \A d \in Conns : Counted(d) BY StreamTypes DEF StreamInv
<1>2. UNCHANGED <<peer, asked>> BY <1>1, HandleKeeps
<1>3. \A d \in Conns : chan'[d] = "none" => chan[d] = "none"
  <2>1. \A d \in Conns : d # c => chan'[d] = chan[d]
    BY <1>1, HandleLocal DEF Untouched
  <2>2. LoopInv' /\ cur = c BY StreamTypes, LoopHandle, <1>1, HandleLocal
  <2>3. chan'[c] \in {chan[c], "removed"}
    <3>1. ASSUME RemoveChannel(c) PROVE chan'[c] = "removed"
      BY <1>1, <3>1 DEF RemoveChannel, TypeOK
    <3>2. RemoveChannel(c) \/ UNCHANGED chan
      BY DEF Handle, TerminateEvent, ReadClosed, ReadPart, ReadRequest, WriteEvent,
         WriteAfterRemove, BarrierClosed, BarrierOpen, DoItYourself, WriteFails,
         FillNothing, FillPart, FillAll, DrainAndKeep, DrainAndClose,
         NothingToWrite, Rearm
    <3> QED BY <3>1, <3>2
  <2> QED BY <2>1, <2>3
<1>4. ASSUME UNCHANGED answers, \A d \in Conns : inbuf'[d] \subseteq inbuf[d]
      PROVE  \A d \in Conns : Counted(d)'
  BY <1>1, <1>2, <1>3, <1>4, StaysCounted
<1>5. ASSUME NEW r \in Responses, ReadRequest(c, r)
      PROVE  \A d \in Conns : Counted(d)'
  <2>1. /\ inbuf' = [inbuf EXCEPT ![c] = {}] /\ "final" \in inbuf[c]
        /\ answers' = [answers EXCEPT ![c] = Append(@, r)] /\ UNCHANGED chan
    BY <1>5 DEF ReadRequest, LeftUnread
  <2> SUFFICES ASSUME NEW d \in Conns PROVE Counted(d)'
    OBVIOUS
  <2>2. CASE d = c
    <3>1. answers[c] \in Seq(Responses) /\ asked[c] \in Nat BY <1>1 DEF TypeOK
    <3>2. Len(answers'[c]) = Len(answers[c]) + 1 /\ Len(answers[c]) \in Nat
      BY <1>1, <2>1, <3>1, AppendProperties, LenProperties DEF TypeOK
    <3>3. inbuf'[c] = {} BY <1>1, <2>1 DEF TypeOK
    <3>4. Len(answers[c]) < asked[c] BY <1>1, <2>1 DEF Counted
    <3>5. Len(answers'[c]) <= asked'[c] BY <1>2, <3>1, <3>2, <3>4
    <3> QED BY <1>1, <1>2, <2>1, <2>2, <3>3, <3>5 DEF Counted
  <2>3. CASE d # c
    <3>1. inbuf'[d] = inbuf[d] /\ answers'[d] = answers[d]
      BY <1>1, <2>1, <2>3 DEF TypeOK
    <3> QED BY <1>1, <1>2, <2>1, <3>1, StaysCounted
  <2> QED BY <2>2, <2>3
<1> QED BY <1>1, <1>4, <1>5, HandleKeeps

LEMMA StreamStep == StreamInv /\ [Next]_vars => StreamInv'
<1> SUFFICES ASSUME StreamInv, [Next]_vars PROVE StreamInv'
  OBVIOUS
<1>1. WishInv' BY WishStep DEF StreamInv
<1>2. Polite => PoliteInv' BY PoliteStep, StreamTypes DEF StreamInv
<1>3. \A c \in Conns : Counted(c)'
  <2>0. TypeOK /\ \A c \in Conns : Counted(c) BY StreamTypes DEF StreamInv
  <2>1. ASSUME UNCHANGED <<peer, inbuf, asked, answers>>,
               \A c \in Conns : chan'[c] = "none" => chan[c] = "none"
        PROVE  \A c \in Conns : Counted(c)'
    BY <2>0, <2>1, StaysCounted
  <2>2. CASE UNCHANGED vars BY <2>1, <2>2 DEF vars
  <2>3. CASE Await BY <2>1, <2>3 DEF Await
  <2>4. ASSUME NEW c \in Chans, TakeEvent(c) PROVE \A d \in Conns : Counted(d)'
    BY <2>1, <2>4 DEF TakeEvent
  <2>5. CASE AcceptEvent
    <3>1. \A c \in Conns : chan'[c] = "none" => chan[c] = "none"
      BY <2>5 DEF AcceptEvent
    <3> QED BY <2>1, <2>5, <3>1 DEF AcceptEvent
  <2> QED BY <2>2, <2>3, <2>4, <2>5, CountedEnvironment, CountedHandle DEF Next, Loop
<1> QED BY <1>1, <1>2, <1>3 DEF StreamInv

-----------------------------------------------------------------------------
\* How the steps of the loop look to the peers.

\* How the promise sees a connection that nothing happens to.
Same(d) == /\ chan'[d] = chan[d] /\ peer'[d] = peer[d]
           /\ answers'[d] = answers[d] /\ queue'[d] = queue[d]
           /\ outbuf'[d] = outbuf[d]

\* Then it sees the same.
LEMMA SameInStream ==
    ASSUME NEW d \in Conns, Same(d)
    PROVE  /\ Life(d)' = Life(d) /\ Gone(d)' = Gone(d) /\ Pending(d)' = Pending(d)
           /\ Len(answers[d])' = Len(answers[d]) /\ Filed(d)' = Filed(d)
           /\ queue'[d].keep = queue[d].keep /\ outbuf'[d] = outbuf[d]
BY DEF Same, Life, Gone, Pending, Filed

LEMMA PendingType ==
    ASSUME TypeOK, NEW c \in Conns
    PROVE  /\ Pending(c) \in Seq(Nat) /\ Len(Pending(c)) \in Nat
           /\ outbuf[c] \in Seq(Nat)
           /\ Pending(c) = <<>> <=> ~HasBuffers(queue[c])
<1>1. queue[c].buffers \in Seq(Buffer) /\ outbuf[c] \in Seq(Nat) BY DEF TypeOK, Item
<1>2. UnitsIn(queue[c].buffers) \in Seq(Nat) BY <1>1, UnitsType
<1>3. UnitsIn(queue[c].buffers) = <<>> <=> queue[c].buffers = <<>>
  BY <1>1, UnitsEmpty
<1> QED BY <1>1, <1>2, <1>3, LenProperties DEF Pending, HasBuffers

\* Nothing happens to any connection.
LEMMA Stutters ==
    ASSUME TypeOK, TypeOK', \A d \in Conns : Pending(d)' = Pending(d),
           \A d \in Conns : queue'[d].keep = queue[d].keep,
           UNCHANGED <<chan, peer, answers, outbuf>>
    PROVE  UNCHANGED Stream!vars
BY DEF Stream!vars, Life, Gone, Filed

\* The first n units of what is pending for c are handed over.
LEMMA HandsOver ==
    ASSUME TypeOK, TypeOK', NEW c \in Conns, NEW n \in 1..Len(Pending(c)),
           chan[c] = "open", \A d \in Conns : d # c => Same(d),
           peer'[c] = peer[c], answers'[c] = answers[c],
           outbuf'[c] = outbuf[c] \o SubSeq(Pending(c), 1, n),
           Pending(c)' = SubSeq(Pending(c), n + 1, Len(Pending(c))),
           IF Pending(c)' = <<>> /\ ~queue[c].keep
           THEN chan'[c] = "removed" /\ ~queue'[c].keep
           ELSE chan'[c] = "open" /\ queue'[c].keep = queue[c].keep
    PROVE  Stream!Next
<1>1. \A d \in Conns : d # c =>
          /\ Life(d)' = Life(d) /\ Gone(d)' = Gone(d) /\ Pending(d)' = Pending(d)
          /\ Len(answers[d])' = Len(answers[d]) /\ Filed(d)' = Filed(d)
          /\ queue'[d].keep = queue[d].keep /\ outbuf'[d] = outbuf[d]
  BY SameInStream
<1>2. /\ Life(c) = "open" /\ Gone(c)' = Gone(c)
      /\ chan'[c] = "open" => Life(c)' = "open"
      /\ chan'[c] = "removed" => Life(c)' = "closed"
  BY DEF Life, Gone
<1>3. outbuf' = [outbuf EXCEPT ![c] = @ \o SubSeq(Pending(c), 1, n)]
  BY <1>1 DEF TypeOK
<1>4. \A d \in Conns : queue[d].keep \in BOOLEAN /\ queue'[d].keep \in BOOLEAN
  BY DEF TypeOK, Item
<1>5. [d \in Conns |-> Pending(d)]' =
          [[d \in Conns |-> Pending(d)] EXCEPT
              ![c] = SubSeq(@, n + 1, Len(@))]
  BY <1>1
<1>6. UNCHANGED <<[d \in Conns |-> Gone(d)], [d \in Conns |-> Len(answers[d])],
                  [d \in Conns |-> Filed(d)]>>
  BY <1>1, <1>2 DEF Filed
<1>7. IF Pending(c)' = <<>> /\ ~queue[c].keep
      THEN /\ [d \in Conns |-> Life(d)]' =
                  [[d \in Conns |-> Life(d)] EXCEPT ![c] = "closed"]
           /\ [d \in Conns |-> queue[d].keep]' =
                  [[d \in Conns |-> queue[d].keep] EXCEPT ![c] = FALSE]
      ELSE UNCHANGED <<[d \in Conns |-> Life(d)], [d \in Conns |-> queue[d].keep]>>
  <2>1. CASE Pending(c)' = <<>> /\ ~queue[c].keep
    BY <1>1, <1>2, <1>4, <2>1
  <2>2. CASE ~(Pending(c)' = <<>> /\ ~queue[c].keep)
    BY <1>1, <1>2, <2>2
  <2> QED BY <2>1, <2>2
<1>8. Stream!HandOver(c, n)
  BY <1>2, <1>3, <1>5, <1>6, <1>7 DEF Stream!HandOver
<1> QED BY <1>8 DEF Stream!Next

\* A connection goes under a peer that has left, or in the middle of a file.
LEMMA Abandons ==
    ASSUME TypeOK, TypeOK', NEW c \in Conns, chan[c] = "open",
           Gone(c) \/ (Pending(c) # <<>> /\ Head(Pending(c)) \in Filed(c)),
           chan'[c] = "removed", queue'[c] = EmptyItem,
           \A d \in Conns : d # c => Same(d),
           peer'[c] = peer[c], answers'[c] = answers[c], outbuf'[c] = outbuf[c]
    PROVE  Stream!Next
<1>1. \A d \in Conns : d # c =>
          /\ Life(d)' = Life(d) /\ Gone(d)' = Gone(d) /\ Pending(d)' = Pending(d)
          /\ Len(answers[d])' = Len(answers[d]) /\ Filed(d)' = Filed(d)
          /\ queue'[d].keep = queue[d].keep /\ outbuf'[d] = outbuf[d]
  BY SameInStream
<1>2. Life(c) = "open" /\ Life(c)' = "closed" /\ Gone(c)' = Gone(c)
  BY DEF Life, Gone
<1>3. Pending(c)' = <<>> /\ queue'[c].keep = FALSE
  <2>1. ~HasBuffers(queue'[c]) BY DEF EmptyItem, HasBuffers
  <2>2. Pending(c)' = <<>> <=> ~HasBuffers(queue'[c])
    <3>1. queue'[c].buffers \in Seq(Buffer) BY DEF TypeOK, Item
    <3>2. UnitsIn(queue'[c].buffers) = <<>> <=> queue'[c].buffers = <<>>
      BY <3>1, UnitsEmpty
    <3> QED BY <3>2 DEF Pending, HasBuffers
  <2> QED BY <2>1, <2>2 DEF EmptyItem
<1>4. outbuf' = outbuf BY <1>1 DEF TypeOK
<1>5. UNCHANGED [d \in Conns |-> Filed(d)] BY <1>1 DEF Filed
<1>6. Stream!Abandon(c)
  BY <1>1, <1>2, <1>3, <1>4, <1>5 DEF Stream!Abandon
<1> QED BY <1>6 DEF Stream!Next

\* The answers of a file, when one more answer is given.
LEMMA FiledAppend ==
    ASSUME NEW c \in Conns, NEW r \in Responses, answers[c] \in Seq(Responses),
           answers'[c] = Append(answers[c], r)
    PROVE  Filed(c)' = IF OfFile(r) THEN Filed(c) \cup {Len(answers'[c])}
                                    ELSE Filed(c)
<1> DEFINE s == answers[c]
           t == answers'[c]
<1>1. /\ Len(t) = Len(s) + 1 /\ Len(s) \in Nat /\ t[Len(s) + 1] = r
      /\ \A i \in 1..Len(s) : t[i] = s[i]
  BY AppendProperties, LenProperties
<1>2. /\ Filed(c) = {n \in 1..Len(s) : OfFile(s[n])}
      /\ Filed(c)' = {n \in 1..Len(t) : OfFile(t[n])}
  BY DEF Filed, OfFile
<1> HIDE DEF s, t
<1>3. 1..Len(t) = (1..Len(s)) \cup {Len(t)} /\ Len(t) \notin 1..Len(s) BY <1>1
<1>4. t[Len(t)] = r BY <1>1
<1> QED BY <1>1, <1>2, <1>3, <1>4, Zenon DEF t

\* An answer joins what is pending for c.
LEMMA Answers ==
    ASSUME TypeOK, TypeOK', NEW c \in Conns, NEW r \in Responses,
           chan[c] = "open", Len(answers[c]) < MaxRequests,
           \A d \in Conns : d # c => Same(d),
           chan'[c] = chan[c], peer'[c] = peer[c], outbuf'[c] = outbuf[c],
           answers'[c] = Append(answers[c], r),
           Pending(c)' = Pending(c) \o [i \in 1..Size(r) |-> Len(answers[c]) + 1]
    PROVE  Stream!Next
<1>1. \A d \in Conns : d # c =>
          /\ Life(d)' = Life(d) /\ Gone(d)' = Gone(d) /\ Pending(d)' = Pending(d)
          /\ Len(answers[d])' = Len(answers[d]) /\ Filed(d)' = Filed(d)
          /\ queue'[d].keep = queue[d].keep /\ outbuf'[d] = outbuf[d]
  BY SameInStream
<1>2. Life(c) = "open" /\ Life(c)' = "open" /\ Gone(c)' = Gone(c)
  BY DEF Life, Gone
<1>3. outbuf' = outbuf BY <1>1 DEF TypeOK
<1>4. PICK keep \in BOOLEAN : keep = queue'[c].keep
  <2>1. queue'[c].keep \in BOOLEAN BY DEF TypeOK, Item
  <2> QED BY <2>1
<1>5. PICK n \in {Size(x) : x \in Responses} : n = Size(r)
  OBVIOUS
<1>0. Len(answers'[c]) = Len(answers[c]) + 1
  <2>1. answers[c] \in Seq(Responses) BY DEF TypeOK
  <2> QED BY <2>1, AppendProperties
<1>6. [d \in Conns |-> Len(answers[d])]' =
          [[d \in Conns |-> Len(answers[d])] EXCEPT ![c] = @ + 1]
  BY <1>0, <1>1
<1>7. [d \in Conns |-> Pending(d)]' =
          [[d \in Conns |-> Pending(d)] EXCEPT
              ![c] = @ \o [i \in 1..n |-> [d \in Conns |-> Len(answers[d])]'[c]]]
  BY <1>0, <1>1, <1>5
<1>8. [d \in Conns |-> queue[d].keep]' =
          [[d \in Conns |-> queue[d].keep] EXCEPT ![c] = keep]
  BY <1>1, <1>4
<1>9. UNCHANGED <<[d \in Conns |-> Gone(d)], [d \in Conns |-> Life(d)]>>
  BY <1>1, <1>2
<1>10. PICK file \in BOOLEAN : file <=> OfFile(r)
  <2>1. CASE OfFile(r) BY <2>1
  <2>2. CASE ~OfFile(r) BY <2>2
  <2> QED BY <2>1, <2>2
<1>11. [d \in Conns |-> Filed(d)]' =
           [[d \in Conns |-> Filed(d)] EXCEPT
               ![c] = IF file THEN @ \cup {[d \in Conns |-> Len(answers[d])]'[c]}
                              ELSE @]
  <2>1. Filed(c)' = IF file THEN Filed(c) \cup {Len(answers'[c])} ELSE Filed(c)
    BY <1>10, FiledAppend DEF TypeOK
  <2> QED BY <1>1, <2>1
<1>12. Stream!Answer(c, n, file, keep)
  BY <1>2, <1>3, <1>6, <1>7, <1>8, <1>9, <1>5, <1>11 DEF Stream!Answer
<1> QED BY <1>4, <1>10, <1>12, <1>5 DEF Stream!Next

\* The environment: a peer takes what was handed over, or leaves.
LEMMA StreamEnvironment ==
    ASSUME StreamInv, TypeOK', Environment
    PROVE  Stream!Next \/ UNCHANGED Stream!vars
<1> DEFINE Goal == Stream!Next \/ UNCHANGED Stream!vars
<1>1. TypeOK /\ \A d \in Conns : Counted(d) BY StreamTypes DEF StreamInv
<1>2. ASSUME UNCHANGED <<chan, peer, outbuf, answers, queue>> PROVE Goal
  BY <1>2 DEF Stream!vars, Life, Gone, Pending, Filed
<1>3. ASSUME NEW c \in Conns, Connect(c) PROVE Goal
  <2>1. /\ chan' = [chan EXCEPT ![c] = "backlog"] /\ peer' = [peer EXCEPT ![c] = "up"]
        /\ chan[c] = "none" /\ UNCHANGED <<outbuf, answers, queue>>
    BY <1>3 DEF Connect, server
  <2>2. \A d \in Conns : Life(d)' = Life(d) /\ Gone(d)' = Gone(d)
    <3> SUFFICES ASSUME NEW d \in Conns PROVE Life(d)' = Life(d) /\ Gone(d)' = Gone(d)
      OBVIOUS
    <3>1. CASE d = c
      <4>1. chan'[c] = "backlog" /\ peer'[c] = "up" BY <1>1, <2>1 DEF TypeOK
      <4>2. peer[c] = "none" BY <1>1, <2>1 DEF Counted
      <4> QED BY <2>1, <3>1, <4>1, <4>2 DEF Life, Gone
    <3>2. CASE d # c
      <4>1. chan'[d] = chan[d] /\ peer'[d] = peer[d] BY <1>1, <2>1, <3>2 DEF TypeOK
      <4> QED BY <4>1 DEF Life, Gone
    <3> QED BY <3>1, <3>2
  <2> QED BY <2>1, <2>2 DEF Stream!vars, Pending, Filed
<1>4. ASSUME NEW c \in Conns, NEW piece \in {"part", "final"}, Send(c, piece)
      PROVE  Goal
  BY <1>2, <1>4 DEF Send, server
<1>5. ASSUME NEW c \in Conns, Receive(c) PROVE Goal
  <2>1. /\ outbuf[c] # <<>> /\ outbuf' = [outbuf EXCEPT ![c] = Tail(@)]
        /\ UNCHANGED <<chan, peer, answers, queue>>
    BY <1>5 DEF Receive, server
  <2>2. Stream!Take(c) BY <2>1 DEF Stream!Take, Life, Gone, Pending, Filed
  <2> QED BY <2>2 DEF Stream!Next
<1>6. ASSUME NEW c \in Conns, NEW how \in {"fin", "reset"}, Leave(c, how)
      PROVE  Goal
  <2>1. /\ peer' = [peer EXCEPT ![c] = how]
        /\ outbuf' = [outbuf EXCEPT ![c] = IF how = "reset" THEN <<>> ELSE @]
        /\ UNCHANGED <<chan, answers, queue>>
    BY <1>6 DEF Leave, server
  <2>2. outbuf' \in {outbuf, [outbuf EXCEPT ![c] = <<>>]}
    <3>1. CASE how = "reset" BY <2>1, <3>1
    <3>2. CASE how # "reset" BY <1>1, <2>1, <3>2 DEF TypeOK
    <3> QED BY <3>1, <3>2
  <2>3. [d \in Conns |-> Gone(d)]' = [[d \in Conns |-> Gone(d)] EXCEPT ![c] = TRUE]
    <3>1. Gone(c)' = TRUE BY <1>1, <2>1 DEF TypeOK, Gone
    <3>2. \A d \in Conns : d # c => Gone(d)' = Gone(d)
      BY <1>1, <2>1 DEF TypeOK, Gone
    <3> QED BY <3>1, <3>2
  <2>4. Stream!Depart(c)
    BY <2>1, <2>2, <2>3 DEF Stream!Depart, Life, Pending, Filed
  <2> QED BY <2>4 DEF Stream!Next
<1>7. ASSUME NEW c \in Conns, NEW i \in 1..Len(queue[c].buffers), Complete(c, i)
      PROVE  Goal
  <2>1. /\ queue' = [queue EXCEPT ![c].buffers[i].ready = TRUE]
        /\ UNCHANGED <<chan, peer, outbuf, answers>>
    BY <1>7 DEF Complete
  <2>2. \A d \in Conns : d # c => queue'[d] = queue[d] BY <1>1, <2>1 DEF TypeOK
  <2>3. Pending(c)' = Pending(c) /\ queue'[c].keep = queue[c].keep
    <3> DEFINE s == queue[c].buffers
               t == queue'[c].buffers
    <3>1. queue[c] \in Item /\ s \in Seq(Buffer) /\ t \in Seq(Buffer)
      BY <1>1 DEF TypeOK, Item
    <3>2. queue'[c] = [queue[c] EXCEPT !.buffers[i].ready = TRUE]
      BY <1>1, <2>1 DEF TypeOK
    <3>3. t = [s EXCEPT ![i].ready = TRUE] /\ queue'[c].keep = queue[c].keep
      BY <3>1, <3>2 DEF Item
    <3>4. s \in [1..Len(s) -> Buffer] /\ Len(s) \in Nat BY <3>1, LenProperties
    <3>5. s[i] \in Buffer BY <3>4
    <3>6. \A j \in 1..Len(s) : t[j].left = s[j].left /\ t[j].req = s[j].req
      BY <3>3, <3>4, <3>5 DEF Buffer
    <3>7. DOMAIN t = 1..Len(s) BY <3>3, <3>4
    <3> HIDE DEF s, t
    <3>8. Len(t) = Len(s) BY <3>1, <3>4, <3>7, LenProperties
    <3>9. UnitsIn(t) = UnitsIn(s) BY <3>1, <3>6, <3>8, UnitsSame
    <3> QED BY <3>3, <3>9 DEF Pending, s, t
  <2>4. \A d \in Conns : Pending(d)' = Pending(d) /\ queue'[d].keep = queue[d].keep
    BY <2>2, <2>3 DEF Pending
  <2> QED BY <1>1, <2>1, <2>4, Stutters
<1>8. CASE JoinOne BY <1>2, <1>8 DEF JoinOne, server
<1> QED BY <1>3, <1>4, <1>5, <1>6, <1>7, <1>8 DEF Environment

\* Connections are accepted.
LEMMA StreamAccept ==
    ASSUME StreamInv, AcceptEvent PROVE Stream!Next
<1>1. TypeOK BY StreamTypes
<1>2. PICK new \in SUBSET Backlog :
          chan' = [c \in Conns |-> IF c \in new THEN "open" ELSE chan[c]]
  BY DEF AcceptEvent
<1>3. UNCHANGED <<peer, outbuf, answers, queue>> BY DEF AcceptEvent
<1>4. new \in SUBSET Conns /\ \A c \in new : chan[c] = "backlog"
  BY <1>2 DEF Backlog
<1>5. \A c \in new : Life(c) = "none" BY <1>4 DEF Life
<1>6. [c \in Conns |-> Life(c)]' =
          [c \in Conns |-> IF c \in new THEN "open" ELSE [d \in Conns |-> Life(d)][c]]
  BY <1>2 DEF Life
<1>7. Stream!Open(new)
  BY <1>3, <1>4, <1>5, <1>6 DEF Stream!Open, Gone, Pending, Filed
<1> QED BY <1>4, <1>7 DEF Stream!Next

\* A handler of c's event that touches no queue, or only what of a buffer's
\* payload is in memory, is nothing the promise sees.
LEMMA StreamReplace ==
    ASSUME StreamInv, TypeOK', NEW c \in Conns, HasBuffers(queue[c]),
           NEW b \in Buffer, b.left = Current(c).left, b.req = Current(c).req,
           queue' = [queue EXCEPT ![c] = ReplaceFront(@, b)],
           UNCHANGED <<chan, peer, answers, outbuf>>
    PROVE  UNCHANGED Stream!vars
<1>1. TypeOK /\ queue[c] \in Item BY StreamTypes DEF TypeOK
<1>2. /\ queue'[c] = ReplaceFront(queue[c], b)
      /\ \A d \in Conns : d # c => queue'[d] = queue[d]
  BY <1>1 DEF TypeOK
<1>3. /\ queue'[c].keep = queue[c].keep
      /\ UnitsIn(queue'[c].buffers) =
             [j \in 1..b.left |-> b.req] \o UnitsIn(Tail(queue[c].buffers))
  BY <1>1, <1>2, UnitsReplaced
<1>4. UnitsIn(queue[c].buffers) =
          [j \in 1..Current(c).left |-> Current(c).req]
              \o UnitsIn(Tail(queue[c].buffers))
  BY <1>1, UnitsFront DEF Item, HasBuffers, Current, FrontBuffer
<1>5. Pending(c)' = Pending(c) BY <1>3, <1>4 DEF Pending
<1>6. \A d \in Conns : Pending(d)' = Pending(d) /\ queue'[d].keep = queue[d].keep
  BY <1>2, <1>3, <1>5 DEF Pending
<1> QED BY <1>1, <1>6, Stutters

\* What fill_channel hands to the socket is the beginning of what is pending.
LEMMA FillUnits ==
    ASSUME TypeOK, NEW c \in Conns, NEW n \in Nat, n # 0, Fill(c, n)
    PROVE  /\ n \in 1..Len(Pending(c)) /\ n \in 0..Current(c).left
           /\ outbuf'[c] = outbuf[c] \o SubSeq(Pending(c), 1, n)
           /\ \A d \in Conns : d # c => outbuf'[d] = outbuf[d]
           /\ SubSeq(Pending(c), n + 1, Len(Pending(c))) =
                  [j \in 1..(Current(c).left - n) |-> Current(c).req]
                      \o UnitsIn(Tail(queue[c].buffers))
           /\ UnitsIn(Tail(queue[c].buffers)) \in Seq(Nat)
<1> DEFINE left == Current(c).left
           req == Current(c).req
           rest == UnitsIn(Tail(queue[c].buffers))
<1>1. /\ queue[c].buffers \in Seq(Buffer) /\ queue[c].buffers # <<>>
      /\ Current(c) \in Buffer /\ left \in Nat \ {0} /\ req \in Nat
      /\ n <= left /\ outbuf' = [outbuf EXCEPT ![c] = @ \o [i \in 1..n |-> req]]
  BY SyncFrontType DEF Fill, SyncFront, TypeOK, Item, HasBuffers, Buffer
<1>2. /\ Tail(queue[c].buffers) \in Seq(Buffer)
      /\ Pending(c) = [j \in 1..left |-> req] \o rest
  BY <1>1, UnitsFront DEF Pending, Current, FrontBuffer
<1>3. rest \in Seq(Nat) /\ Len(rest) \in Nat BY <1>2, UnitsType, LenProperties
<1>4. /\ outbuf'[c] = outbuf[c] \o [i \in 1..n |-> req]
      /\ \A d \in Conns : d # c => outbuf'[d] = outbuf[d]
  BY <1>1 DEF TypeOK
<1>5. n \in 0..left BY <1>1
<1> HIDE DEF left, req, rest
<1>6. /\ Len(Pending(c)) = left + Len(rest)
      /\ SubSeq(Pending(c), 1, n) = [j \in 1..n |-> req]
      /\ SubSeq(Pending(c), n + 1, Len(Pending(c))) =
             [j \in 1..(left - n) |-> req] \o rest
  <2> DEFINE w == [j \in 1..left |-> req] \o rest
  <2>1. left \in Nat /\ req \in Nat BY <1>1
  <2>2. /\ w \in Seq(Nat) /\ Len(w) = left + Len(rest)
        /\ SubSeq(w, 1, n) = [j \in 1..n |-> req]
        /\ SubSeq(w, n + 1, Len(w)) = [j \in 1..(left - n) |-> req] \o rest
    BY <1>3, <1>5, <2>1, Stretch
  <2> HIDE DEF w
  <2>3. Pending(c) = w BY <1>2 DEF w
  <2> QED BY <2>2, <2>3
<1>7. n \in 1..Len(Pending(c)) BY <1>1, <1>3, <1>6
<1> QED BY <1>3, <1>4, <1>5, <1>6, <1>7 DEF left, req, rest

\* No stretch at all.
LEMMA EmptyStretch ==
    ASSUME NEW S, NEW x \in S, NEW rest \in Seq(S)
    PROVE  [j \in 1..(0) |-> x] \o rest = rest
<1>1. [j \in 1..0 |-> x] \in Seq(S) /\ Len([j \in 1..0 |-> x]) = 0
  BY FunctionIsSeq
<1>2. [j \in 1..0 |-> x] = <<>> BY <1>1, EmptySeq
<1> QED BY <1>2, ConcatEmptySeq

\* A part of the front buffer is handed over.
LEMMA StreamFillPart ==
    ASSUME StreamInv, TypeOK', NEW c \in Conns, chan[c] = "open",
           \A d \in Conns : d # c => Same(d),
           NEW n \in 1..Room, FillPart(c, n)
    PROVE  Stream!Next
<1>1. TypeOK /\ queue[c] \in Item BY StreamTypes DEF TypeOK
<1>2. /\ Fill(c, n) /\ n < Current(c).left
      /\ queue' = [queue EXCEPT ![c] = ReplaceFront(@, Rest(Current(c), n))]
      /\ UNCHANGED <<chan, peer, answers>>
  BY DEF FillPart
<1>3. n \in Nat /\ n # 0 BY ConstantsAssumption
<1>4. /\ HasBuffers(queue[c]) /\ Current(c) \in Buffer /\ Current(c).left \in Nat
  BY <1>1, <1>2, SyncFrontType DEF Fill
<1> DEFINE b == Rest(Current(c), n)
<1>5. b \in Buffer /\ b.left = Current(c).left - n /\ b.req = Current(c).req
  BY <1>2, <1>3, <1>4 DEF Rest, Buffer
<1> HIDE DEF b
<1>6. queue'[c] = ReplaceFront(queue[c], b) BY <1>1, <1>2 DEF TypeOK, b
<1>7. /\ queue'[c].keep = queue[c].keep
      /\ UnitsIn(queue'[c].buffers) =
             [j \in 1..b.left |-> b.req] \o UnitsIn(Tail(queue[c].buffers))
  BY <1>1, <1>4, <1>5, <1>6, UnitsReplaced
<1>8. HasBuffers(queue'[c]) BY <1>1, <1>4, <1>5, <1>6, ReplaceFrontType
<1>9. Pending(c)' # <<>>
  <2>1. queue'[c].buffers \in Seq(Buffer) BY DEF TypeOK, Item
  <2> QED BY <1>8, <2>1, UnitsEmpty DEF Pending, HasBuffers
<1>10. /\ n \in 1..Len(Pending(c))
       /\ outbuf'[c] = outbuf[c] \o SubSeq(Pending(c), 1, n)
       /\ SubSeq(Pending(c), n + 1, Len(Pending(c))) =
                  [j \in 1..(Current(c).left - n) |-> Current(c).req]
                      \o UnitsIn(Tail(queue[c].buffers))
  BY <1>1, <1>2, <1>3, FillUnits
<1>11. Pending(c)' = SubSeq(Pending(c), n + 1, Len(Pending(c)))
  BY <1>5, <1>7, <1>10 DEF Pending
<1>12. peer'[c] = peer[c] /\ answers'[c] = answers[c] /\ chan'[c] = "open" BY <1>2
<1> QED BY <1>1, <1>7, <1>9, <1>10, <1>11, <1>12, HandsOver

\* The front buffer is handed over in full, and goes.
LEMMA StreamFillAll ==
    ASSUME StreamInv, TypeOK', NEW c \in Conns, chan[c] = "open",
           \A d \in Conns : d # c => Same(d),
           FillAll(c) \/ DrainAndKeep(c) \/ DrainAndClose(c)
    PROVE  Stream!Next
<1>1. TypeOK /\ queue[c] \in Item BY StreamTypes DEF TypeOK
<1> DEFINE n == Current(c).left
<1>2. /\ Fill(c, n) /\ UNCHANGED <<peer, answers>>
  BY DEF FillAll, DrainAndKeep, DrainAndClose, RemoveChannel
<1>3. /\ HasBuffers(queue[c]) /\ Current(c) \in Buffer
      /\ n \in Nat /\ n # 0 /\ Current(c).req \in Nat
  BY <1>1, <1>2, SyncFrontType DEF Fill, Buffer
<1> DEFINE rest == UnitsIn(Tail(queue[c].buffers))
           p == Pending(c)
           front == [j \in 1..(Current(c).left - n) |-> Current(c).req]
<1>4. /\ n \in 1..Len(p) /\ rest \in Seq(Nat)
      /\ outbuf'[c] = outbuf[c] \o SubSeq(p, 1, n)
      /\ SubSeq(p, n + 1, Len(p)) = front \o rest
  BY <1>1, <1>2, <1>3, FillUnits
<1>5. SubSeq(p, n + 1, Len(p)) = rest
  <2>1. Current(c).left - n = 0 BY <1>3
  <2>2. front = [j \in 1..(0) |-> Current(c).req] BY <2>1
  <2> HIDE DEF rest, front
  <2>3. [j \in 1..(0) |-> Current(c).req] \o rest = rest
    BY <1>3, <1>4, EmptyStretch
  <2> QED BY <1>4, <2>2, <2>3
<1>6. Tail(queue[c].buffers) \in Seq(Buffer)
  BY <1>1, <1>3, HeadTailProperties DEF Item, HasBuffers
<1>7. RemoveFront(queue[c]).buffers = Tail(queue[c].buffers)
      /\ RemoveFront(queue[c]).keep = queue[c].keep
  BY <1>1 DEF RemoveFront, Item
<1>8. rest = <<>> <=> Drained(c)
  BY <1>6, <1>7, UnitsEmpty DEF Drained, HasBuffers
<1>9. peer'[c] = peer[c] /\ answers'[c] = answers[c] BY <1>2
<1>10. ASSUME queue' = [queue EXCEPT ![c] = RemoveFront(@)], UNCHANGED chan,
              ~Drained(c) \/ queue[c].keep
       PROVE  Stream!Next
  <2>1. queue'[c] = RemoveFront(queue[c]) BY <1>1, <1>10 DEF TypeOK
  <2>2. Pending(c)' = rest /\ queue'[c].keep = queue[c].keep
    BY <1>7, <2>1 DEF Pending
  <2>3. Pending(c)' = SubSeq(Pending(c), n + 1, Len(Pending(c))) BY <1>5, <2>2
  <2>4. ~(Pending(c)' = <<>> /\ ~queue[c].keep) BY <1>8, <1>10, <2>2
  <2>5. chan'[c] = "open" BY <1>10
  <2> HIDE DEF n
  <2> QED BY <1>1, <1>4, <1>9, <2>2, <2>3, <2>4, <2>5, HandsOver
<1>11. CASE FillAll(c) BY <1>10, <1>11 DEF FillAll
<1>12. CASE DrainAndKeep(c) BY <1>10, <1>12 DEF DrainAndKeep
<1>13. CASE DrainAndClose(c)
  <2>1. RemoveChannel(c) /\ Drained(c) /\ ~queue[c].keep BY <1>13 DEF DrainAndClose
  <2>2. queue'[c] = EmptyItem /\ chan'[c] = "removed"
    BY <1>1, <2>1 DEF RemoveChannel, TypeOK
  <2>3. UnitsIn(<<>>) = <<>> BY UnitsEmpty, EmptySeq
  <2>4. Pending(c)' = <<>> /\ ~queue'[c].keep BY <2>2, <2>3 DEF Pending, EmptyItem
  <2>5. Pending(c)' = SubSeq(Pending(c), n + 1, Len(Pending(c)))
    BY <1>5, <1>8, <2>1, <2>4
  <2> HIDE DEF n
  <2> QED BY <1>1, <1>4, <1>9, <2>1, <2>2, <2>4, <2>5, HandsOver
<1> QED BY <1>11, <1>12, <1>13

\* An answer is queued behind whatever is pending.
LEMMA EnqueueUnits ==
    ASSUME StreamInv, InTurn, NEW c \in Conns, NEW r \in Responses,
           "final" \in inbuf[c]
    PROVE  Enqueue(queue[c], AnswerItem(c, r)).buffers =
               queue[c].buffers \o AnswerItem(c, r).buffers
<1> DEFINE q == queue[c]
           item == AnswerItem(c, r)
           s == item.buffers
<1>1. TypeOK /\ q \in Item /\ q.buffers \in Seq(Buffer)
  BY StreamTypes DEF TypeOK, Item
<1>2. item \in Item /\ s \in Seq(Buffer) /\ s # <<>>
  BY <1>1, AnswerItemType DEF Item, HasBuffers
<1>3. Head(s) \in Buffer /\ Head(s) = s[1] /\ Len(s) \in Nat \ {0}
  BY <1>2, HeadTailProperties, EmptySeq, LenProperties
<1>4. CASE Head(s).type \in {"memory", "file"}
  BY <1>4 DEF Enqueue, FrontBuffer, PutBack
<1>5. CASE Head(s).type \notin {"memory", "file"}
  <2>1. Head(s).type = "async" BY <1>3, <1>5 DEF Buffer
  <2>2. r \in Response /\ r.buffers \in Seq(Part) /\ r.buffers # <<>>
    BY ResponsesAssumption DEF Response
  <2>3. Len(r.buffers) \in Nat \ {0} BY <2>2, EmptySeq, LenProperties
  <2>4. /\ s[1].type = r.buffers[1].type
        /\ DOMAIN s = 1..Len(r.buffers)
    BY <2>3 DEF AnswerItem
  <2>5. r.buffers[1].type = "async" /\ 1 \in 1..Len(r.buffers)
    BY <1>3, <2>1, <2>3, <2>4
  <2>6. Len(r.buffers) = 1 BY <2>5, ResponsesAssumption
  <2>7. Polite BY <2>5 DEF InTurn
  <2>8. q.buffers = <<>>
    BY <2>7 DEF StreamInv, PoliteInv, Quiescent, HasBuffers
  <2>9. Len(s) = 1
    <3> HIDE DEF s
    <3> QED BY <1>2, <2>4, <2>6, LenProperties
  <2>10. s = <<s[1]>> /\ Reverse(s) = s
    <3> HIDE DEF s
    <3>1. s = <<s[1]>> BY <1>2, <2>9
    <3>2. Reverse(s) = [j \in 1..1 |-> s[1]] BY <2>9 DEF Reverse
    <3>3. [j \in 1..1 |-> s[1]] = <<s[1]>> BY <1>3, <1>2
    <3> QED BY <3>1, <3>2, <3>3
  <2>11. BeforeIntact(<<>>) = 0
    <3>1. {i \in 1..Len(<<>>) : \A j \in 1..i : ~Intact(<<>>[j])} = {}
      BY EmptySeq
    <3> QED BY <3>1, FS_EmptySet DEF BeforeIntact
  <2>12. Enqueue(q, item).buffers =
             SubSeq(q.buffers, 1, 0) \o Reverse(s) \o SubSeq(q.buffers, 1, 0)
    <3>1. Enqueue(q, item) = PutAfterFirstIntact(q, item)
      BY <1>5 DEF Enqueue, FrontBuffer
    <3>2. Len(q.buffers) = 0 BY <2>8, EmptySeq
    <3> QED BY <1>1, <2>8, <2>11, <3>1, <3>2 DEF PutAfterFirstIntact, Item
  <2>13. SubSeq(q.buffers, 1, 0) = <<>> BY <1>1, <2>8
  <2> HIDE DEF q, s
  <2>14. Enqueue(q, item).buffers = s
    <3>1. <<>> \o s = s /\ s \o <<>> = s BY <1>2, ConcatEmptySeq
    <3> QED BY <2>10, <2>12, <2>13, <3>1
  <2>15. q.buffers \o s = s BY <1>2, <2>8, ConcatEmptySeq
  <2> QED BY <2>14, <2>15 DEF q, s
<1> QED BY <1>4, <1>5

\* A request is answered.
LEMMA StreamAnswer ==
    ASSUME StreamInv, InTurn, TypeOK', NEW c \in Conns, chan[c] = "open",
           \A d \in Conns : d # c => Same(d),
           NEW r \in Responses, ReadRequest(c, r)
    PROVE  Stream!Next
<1>1. TypeOK /\ queue[c] \in Item BY StreamTypes DEF TypeOK
<1>2. /\ answers' = [answers EXCEPT ![c] = Append(@, r)] /\ "final" \in inbuf[c]
      /\ queue' = [queue EXCEPT ![c] = Enqueue(@, AnswerItem(c, r))]
      /\ UNCHANGED <<chan, peer, outbuf>>
  BY DEF ReadRequest
<1>3. Len(answers[c]) < MaxRequests
  <2>1. Counted(c) BY DEF StreamInv
  <2>2. asked[c] \in Nat /\ Len(answers[c]) \in Nat
    BY <1>1, LenProperties DEF TypeOK
  <2> QED BY <1>2, <2>1, <2>2, ConstantsAssumption DEF Counted
<1>4. answers'[c] = Append(answers[c], r) BY <1>1, <1>2 DEF TypeOK
<1>5. queue'[c].buffers = queue[c].buffers \o AnswerItem(c, r).buffers
  <2>1. queue'[c] = Enqueue(queue[c], AnswerItem(c, r)) BY <1>1, <1>2 DEF TypeOK
  <2> QED BY <1>2, <2>1, EnqueueUnits
<1>6. queue[c].buffers \in Seq(Buffer) /\ AnswerItem(c, r).buffers \in Seq(Buffer)
  BY <1>1, AnswerItemType DEF Item
<1>7. UnitsIn(queue'[c].buffers) =
          UnitsIn(queue[c].buffers) \o UnitsIn(AnswerItem(c, r).buffers)
  BY <1>5, <1>6, UnitsConcat
<1>8. Pending(c)' = Pending(c) \o [i \in 1..Size(r) |-> Len(answers[c]) + 1]
  BY <1>1, <1>7, AnswerUnits DEF Pending
<1>9. chan'[c] = chan[c] /\ peer'[c] = peer[c] /\ outbuf'[c] = outbuf[c] BY <1>2
<1> QED BY <1>1, <1>3, <1>4, <1>8, <1>9, Answers

-----------------------------------------------------------------------------
\* What is queued is a part of an answer.

\* A file is a part of the answer its units are counted to; and where peers
\* await their answers, an asynchronous one is alone in the queue.
Origin(c) ==
    /\ \A i \in 1..Len(queue[c].buffers) :
           queue[c].buffers[i].type = "file" => queue[c].buffers[i].req \in Filed(c)
    /\ Polite => \A i \in 1..Len(queue[c].buffers) :
           queue[c].buffers[i].type = "async" => Len(queue[c].buffers) = 1

SourceInv == StreamInv /\ (InTurn => \A c \in Conns : Origin(c))

LEMMA SourceInit == Init => SourceInv
<1> SUFFICES ASSUME Init PROVE SourceInv
  OBVIOUS
<1>1. \A c \in Conns : Len(queue[c].buffers) = 0
  BY EmptySeq DEF Init, EmptyItem
<1> QED BY <1>1, StreamInit DEF SourceInv, Origin

\* The buffers of a queue keep their kinds and numbers, or a buffer in memory
\* takes the place of another.
LEMMA StaysOrigin ==
    ASSUME NEW c \in Conns, Origin(c), answers'[c] = answers[c],
           Len(queue'[c].buffers) = Len(queue[c].buffers),
           \A i \in 1..Len(queue[c].buffers) :
               \/ queue'[c].buffers[i].type = "memory"
               \/ /\ queue'[c].buffers[i].type = queue[c].buffers[i].type
                  /\ queue'[c].buffers[i].req = queue[c].buffers[i].req
    PROVE  Origin(c)'
<1>1. Filed(c)' = Filed(c) BY DEF Filed, OfFile
<1>2. \A i \in 1..Len(queue'[c].buffers) :
          queue'[c].buffers[i].type = "file" => queue'[c].buffers[i].req \in Filed(c)
  BY DEF Origin
<1>3. Polite => \A i \in 1..Len(queue'[c].buffers) :
          queue'[c].buffers[i].type = "async" => Len(queue'[c].buffers) = 1
  BY DEF Origin
<1> QED BY <1>1, <1>2, <1>3 DEF Origin

LEMMA ReplacedOrigin ==
    ASSUME TypeOK, NEW c \in Conns, Origin(c), answers'[c] = answers[c],
           HasBuffers(queue[c]), NEW b \in Buffer,
           b.type = "memory"
               \/ (b.type = Current(c).type /\ b.req = Current(c).req),
           queue'[c] = ReplaceFront(queue[c], b)
    PROVE  Origin(c)'
<1> DEFINE s == queue[c].buffers
           t == queue'[c].buffers
<1>1. s \in Seq(Buffer) /\ Len(s) \in Nat \ {0} /\ Head(s) = s[1]
  BY FrontBufferType, HeadTailProperties DEF TypeOK, Item, HasBuffers
<1>2. t = [s EXCEPT ![1] = b] BY DEF ReplaceFront, TypeOK, Item
<1>3. Len(t) = Len(s) /\ \A i \in 1..Len(s) : t[i] = IF i = 1 THEN b ELSE s[i]
  <2> HIDE DEF s, t
  <2> QED BY <1>1, <1>2, ExceptSeq
<1>4. Current(c) = s[1] BY <1>1 DEF Current, FrontBuffer
<1> HIDE DEF s, t
<1>5. \A i \in 1..Len(s) : \/ t[i].type = "memory"
                           \/ t[i].type = s[i].type /\ t[i].req = s[i].req
  BY <1>3, <1>4
<1> QED BY <1>3, <1>5, StaysOrigin DEF s, t

LEMMA RemovedOrigin ==
    ASSUME TypeOK, NEW c \in Conns, Origin(c), answers'[c] = answers[c],
           HasBuffers(queue[c]), queue'[c] = RemoveFront(queue[c])
    PROVE  Origin(c)'
<1> DEFINE s == queue[c].buffers
           t == queue'[c].buffers
<1>1. s \in Seq(Buffer) /\ s # <<>> /\ t = Tail(s)
  BY DEF TypeOK, Item, HasBuffers, RemoveFront
<1>2. Len(s) \in Nat \ {0} BY <1>1, EmptySeq, LenProperties
<1> HIDE DEF s, t
<1>3. Len(t) = Len(s) - 1 /\ \A i \in 1..Len(t) : t[i] = s[i + 1]
  BY <1>1, HeadTailProperties
<1>4. \A i \in 1..Len(t) : i + 1 \in 1..Len(s) /\ Len(s) # 1 BY <1>2, <1>3
<1>5. Filed(c)' = Filed(c) BY DEF Filed, OfFile
<1>6. /\ \A i \in 1..Len(s) : s[i].type = "file" => s[i].req \in Filed(c)
      /\ Polite => \A i \in 1..Len(s) : s[i].type = "async" => Len(s) = 1
  BY DEF Origin, s
<1>7. \A i \in 1..Len(t) : t[i].type = "file" => t[i].req \in Filed(c)
  BY <1>3, <1>4, <1>6
<1>8. Polite => \A i \in 1..Len(t) : t[i].type = "async" => Len(t) = 1
  BY <1>3, <1>4, <1>6
<1> QED BY <1>5, <1>7, <1>8 DEF Origin, t

\* A new answer: its files are parts of it, and a polite peer's queue has nothing
\* else.
LEMMA AnsweredOrigin ==
    ASSUME StreamInv, InTurn, NEW c \in Conns, Origin(c), NEW r \in Responses,
           ReadRequest(c, r)
    PROVE  Origin(c)'
<1> DEFINE s == queue[c].buffers
           w == AnswerItem(c, r).buffers
           t == queue'[c].buffers
           k == Len(answers[c]) + 1
<1>1. TypeOK /\ s \in Seq(Buffer) /\ w \in Seq(Buffer)
  BY StreamTypes, AnswerItemType DEF TypeOK, Item
<1>2. /\ "final" \in inbuf[c] /\ answers'[c] = Append(answers[c], r)
      /\ queue'[c] = Enqueue(queue[c], AnswerItem(c, r))
  BY <1>1 DEF ReadRequest, TypeOK
<1>3. t = s \o w BY <1>2, EnqueueUnits
<1>4. Len(answers'[c]) = k /\ k \in Nat
  BY <1>1, <1>2, AppendProperties, LenProperties DEF TypeOK
<1>5. Filed(c)' = IF OfFile(r) THEN Filed(c) \cup {k} ELSE Filed(c)
  BY <1>1, <1>2, <1>4, FiledAppend DEF TypeOK
<1>6. r \in Response /\ r.buffers \in Seq(Part) BY ResponsesAssumption DEF Response
<1>7. /\ Len(r.buffers) \in Nat /\ Len(w) = Len(r.buffers)
      /\ \A i \in 1..Len(w) : w[i].type = r.buffers[i].type /\ w[i].req = k
  <2>1. Len(r.buffers) \in Nat /\ Len(w) \in Nat BY <1>1, <1>6, LenProperties
  <2>2. /\ DOMAIN w = 1..Len(r.buffers)
        /\ \A i \in 1..Len(r.buffers) : w[i].type = r.buffers[i].type /\ w[i].req = k
    BY DEF AnswerItem
  <2> HIDE DEF w
  <2>3. Len(w) = Len(r.buffers) BY <1>1, <2>1, <2>2, LenProperties
  <2> QED BY <2>1, <2>2, <2>3
<1>8. /\ Len(s) \in Nat /\ Len(t) = Len(s) + Len(w)
      /\ \A i \in 1..Len(s) : t[i] = s[i]
      /\ \A i \in (Len(s) + 1)..Len(t) : t[i] = w[i - Len(s)]
  <2> HIDE DEF s, t, w
  <2>1. /\ Len(s \o w) = Len(s) + Len(w)
        /\ \A i \in 1..Len(s) : (s \o w)[i] = s[i]
        /\ \A i \in (Len(s) + 1)..(Len(s) + Len(w)) : (s \o w)[i] = w[i - Len(s)]
    BY <1>1, ConcatProperties
  <2> QED BY <1>1, <1>3, <2>1, LenProperties
<1>9. /\ \A i \in 1..Len(s) : s[i].type = "file" => s[i].req \in Filed(c)
      /\ Polite => s = <<>>
  BY <1>2 DEF Origin, StreamInv, PoliteInv, Quiescent, HasBuffers
<1>10. \A i \in 1..Len(w) : w[i].type = "file" => w[i].req \in Filed(c)'
  <2>1. ASSUME NEW i \in 1..Len(w), w[i].type = "file" PROVE OfFile(r)
    BY <1>7, <2>1 DEF OfFile
  <2> HIDE DEF w
  <2> QED BY <1>5, <1>7, <2>1
<1>11. \A i \in 1..Len(w) : w[i].type = "async" => Len(w) = 1
  <2> HIDE DEF w
  <2> QED BY <1>7, ResponsesAssumption
<1> HIDE DEF s, t, w, k
<1>12. \A i \in 1..Len(t) : t[i].type = "file" => t[i].req \in Filed(c)'
  <2> SUFFICES ASSUME NEW i \in 1..Len(t), t[i].type = "file"
               PROVE  t[i].req \in Filed(c)'
    OBVIOUS
  <2>1. CASE i \in 1..Len(s) BY <1>5, <1>8, <1>9, <2>1
  <2>2. CASE i \notin 1..Len(s)
    <3>1. i \in (Len(s) + 1)..Len(t) /\ i - Len(s) \in 1..Len(w)
      BY <1>7, <1>8, <2>2
    <3> QED BY <1>8, <1>10, <3>1
  <2> QED BY <2>1, <2>2
<1>13. Polite => \A i \in 1..Len(t) : t[i].type = "async" => Len(t) = 1
  <2> SUFFICES ASSUME Polite PROVE t = w BY <1>11
  <2> QED BY <1>1, <1>3, <1>9, ConcatEmptySeq
<1> QED BY <1>12, <1>13 DEF Origin, t

\* What a handler of c's event leaves alone of the other connections.
LEMMA OthersSame ==
    ASSUME StreamInv, NEW c \in Conns, Handle(c)
    PROVE  \A d \in Conns : d # c => Same(d)
<1>1. TypeOK /\ \A d \in Conns : Fits(d)
  BY StreamTypes DEF StreamInv, WishInv, WaitInv, WakeInv
<1> SUFFICES ASSUME NEW d \in Conns, d # c PROVE Same(d)
  OBVIOUS
<1>2. chan'[d] = chan[d] /\ queue'[d] = queue[d]
  BY <1>1, HandleLocal DEF Untouched
<1>3. outbuf'[d] = outbuf[d] /\ peer'[d] = peer[d]
  BY <1>1, HandleQuietly DEF Undisturbed
<1>4. answers'[d] = answers[d]
  <2>1. ASSUME NEW r \in Responses, ReadRequest(c, r)
        PROVE  answers'[d] = answers[d]
    BY <1>1, <2>1 DEF ReadRequest, TypeOK
  <2> QED BY <1>1, <2>1, HandleKeeps
<1> QED BY <1>2, <1>3, <1>4 DEF Same

LEMMA OriginHandle ==
    ASSUME StreamInv, InTurn, \A d \in Conns : Origin(d), NEW c \in Conns, Handle(c)
    PROVE  \A d \in Conns : Origin(d)'
<1>1. TypeOK /\ Origin(c) /\ queue[c] \in Item BY StreamTypes DEF TypeOK
<1>2. ASSUME NEW d \in Conns, d # c PROVE Origin(d)'
  <2>1. Same(d) BY <1>2, OthersSame
  <2> QED BY <2>1, StaysOrigin DEF Same
<1>3. ASSUME RemoveChannel(c) PROVE Origin(c)'
  <2>1. queue'[c] = EmptyItem BY <1>1, <1>3 DEF RemoveChannel, TypeOK
  <2>2. Len(queue'[c].buffers) = 0 BY <2>1, EmptySeq DEF EmptyItem
  <2> QED BY <2>2 DEF Origin
<1>4. ASSUME TerminateEvent(c) \/ ReadClosed(c) \/ WriteFails(c) \/ DrainAndClose(c)
      PROVE  Origin(c)'
  BY <1>3, <1>4 DEF TerminateEvent, ReadClosed, WriteFails, DrainAndClose
<1>5. ASSUME UNCHANGED <<queue, answers>> PROVE Origin(c)'
  BY <1>1, <1>5, StaysOrigin
<1>6. ASSUME \/ ReadPart(c) \/ WriteEvent(c) \/ WriteAfterRemove(c)
             \/ BarrierClosed(c) \/ FillNothing(c) \/ NothingToWrite(c) \/ Rearm(c)
      PROVE  Origin(c)'
  BY <1>5, <1>6 DEF ReadPart, WriteEvent, WriteAfterRemove, BarrierClosed,
     FillNothing, NothingToWrite, Rearm
<1>7. ASSUME HasBuffers(queue[c]), UNCHANGED answers, NEW b \in Buffer,
             b.type = "memory" \/ (b.type = Current(c).type /\ b.req = Current(c).req),
             queue' = [queue EXCEPT ![c] = ReplaceFront(@, b)]
      PROVE  Origin(c)'
  <2>1. queue'[c] = ReplaceFront(queue[c], b) BY <1>1, <1>7 DEF TypeOK
  <2> QED BY <1>1, <1>7, <2>1, ReplacedOrigin
<1>8. ASSUME BarrierOpen(c) \/ DoItYourself(c) PROVE Origin(c)'
  <2> DEFINE b == [Current(c) EXCEPT !.type = "memory"]
  <2>1. /\ HasBuffers(queue[c]) /\ queue' = [queue EXCEPT ![c] = ReplaceFront(@, b)]
        /\ UNCHANGED answers
    BY <1>8 DEF BarrierOpen, DoItYourself, SyncFront, IsFrontAsync
  <2>2. Current(c) \in Buffer BY <1>1, <2>1, FrontBufferType DEF Current
  <2>3. b \in Buffer /\ b.type = "memory" BY <2>2 DEF Buffer
  <2> HIDE DEF b
  <2> QED BY <1>7, <2>1, <2>3
<1>9. ASSUME NEW n \in 1..Room, FillPart(c, n) PROVE Origin(c)'
  <2> DEFINE b == Rest(Current(c), n)
  <2>1. /\ HasBuffers(queue[c]) /\ queue' = [queue EXCEPT ![c] = ReplaceFront(@, b)]
        /\ UNCHANGED answers /\ n < Current(c).left
    BY <1>9 DEF FillPart, Fill, SyncFront
  <2>2. Current(c) \in Buffer BY <1>1, <2>1, FrontBufferType DEF Current
  <2>3. b \in Buffer /\ b.type = Current(c).type /\ b.req = Current(c).req
    BY <2>1, <2>2, ConstantsAssumption DEF Buffer, Rest
  <2> HIDE DEF b
  <2> QED BY <1>7, <2>1, <2>3
<1>10. ASSUME FillAll(c) \/ DrainAndKeep(c) PROVE Origin(c)'
  <2>1. /\ HasBuffers(queue[c]) /\ queue' = [queue EXCEPT ![c] = RemoveFront(@)]
        /\ UNCHANGED answers
    BY <1>10 DEF FillAll, DrainAndKeep, Fill, SyncFront
  <2>2. queue'[c] = RemoveFront(queue[c]) BY <1>1, <2>1 DEF TypeOK
  <2> QED BY <1>1, <2>1, <2>2, RemovedOrigin
<1>11. ASSUME NEW r \in Responses, ReadRequest(c, r) PROVE Origin(c)'
  BY <1>1, <1>11, AnsweredOrigin
<1>12. Origin(c)' BY <1>4, <1>6, <1>8, <1>9, <1>10, <1>11 DEF Handle
<1> QED BY <1>2, <1>12

LEMMA SourceStep == SourceInv /\ [Next]_vars => SourceInv'
<1> SUFFICES ASSUME SourceInv, [Next]_vars PROVE SourceInv'
  OBVIOUS
<1>1. StreamInv' /\ TypeOK BY StreamStep, StreamTypes DEF SourceInv
<1> SUFFICES ASSUME InTurn PROVE \A d \in Conns : Origin(d)'
  BY <1>1 DEF SourceInv, InTurn
<1>2. StreamInv /\ \A d \in Conns : Origin(d) BY DEF SourceInv
<1>3. ASSUME UNCHANGED <<queue, answers>> PROVE \A d \in Conns : Origin(d)'
  BY <1>2, <1>3, StaysOrigin
<1>4. CASE UNCHANGED vars BY <1>3, <1>4 DEF vars
<1>5. CASE Await BY <1>3, <1>5 DEF Await
<1>6. ASSUME NEW c \in Chans, TakeEvent(c) PROVE \A d \in Conns : Origin(d)'
  BY <1>3, <1>6 DEF TakeEvent
<1>7. CASE AcceptEvent BY <1>3, <1>7 DEF AcceptEvent
<1>8. CASE Environment
  <2>1. CASE \/ \E c \in Conns :
                    \/ Connect(c)
                    \/ \E piece \in {"part", "final"} : Send(c, piece)
                    \/ Receive(c)
                    \/ \E how \in {"fin", "reset"} : Leave(c, how)
             \/ JoinOne
    BY <1>3, <2>1 DEF Connect, Send, Receive, Leave, JoinOne, server
  <2>2. ASSUME NEW c \in Conns, NEW i \in 1..Len(queue[c].buffers), Complete(c, i)
        PROVE  \A d \in Conns : Origin(d)'
    <3>1. queue' = [queue EXCEPT ![c].buffers[i].ready = TRUE] /\ UNCHANGED answers
      BY <2>2 DEF Complete
    <3>2. ASSUME NEW d \in Conns, d # c PROVE Origin(d)'
      <4>1. queue'[d] = queue[d] BY <1>1, <3>1, <3>2 DEF TypeOK
      <4> QED BY <1>2, <3>1, <4>1, StaysOrigin
    <3>3. Origin(c)'
      <4> DEFINE s == queue[c].buffers
                 t == queue'[c].buffers
      <4>1. queue[c] \in Item /\ s \in Seq(Buffer) BY <1>1 DEF TypeOK, Item
      <4>2. queue'[c] = [queue[c] EXCEPT !.buffers[i].ready = TRUE]
        BY <1>1, <3>1 DEF TypeOK
      <4>3. t = [s EXCEPT ![i].ready = TRUE] BY <4>1, <4>2 DEF Item
      <4>4. s \in [1..Len(s) -> Buffer] /\ Len(s) \in Nat BY <4>1, LenProperties
      <4>5. s[i] \in Buffer BY <4>4
      <4>6. \A j \in 1..Len(s) : t[j].type = s[j].type /\ t[j].req = s[j].req
        BY <4>3, <4>4, <4>5 DEF Buffer
      <4>7. t \in Seq(Buffer) /\ Len(t) = Len(s)
        <5> DEFINE b == [s[i] EXCEPT !.ready = TRUE]
        <5>1. b \in Buffer /\ t = [s EXCEPT ![i] = b] BY <4>3, <4>4, <4>5 DEF Buffer
        <5> HIDE DEF b, s, t
        <5> QED BY <4>1, <5>1, ExceptSeq DEF s
      <4> HIDE DEF s, t
      <4>8. Len(t) = Len(s) /\ \A j \in 1..Len(s) :
                t[j].type = "memory" \/ (t[j].type = s[j].type /\ t[j].req = s[j].req)
        BY <4>6, <4>7
      <4> QED BY <1>2, <3>1, <4>8, StaysOrigin DEF s, t
    <3> QED BY <3>2, <3>3
  <2> QED BY <1>8, <2>1, <2>2 DEF Environment
<1> QED BY <1>2, <1>4, <1>5, <1>6, <1>7, <1>8, OriginHandle DEF Next, Loop

\* The file at the front of a queue is in the middle of an answer of a file.
LEMMA FrontIsFiled ==
    ASSUME TypeOK, NEW c \in Conns, Origin(c), HasBuffers(queue[c]),
           Current(c).type = "file"
    PROVE  Pending(c) # <<>> /\ Head(Pending(c)) \in Filed(c)
<1> DEFINE s == queue[c].buffers
           x == Current(c).req
           n == Current(c).left
           front == [j \in 1..n |-> x]
           rest == UnitsIn(Tail(s))
<1>1. s \in Seq(Buffer) /\ s # <<>> /\ Current(c) = Head(s)
  BY DEF TypeOK, Item, HasBuffers, Current, FrontBuffer
<1>2. /\ Current(c) \in Buffer /\ Tail(s) \in Seq(Buffer)
      /\ Pending(c) = front \o rest
  <2> HIDE DEF s
  <2>1. /\ Head(s) \in Buffer /\ Tail(s) \in Seq(Buffer)
        /\ UnitsIn(s) = [j \in 1..Head(s).left |-> Head(s).req] \o UnitsIn(Tail(s))
    BY <1>1, UnitsFront
  <2> QED BY <1>1, <2>1 DEF Pending, s
<1>3. n \in Nat \ {0} /\ x \in Nat /\ rest \in Seq(Nat)
  BY <1>2, UnitsType DEF Buffer
<1>4. x \in Filed(c)
  <2>1. Head(s) = s[1] /\ 1 \in 1..Len(s)
    <3> HIDE DEF s
    <3> QED BY <1>1, HeadTailProperties, EmptySeq, LenProperties
  <2> QED BY <1>1, <2>1 DEF Origin
<1> HIDE DEF x, n, rest
<1>5. front \in Seq(Nat) /\ Len(front) = n /\ front[1] = x BY <1>3, FunctionIsSeq
<1> HIDE DEF front
<1>6. /\ front \o rest \in Seq(Nat) /\ Len(front \o rest) = n + Len(rest)
      /\ (front \o rest)[1] = front[1]
  <2> DEFINE w == front \o rest
  <2>1. 1 \in 1..Len(front) BY <1>3, <1>5
  <2>2. /\ w \in Seq(Nat) /\ Len(w) = Len(front) + Len(rest)
        /\ \A i \in 1..Len(front) + Len(rest) :
               w[i] = IF i <= Len(front) THEN front[i] ELSE rest[i - Len(front)]
    BY <1>3, <1>5, ConcatProperties
  <2> HIDE DEF w
  <2>3. Len(rest) \in Nat BY <1>3, LenProperties
  <2>4. w \in Seq(Nat) /\ Len(w) = n + Len(rest) /\ w[1] = front[1]
    BY <1>3, <1>5, <2>1, <2>2, <2>3
  <2> QED BY <2>4 DEF w
<1>7. Len(rest) \in Nat BY <1>3, LenProperties
<1>8. front \o rest # <<>> /\ Head(front \o rest) = x
  <2> DEFINE w == front \o rest
  <2>1. w \in Seq(Nat) /\ Len(w) # 0 /\ w[1] = x BY <1>3, <1>5, <1>6, <1>7
  <2> HIDE DEF w
  <2>2. w # <<>> /\ Head(w) = x BY <2>1, EmptySeq, HeadTailProperties
  <2> QED BY <2>2 DEF w
<1> QED BY <1>2, <1>4, <1>8

-----------------------------------------------------------------------------
\* The loop waits for nobody's handler but for those of peers that are gone.

\* A file that fails takes no future along when peers await their answers.
LEMMA FailWaitsForNothing ==
    ASSUME SourceInv, Polite, NEW c \in Conns, WriteFails(c),
           Current(c).type = "file"
    PROVE  joining' = 0
<1> DEFINE s == queue[c].buffers
           I == {i \in 1..Len(s) : s[i].type = "async" /\ ~s[i].ready}
<1>1. TypeOK /\ Origin(c) BY StreamTypes DEF SourceInv, InTurn
<1>2. s \in Seq(Buffer) /\ s # <<>> /\ Head(s).type = "file"
  BY <1>1 DEF WriteFails, SyncFront, HasBuffers, Current, FrontBuffer, TypeOK, Item
<1>3. Polite => \A i \in 1..Len(s) : s[i].type = "async" => Len(s) = 1
  BY <1>1 DEF Origin
<1>4. I = {}
  <2> HIDE DEF s
  <2>1. Head(s) = s[1] BY <1>2, HeadTailProperties
  <2>2. ASSUME NEW i \in 1..Len(s), s[i].type = "async" PROVE FALSE
    <3>1. i = 1 BY <1>3, <2>2
    <3> QED BY <1>2, <2>1, <2>2, <3>1
  <2> QED BY <2>2
<1>5. Cardinality(I) = 0 BY <1>4, FS_EmptySet
<1> HIDE DEF I
<1>6. joining' = IF AsyncJoins THEN Cardinality(I) ELSE 0
  BY DEF WriteFails, RemoveChannel, I, s
<1> QED BY <1>5, <1>6

\* The whole loop waits for the thread of an asynchronous answer only when the
\* peer that asked for it is gone, or pipelined it behind a file that fails: every
\* other way to remove a channel finds no future in its queue.
THEOREM WaitsCorrect == Spec => WaitsOnlyForLeavers
<1> DEFINE Leaver == \E c \in Conns : /\ chan[c] = "open" /\ chan'[c] = "removed"
                                      /\ Gone(c) \/ (~Polite /\ FileUnsent(c))
<1>1. ASSUME SourceInv, Next, joining' > joining PROVE Leaver
  <2>1. WaitInv /\ WakeInv /\ LoopInv /\ TypeOK
    BY <1>1, StreamTypes DEF SourceInv, WaitInv
  <2>2. joining \in Nat BY <2>1 DEF TypeOK
  <2>3. ~(joining' = joining) /\ ~(joining' = 0) BY <1>1, <2>2
  <2>4. ~Environment
    <3>1. ~JoinOne BY <1>1, <2>2 DEF JoinOne
    <3> QED BY <2>3, <3>1 DEF Environment, Connect, Send, Receive, Leave, Complete
  <2>5. ~Await /\ ~AcceptEvent /\ \A c \in Chans : ~TakeEvent(c)
    BY <2>3 DEF Await, AcceptEvent, TakeEvent
  <2>6. PICK c \in Conns : Handle(c) BY <1>1, <2>4, <2>5 DEF Next, Loop
  <2> c \in Chans BY DEF Chans
  <2>7. TerminateEvent(c) \/ ReadClosed(c) \/ WriteFails(c) \/ DrainAndClose(c)
    BY <2>3, <2>6 DEF Handle, ReadPart, ReadRequest, WriteEvent, WriteAfterRemove,
         BarrierClosed, BarrierOpen, DoItYourself, FillNothing, FillPart, FillAll,
         DrainAndKeep, NothingToWrite, Rearm
  <2>8. ~DrainAndClose(c) BY <2>1, <2>3, DrainWaitsForNothing
  <2>9. Closed(c) /\ Reasoned(c) BY <2>1 DEF WaitInv, LoopInv
  <2>10. CASE TerminateEvent(c)
    <3>1. "termination" \in batch[c] /\ chan'[c] = "removed"
      BY <2>1, <2>10 DEF TerminateEvent, Dispatched, RemoveChannel, TypeOK
    <3>2. chan[c] = "open" BY <2>9, <3>1 DEF Closed
    <3> QED BY <2>9, <3>1, <3>2 DEF Reasoned
  <2>11. CASE ReadClosed(c)
    <3>1. "read" \in batch[c] /\ inbuf[c] = {} /\ chan'[c] = "removed"
      BY <2>1, <2>11 DEF ReadClosed, ReadDispatched, Dispatched, RemoveChannel, TypeOK
    <3>2. chan[c] = "open" BY <2>9, <3>1 DEF Closed
    <3> QED BY <2>9, <3>1, <3>2 DEF Reasoned
  <2>12. CASE WriteFails(c)
    <3>1. chan'[c] = "removed" /\ Writing(c) /\ SyncFront(c) /\ outbuf' = outbuf
      BY <2>1, <2>12 DEF WriteFails, SyncFront, RemoveChannel, TypeOK
    <3>2. chan[c] = "open" BY <2>1, <3>1 DEF Writing, Running, LoopInv, WriterOpen
    <3>3. peer[c] = "reset" \/ Current(c).type = "file" BY <2>12 DEF WriteFails
    <3>4. Current(c).type = "file" => FileUnsent(c) /\ ~Polite
      BY <1>1, <2>3, <2>12, <3>1, FailWaitsForNothing DEF FileUnsent
    <3> QED BY <3>1, <3>2, <3>3, <3>4 DEF Gone
  <2> QED BY <2>7, <2>8, <2>10, <2>11, <2>12
<1>2. SourceInv /\ [Next]_vars => [joining' > joining => Leaver]_vars BY <1>1
<1> QED BY <1>2, SourceInit, SourceStep, PTL DEF Spec, WaitsOnlyForLeavers

-----------------------------------------------------------------------------
\* The refinement.

\* Every handler is one of these steps, or none that the peers see.
LEMMA StreamHandle ==
    ASSUME SourceInv, InTurn, TypeOK', NEW c \in Conns, Handle(c)
    PROVE  Stream!Next \/ UNCHANGED Stream!vars
<1> DEFINE Goal == Stream!Next \/ UNCHANGED Stream!vars
<1> StreamInv BY DEF SourceInv
<1>1. /\ TypeOK /\ WriterOpen /\ Closed(c) /\ Reasoned(c) /\ Fits(c)
      /\ queue[c] \in Item
  BY StreamTypes DEF StreamInv, WishInv, WaitInv, WakeInv, LoopInv, TypeOK
<1>2. \A d \in Conns : d # c => Same(d) BY OthersSame
<1>3. ASSUME UNCHANGED <<chan, peer, outbuf, answers, queue>> PROVE Goal
  BY <1>3 DEF Stream!vars, Life, Gone, Pending, Filed
<1>4. ASSUME RemoveChannel(c), UNCHANGED outbuf, chan[c] = "open",
             Gone(c) \/ (Pending(c) # <<>> /\ Head(Pending(c)) \in Filed(c))
      PROVE  Goal
  <2>1. queue'[c] = EmptyItem /\ chan'[c] = "removed"
    BY <1>1, <1>4 DEF RemoveChannel, TypeOK
  <2>2. peer'[c] = peer[c] /\ answers'[c] = answers[c] /\ outbuf'[c] = outbuf[c]
    BY <1>4 DEF RemoveChannel
  <2> QED BY <1>1, <1>2, <1>4, <2>1, <2>2, Abandons
<1>5. ASSUME "read" \in batch[c] \/ "termination" \in batch[c]
      PROVE  chan[c] = "open"
  BY <1>1, <1>5 DEF Closed
<1>6. ASSUME Writing(c) PROVE chan[c] = "open"
  BY <1>1, <1>6 DEF Writing, Running, WriterOpen
<1>7. CASE TerminateEvent(c)
  <2>1. "termination" \in batch[c] BY <1>7 DEF TerminateEvent, Dispatched
  <2>2. chan[c] = "open" /\ Gone(c) BY <1>1, <1>5, <2>1 DEF Reasoned
  <2> QED BY <1>4, <1>7, <2>2 DEF TerminateEvent
<1>8. CASE ReadClosed(c)
  <2>1. "read" \in batch[c] /\ inbuf[c] = {}
    BY <1>8 DEF ReadClosed, ReadDispatched, Dispatched
  <2>2. chan[c] = "open" /\ Gone(c) BY <1>1, <1>5, <2>1 DEF Reasoned
  <2> QED BY <1>4, <1>8, <2>2 DEF ReadClosed
<1>9. CASE WriteFails(c)
  <2>1. chan[c] = "open" /\ HasBuffers(queue[c])
    BY <1>6, <1>9 DEF WriteFails, SyncFront
  <2>2. Gone(c) \/ Current(c).type = "file" BY <1>9 DEF WriteFails, Gone
  <2>3. Gone(c) \/ (Pending(c) # <<>> /\ Head(Pending(c)) \in Filed(c))
    BY <1>1, <2>1, <2>2, FrontIsFiled DEF SourceInv
  <2> QED BY <1>4, <1>9, <2>1, <2>3 DEF WriteFails
<1>10. CASE ReadPart(c) \/ WriteEvent(c) \/ WriteAfterRemove(c) \/ BarrierClosed(c)
            \/ NothingToWrite(c) \/ Rearm(c)
  BY <1>3, <1>10 DEF ReadPart, WriteEvent, WriteAfterRemove, BarrierClosed,
     NothingToWrite, Rearm
<1>11. ASSUME NEW r \in Responses, ReadRequest(c, r) PROVE Goal
  <2>1. "read" \in batch[c] BY <1>11 DEF ReadRequest, ReadDispatched, Dispatched
  <2> QED BY <1>2, <1>5, <1>11, <2>1, StreamAnswer
<1>12. CASE BarrierOpen(c) \/ DoItYourself(c)
  <2> DEFINE b == [Current(c) EXCEPT !.type = "memory"]
  <2>1. /\ HasBuffers(queue[c]) /\ queue' = [queue EXCEPT ![c] = ReplaceFront(@, b)]
        /\ UNCHANGED <<chan, peer, answers, outbuf>>
    BY <1>12 DEF BarrierOpen, DoItYourself, SyncFront, IsFrontAsync
  <2>2. Current(c) \in Buffer BY <1>1, <2>1, FrontBufferType DEF Current
  <2>3. b \in Buffer /\ b.left = Current(c).left /\ b.req = Current(c).req
    BY <2>2 DEF Buffer
  <2> HIDE DEF b
  <2> QED BY <2>1, <2>3, StreamReplace
<1>13. CASE FillNothing(c)
  <2>1. /\ outbuf' = [outbuf EXCEPT ![c] = @ \o [i \in 1..(0) |-> Current(c).req]]
        /\ SyncFront(c) /\ UNCHANGED <<chan, peer, answers, queue>>
    BY <1>13 DEF FillNothing, Fill
  <2>2. outbuf[c] \in Seq(Nat) /\ Current(c).req \in Nat
    BY <1>1, <2>1, SyncFrontType DEF TypeOK, Buffer
  <2>3. outbuf[c] \o [i \in 1..(0) |-> Current(c).req] = outbuf[c]
    <3> DEFINE x == Current(c).req
               f == [i \in 1..(0) |-> x]
    <3>1. x \in Nat BY <2>2
    <3> HIDE DEF x
    <3>2. f \in Seq(Nat) /\ Len(f) = 0 BY <3>1, FunctionIsSeq
    <3>3. f = <<>> BY <3>2, EmptySeq
    <3>4. outbuf[c] \o f = outbuf[c] BY <2>2, <3>3, ConcatEmptySeq
    <3> QED BY <3>4 DEF x
  <2>4. outbuf' = outbuf BY <1>1, <2>1, <2>3 DEF TypeOK
  <2> QED BY <1>3, <2>1, <2>4
<1>14. ASSUME NEW n \in 1..Room, FillPart(c, n) PROVE Goal
  <2>1. chan[c] = "open" BY <1>6, <1>14 DEF FillPart, Fill, SyncFront
  <2> QED BY <1>2, <1>14, <2>1, StreamFillPart
<1>15. CASE FillAll(c) \/ DrainAndKeep(c) \/ DrainAndClose(c)
  <2>1. chan[c] = "open"
    BY <1>6, <1>15 DEF FillAll, DrainAndKeep, DrainAndClose, Fill, SyncFront
  <2> QED BY <1>2, <1>15, <2>1, StreamFillAll
<1> QED BY <1>7, <1>8, <1>9, <1>10, <1>11, <1>12, <1>13, <1>14, <1>15 DEF Handle

LEMMA StreamSteps ==
    ASSUME SourceInv, InTurn, [Next]_vars PROVE [Stream!Next]_(Stream!vars)
<1>1. TypeOK' /\ TypeOK /\ StreamInv BY StreamTypes, TypeStep DEF SourceInv
<1>2. ASSUME UNCHANGED <<chan, peer, outbuf, answers, queue>>
      PROVE  UNCHANGED Stream!vars
  BY <1>2 DEF Stream!vars, Life, Gone, Pending, Filed
<1>3. CASE UNCHANGED vars BY <1>2, <1>3 DEF vars
<1>4. CASE Await BY <1>2, <1>4 DEF Await
<1>5. ASSUME NEW c \in Chans, TakeEvent(c) PROVE UNCHANGED Stream!vars
  BY <1>2, <1>5 DEF TakeEvent
<1> QED BY <1>1, <1>3, <1>4, <1>5, StreamEnvironment, StreamAccept, StreamHandle
        DEF Next, Loop

LEMMA StreamStart == Init => Stream!Init
<1> SUFFICES ASSUME Init PROVE Stream!Init
  OBVIOUS
<1>1. UnitsIn(<<>>) = <<>> BY UnitsEmpty, EmptySeq
<1>2. \A c \in Conns : /\ Life(c) = "none" /\ ~Gone(c) /\ Pending(c) = <<>>
                       /\ Len(answers[c]) = 0 /\ queue[c].keep = FALSE
                       /\ Filed(c) = {}
  BY <1>1, EmptySeq DEF Init, Life, Gone, Pending, EmptyItem, Filed
<1>3. \A c \in Conns : Gone(c) = FALSE BY <1>2
<1> QED BY <1>2, <1>3 DEF Init, Stream!Init

\* With answers in turn, each peer gets the units of its answers in the order of
\* its requests, each once, and is not closed before the end but in the middle of
\* an answer whose file fails, whatever the other peers do: every step of the loop and of its environment is a step of
\* ResponseStream, or one that it does not see.
THEOREM StreamCorrect == ASSUME InTurn PROVE Spec => KeepsPromise
<1>1. SourceInv /\ [Next]_vars => [Stream!Next]_(Stream!vars) BY StreamSteps
<1> QED BY <1>1, StreamStart, SourceInit, SourceStep, PTL
        DEF Spec, KeepsPromise, Stream!Spec
=============================================================================
