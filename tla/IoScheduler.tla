---------------------------- MODULE IoScheduler ----------------------------
(***************************************************************************)
(* io::scheduler: the single-threaded event loop of the server, with the   *)
(* epoll wrapper it polls, the channels it owns and the sockets below      *)
(* them.  The peers, the kernel and the threads that complete asynchronous *)
(* answers are the environment and may act between any two system calls of *)
(* the loop.                                                               *)
(*                                                                         *)
(* One run() of the C++ loop is Await followed by, for every event, a      *)
(* TakeEvent and the handler it leads to.  `cur' is the channel whose      *)
(* event is handled and `pc' how far the handler is:                       *)
(*   "event"  the event is dispatched on what epoll reported               *)
(*   "write"  inside the while loop of process_write                       *)
(*   "rearm"  process_write is about to choose edge or level triggering    *)
(***************************************************************************)
EXTENDS ScheduleItem

CONSTANTS
    Conns,        \* the connections peers may open
    Acceptor,     \* the channel of the listening socket
    NoChan,       \* cur, when the loop is between two events
    Responses,    \* what on_read may answer: [buffers, keep]
    Room,         \* units a socket's send buffer holds
    FdLimit,      \* connections the process may have open at once
    MaxRequests,  \* bound: complete requests per connection
    Polite,       \* peers await an answer before they send more
    Departures,   \* how peers may leave: a subset of {"fin", "reset"}
    AddMayFail,   \* epoll_ctl(EPOLL_CTL_ADD) may fail
    AsyncJoins    \* destroying an unready future waits for its thread

Part == [type: {"memory", "file", "async"}, size: Nat \ {0}]
Response == [buffers: Seq(Part) \ {<<>>}, keep: BOOLEAN]

ASSUME ConstantsAssumption ==
    /\ IsFiniteSet(Conns)
    /\ Acceptor \notin Conns
    /\ NoChan \notin Conns \cup {Acceptor}
    /\ Room \in Nat \ {0}
    /\ FdLimit \in Nat
    /\ MaxRequests \in Nat
    /\ Departures \subseteq {"fin", "reset"}
    /\ {Polite, AddMayFail, AsyncJoins} \subseteq BOOLEAN

\* pass_request is the only source of an async_buffer, and never puts
\* anything beside it.
ASSUME ResponsesAssumption ==
    /\ Responses \subseteq Response
    /\ \A r \in Responses : \A i \in 1..Len(r.buffers) :
           r.buffers[i].type = "async" => Len(r.buffers) = 1

Chans == Conns \cup {Acceptor}
Flags == {"read", "write", "termination", "et"}
Events == {"read", "write", "termination"}

VARIABLES
    chan,     \* [Conns]: "none", "backlog", "open" or "removed"
    peer,     \* [Conns]: "none", "up", "fin" (sends no more) or "reset"
    inbuf,    \* [Conns]: kinds of unread pieces, "part" or "final"
    outbuf,   \* [Conns]: the socket's send buffer, a request number per unit
    asked,    \* [Conns]: complete requests the peer has sent
    received, \* [Conns]: units the peer has received
    answers,  \* [Conns]: history, the answers on_read has given
    ctx,      \* [Conns]: a partly read request hangs off channel->cookie
    queue,    \* [Conns]: channel->queue
    flags,    \* [Chans]: channel->flags
    mask,     \* [Chans]: the kernel's event mask, {} when not registered
    rdy,      \* the kernel's ready list
    batch,    \* [Chans]: events of this run() still to be handled
    cur, pc, filled,
    joining,  \* threads the loop waits for in a future's destructor
    touched   \* channels used after they were freed

vars == <<chan, peer, inbuf, outbuf, asked, received, answers, ctx, queue, flags,
          mask, rdy, batch, cur, pc, filled, joining, touched>>

TypeOK ==
    /\ chan \in [Conns -> {"none", "backlog", "open", "removed"}]
    /\ peer \in [Conns -> {"none", "up", "fin", "reset"}]
    /\ inbuf \in [Conns -> SUBSET {"part", "final"}]
    /\ outbuf \in [Conns -> Seq(Nat)]
    /\ asked \in [Conns -> Nat]
    /\ received \in [Conns -> Nat]
    /\ answers \in [Conns -> Seq(Responses)]
    /\ ctx \in [Conns -> BOOLEAN]
    /\ queue \in [Conns -> Item]
    /\ flags \in [Chans -> SUBSET Flags]
    /\ mask \in [Chans -> SUBSET Flags]
    /\ rdy \subseteq Chans
    /\ batch \in [Chans -> SUBSET Events]
    /\ cur \in Chans \cup {NoChan}
    /\ pc \in {"loop", "event", "write", "rearm", "crashed"}
    /\ filled \in BOOLEAN
    /\ joining \in Nat
    /\ touched \subseteq Conns

Init ==
    /\ chan = [c \in Conns |-> "none"]
    /\ peer = [c \in Conns |-> "none"]
    /\ inbuf = [c \in Conns |-> {}]
    /\ outbuf = [c \in Conns |-> <<>>]
    /\ asked = [c \in Conns |-> 0]
    /\ received = [c \in Conns |-> 0]
    /\ answers = [c \in Conns |-> <<>>]
    /\ ctx = [c \in Conns |-> FALSE]
    /\ queue = [c \in Conns |-> EmptyItem]
    /\ flags = [c \in Chans |->
                   IF c = Acceptor THEN {"read", "termination"} ELSE {}]
    /\ mask = flags
    /\ rdy = {}
    /\ batch = [c \in Chans |-> {}]
    /\ cur = NoChan
    /\ pc = "loop"
    /\ filled = FALSE
    /\ joining = 0
    /\ touched = {}

-----------------------------------------------------------------------------
\* The kernel: what epoll would report of a channel now.

Backlog == {c \in Conns : chan[c] = "backlog"}
Open == {c \in Conns : chan[c] = "open"}
Gone(c) == peer[c] \in {"fin", "reset"}

Level(c) ==
    IF c = Acceptor
    THEN IF Backlog # {} THEN {"read"} ELSE {}
    ELSE (IF inbuf[c] # {} \/ Gone(c) THEN {"read"} ELSE {}) \cup
         (IF Len(outbuf[c]) < Room \/ peer[c] = "reset" THEN {"write"} ELSE {})
             \cup (IF Gone(c) THEN {"termination"} ELSE {})

Reported(c) == mask[c] \cap Level(c)

\* A change of the socket below c: e is what became true of it.
Edge(c, e) == rdy' = IF e \in mask[c] THEN rdy \cup {c} ELSE rdy

\* epoll::update: EPOLL_CTL_MOD with channel->flags, if c is registered.  The
\* kernel polls c afresh.
WrongUpdateForgotten(c) == UNCHANGED <<mask, rdy>>

Update(c) ==
    /\ mask' = [mask EXCEPT ![c] = IF @ = {} THEN {} ELSE flags'[c]]
    /\ rdy' = IF Reported(c)' # {} THEN rdy \cup {c} ELSE rdy

-----------------------------------------------------------------------------
\* The environment: peers, the network and the threads of async answers.

server == <<answers, ctx, queue, flags, mask, batch, cur, pc, filled, touched>>

\* A peer connects: the kernel completes the handshake into the backlog.
Connect(c) ==
    /\ chan[c] = "none"
    /\ chan' = [chan EXCEPT ![c] = "backlog"]
    /\ peer' = [peer EXCEPT ![c] = "up"]
    /\ Edge(Acceptor, "read")
    /\ UNCHANGED <<inbuf, outbuf, asked, received, joining, server>>

Awaiting(c) ==
    asked[c] > Len(answers[c]) \/ HasBuffers(queue[c]) \/ outbuf[c] # <<>>

\* A peer sends a piece of a request; the last piece completes it.
Send(c, piece) ==
    /\ peer[c] = "up" /\ chan[c] \in {"backlog", "open"}
    /\ Polite => ~Awaiting(c)
    /\ asked[c] < MaxRequests
    /\ inbuf' = [inbuf EXCEPT ![c] = @ \cup {piece}]
    /\ asked' = [asked EXCEPT ![c] = IF piece = "final" THEN @ + 1 ELSE @]
    /\ Edge(c, "read")
    /\ UNCHANGED <<chan, peer, outbuf, received, joining, server>>

\* The peer takes one unit off the socket.  Only a full send buffer left the
\* loop without room, so only then is the new room an edge.
Receive(c) ==
    /\ outbuf[c] # <<>> /\ peer[c] \in {"up", "fin"}
    /\ outbuf' = [outbuf EXCEPT ![c] = Tail(@)]
    /\ received' = [received EXCEPT ![c] = @ + 1]
    /\ IF Len(outbuf[c]) = Room THEN Edge(c, "write") ELSE UNCHANGED rdy
    /\ UNCHANGED <<chan, peer, inbuf, asked, joining, server>>

\* The peer shuts down its side, or the connection is reset: what is on its
\* way to the peer is lost, and TCP may drop what the server has not read.
Leave(c, how) ==
    /\ how \in Departures
    /\ peer[c] = "up" \/ (peer[c] = "fin" /\ how = "reset")
    /\ peer' = [peer EXCEPT ![c] = how]
    /\ outbuf' = [outbuf EXCEPT ![c] = IF how = "reset" THEN <<>> ELSE @]
    /\ \/ UNCHANGED inbuf
       \/ how = "reset" /\ inbuf' = [inbuf EXCEPT ![c] = {}]
    /\ Edge(c, "termination")
    /\ UNCHANGED <<chan, asked, received, joining, server>>

\* The thread behind an async answer finishes: the answer is still queued,
\* or its future is being destroyed and the loop waits for it.
Complete(c, i) ==
    /\ queue[c].buffers[i].type = "async"
    /\ ~queue[c].buffers[i].ready
    /\ queue' = [queue EXCEPT ![c].buffers[i].ready = TRUE]
    /\ UNCHANGED <<chan, peer, inbuf, outbuf, asked, received, answers, ctx, flags,
                   mask, rdy, batch, cur, pc, filled, joining, touched>>

JoinOne ==
    /\ joining > 0
    /\ joining' = joining - 1
    /\ UNCHANGED <<chan, peer, inbuf, outbuf, asked, received, rdy, server>>

-----------------------------------------------------------------------------
\* The loop.  It does nothing while it is inside a future's destructor.

Running(at, c) == pc = at /\ cur = c /\ joining = 0

\* The handler of cur's event is done: on to the next, unless run() still has
\* to test event.can_write().
Resume(c) ==
    /\ pc' = IF batch'[c] = {} THEN "loop" ELSE "event"
    /\ cur' = IF batch'[c] = {} THEN NoChan ELSE c

\* scheduler_impl::remove, of a channel freed with it: on_remove deletes the
\* context, epoll forgets the channel, the socket and the queue go.
RemoveChannel(c) ==
    /\ chan' = [chan EXCEPT ![c] = "removed"]
    /\ inbuf' = [inbuf EXCEPT ![c] = {}]
    /\ ctx' = [ctx EXCEPT ![c] = FALSE]
    /\ queue' = [queue EXCEPT ![c] = EmptyItem]
    /\ flags' = [flags EXCEPT ![c] = {}]
    /\ mask' = [mask EXCEPT ![c] = {}]
    /\ rdy' = rdy \ {c}
    /\ joining' = IF AsyncJoins
                  THEN Cardinality({i \in 1..Len(queue[c].buffers) :
                           /\ queue[c].buffers[i].type = "async"
                           /\ ~queue[c].buffers[i].ready})
                  ELSE 0
    /\ UNCHANGED <<peer, asked, received, answers>>

\* poll.await: everything that is ready is reported at once, and stays on the
\* ready list unless it is edge triggered.
Await ==
    /\ Running("loop", NoChan) /\ \A c \in Chans : batch[c] = {}
    /\ rdy # {}
    /\ batch' = [c \in Chans |-> IF c \in rdy THEN Reported(c) ELSE {}]
    /\ rdy' = {c \in rdy : Reported(c) # {} /\ "et" \notin mask[c]}
    /\ UNCHANGED <<chan, peer, inbuf, outbuf, asked, received, answers, ctx, queue,
                   flags, mask, cur, pc, filled, joining, touched>>

\* run() takes up the next event and makes its channel edge triggered.
TakeEvent(c) ==
    /\ Running("loop", NoChan) /\ batch[c] # {}
    /\ cur' = c
    /\ pc' = "event"
    /\ UNCHANGED <<chan, peer, inbuf, outbuf, asked, received, answers, ctx,
                   queue, batch, filled, joining, touched>>
    /\ IF "et" \in flags[c] THEN UNCHANGED <<flags, mask, rdy>>
       ELSE /\ flags' = [flags EXCEPT ![c] = @ \cup {"et"}]
            /\ Update(c)

\* accept() is called until it fails, because the backlog is empty or the
\* process is out of descriptors.
FreeFds == FdLimit - Cardinality(Open)
WrongAcceptsOnce(new) == new # {} => Cardinality(new) = 1
Accepts(new) == /\ Cardinality(new) <= FreeFds
                /\ new # Backlog => Cardinality(new) = FreeFds

\* add_new_connections.  schedule() says nothing of a failed EPOLL_CTL_ADD,
\* and the channel is kept without an event.
AcceptEvent ==
    /\ Running("event", Acceptor)
    /\ UNCHANGED <<peer, inbuf, outbuf, asked, received, answers, ctx, queue,
                   filled, joining, touched>>
    /\ \E new \in SUBSET Backlog : \E failed \in SUBSET new :
        /\ Accepts(new)
        /\ ~AddMayFail => failed = {}
        /\ chan' = [c \in Conns |-> IF c \in new THEN "open" ELSE chan[c]]
        /\ flags' = [c \in Chans |-> IF c \in new THEN {"read", "termination"}
                                                  ELSE flags[c]]
        /\ mask' = [c \in Chans |-> IF c \in new \ failed
                                    THEN {"read", "termination"} ELSE mask[c]]
        /\ rdy' = rdy \cup {c \in new : Reported(c)' # {}}
    /\ batch' = [batch EXCEPT ![Acceptor] = {}]
    /\ Resume(Acceptor)

Dispatched(c, e) == Running("event", c) /\ e \in batch[c]

WrongTerminateIgnored(c) ==
    /\ Dispatched(c, "termination")
    /\ batch' = [batch EXCEPT ![c] = {}]
    /\ Resume(c)
    /\ UNCHANGED <<chan, peer, inbuf, outbuf, asked, received, answers, ctx,
                   queue, flags, mask, rdy, filled, joining, touched>>

\* can_terminate(): the channel goes, whatever is still queued.
TerminateEvent(c) ==
    /\ Dispatched(c, "termination")
    /\ RemoveChannel(c)
    /\ batch' = [batch EXCEPT ![c] = {}]
    /\ Resume(c)
    /\ UNCHANGED <<outbuf, filled, touched>>

\* read_some reads until there is nothing left to read.
WrongLeftUnreadOnce(pieces) == pieces \ {"final"}
LeftUnread(pieces) == {}

\* can_read(): process_read.  Reading nothing is taken for the peer having
\* closed.
WrongReadDispatched(c) ==
    /\ Dispatched(c, "read") /\ "termination" \notin batch[c]
    /\ UNCHANGED batch
ReadDispatched(c) ==
    /\ Dispatched(c, "read") /\ "termination" \notin batch[c]
    /\ batch' = [batch EXCEPT ![c] = @ \ {"read"}]

ReadClosed(c) ==
    /\ ReadDispatched(c)
    /\ inbuf[c] = {}
    /\ RemoveChannel(c)
    /\ Resume(c)
    /\ UNCHANGED <<outbuf, filled, touched>>

\* on_read keeps an incomplete request in its context and answers nothing.
ReadPart(c) ==
    /\ ReadDispatched(c)
    /\ inbuf[c] # {} /\ "final" \notin inbuf[c]
    /\ inbuf' = [inbuf EXCEPT ![c] = LeftUnread(@)]
    /\ ctx' = [ctx EXCEPT ![c] = TRUE]
    /\ Resume(c)
    /\ UNCHANGED <<chan, peer, outbuf, asked, received, answers, queue, flags,
                   mask, rdy, filled, joining, touched>>

AnswerItem(c, r) ==
    [buffers |-> [i \in 1..Len(r.buffers) |->
                     [type |-> r.buffers[i].type, req |-> Len(answers[c]) + 1,
                      size |-> r.buffers[i].size, left |-> r.buffers[i].size,
                      ready |-> FALSE]],
     keep |-> r.keep]

WrongEnqueueSwapped(q, item) ==
    [PutAfterFirstIntact(q, item) EXCEPT !.keep = item.keep]

Enqueue(q, item) == IF FrontBuffer(item).type \in {"memory", "file"}
                    THEN PutBack(q, item) ELSE PutAfterFirstIntact(q, item)

\* flags |= epoll::write
WrongWantingForgotten(f) == f
Wanting(f) == f \cup {"write"}

\* on_read answers a complete request: whatever it had read beyond it goes
\* with the context.  The channel asks for write events, the answer is queued
\* and process_write begins.
ReadRequest(c, r) ==
    /\ ReadDispatched(c)
    /\ "final" \in inbuf[c]
    /\ inbuf' = [inbuf EXCEPT ![c] = LeftUnread(@)]
    /\ ctx' = [ctx EXCEPT ![c] = FALSE]
    /\ answers' = [answers EXCEPT ![c] = Append(@, r)]
    /\ queue' = [queue EXCEPT ![c] = Enqueue(@, AnswerItem(c, r))]
    /\ flags' = [flags EXCEPT ![c] = Wanting(@)]
    /\ pc' = "write"
    /\ UNCHANGED <<chan, peer, outbuf, asked, received, cur, filled, joining,
                   touched>>
    /\ Update(c)

\* can_write(), tested after process_read too: the event of a channel that
\* process_read has freed is undefined behaviour.
WriteDispatched(c) ==
    /\ Dispatched(c, "write") /\ batch[c] = {"write"}
    /\ batch' = [batch EXCEPT ![c] = {}]

WriteEvent(c) ==
    /\ WriteDispatched(c)
    /\ chan[c] = "open"
    /\ pc' = "write"
    /\ UNCHANGED <<chan, peer, inbuf, outbuf, asked, received, answers, ctx,
                   queue, flags, mask, rdy, cur, filled, joining, touched>>

WriteAfterRemove(c) ==
    /\ WriteDispatched(c)
    /\ chan[c] = "removed"
    /\ touched' = touched \cup {c}
    /\ \/ Resume(c)
       \/ pc' = "crashed" /\ UNCHANGED cur
    /\ UNCHANGED <<chan, peer, inbuf, outbuf, asked, received, answers, ctx,
                   queue, flags, mask, rdy, filled, joining>>

-----------------------------------------------------------------------------
\* process_write: one action per way an iteration of its loop can go.

Writing(c) == Running("write", c)
Current(c) == FrontBuffer(queue[c])
SyncFront(c) == Writing(c) /\ HasBuffers(queue[c]) /\ ~IsFrontAsync(queue[c])

\* The loop ends, with `filled' saying whether the socket could take no more.
EndWriting(full) ==
    /\ filled' = full
    /\ pc' = "rearm"
    /\ UNCHANGED <<batch, cur, touched>>

\* The future is not ready: leave, level triggered so that epoll asks again.
BarrierClosed(c) ==
    /\ Writing(c) /\ IsFrontAsync(queue[c]) /\ ~Current(c).ready
    /\ flags' = [flags EXCEPT ![c] = @ \ {"et"}]
    /\ UNCHANGED <<chan, peer, inbuf, outbuf, asked, received, answers, ctx,
                   queue, batch, filled, joining, touched>>
    /\ Update(c)
    /\ Resume(c)

\* The future is ready: its response, as a memory_buffer, takes its place.
BarrierOpen(c) ==
    /\ Writing(c) /\ IsFrontAsync(queue[c]) /\ Current(c).ready
    /\ queue' = [queue EXCEPT ![c] =
                    ReplaceFront(@, [Current(c) EXCEPT !.type = "memory"])]
    /\ UNCHANGED <<chan, peer, inbuf, outbuf, asked, received, answers, ctx,
                   flags, mask, rdy, batch, cur, pc, filled, joining, touched>>

\* sendfile64 refuses the file (EINVAL): its content becomes a memory_buffer.
\* A file system refuses at the first call or never.
DoItYourself(c) ==
    /\ SyncFront(c) /\ Current(c).type = "file" /\ Intact(Current(c))
    /\ queue' = [queue EXCEPT ![c] =
                    ReplaceFront(@, [Current(c) EXCEPT !.type = "memory"])]
    /\ UNCHANGED <<chan, peer, inbuf, outbuf, asked, received, answers, ctx,
                   flags, mask, rdy, batch, cur, pc, filled, joining, touched>>

\* fill_channel throws write_error: the connection was reset; or the front is a
\* file that cannot be read (EIO, EBADF) or, when it is to be copied, mapped.
WriteFails(c) ==
    /\ SyncFront(c)
    /\ peer[c] = "reset" \/ Current(c).type = "file"
    /\ RemoveChannel(c)
    /\ UNCHANGED <<outbuf, batch, filled, touched>>
    /\ Resume(c)

\* fill_channel hands n units of the front buffer to the socket.
Fill(c, n) ==
    /\ SyncFront(c) /\ peer[c] # "reset"
    /\ n <= Current(c).left /\ n <= Room - Len(outbuf[c])
    /\ outbuf' = [outbuf EXCEPT ![c] = @ \o [i \in 1..n |-> Current(c).req]]

FillNothing(c) ==
    /\ Fill(c, 0) /\ Len(outbuf[c]) >= Room
    /\ EndWriting(TRUE)
    /\ UNCHANGED <<chan, peer, inbuf, asked, received, answers, ctx, queue,
                   flags, mask, rdy, joining>>

\* The rest of a buffer: erased up to `written', or the offset sendfile moved.
WrongRest(b, n) == [b EXCEPT !.left = @ - 2 * n]
Rest(b, n) == [b EXCEPT !.left = @ - n]

FillPart(c, n) ==
    /\ Fill(c, n) /\ 0 < n /\ n < Current(c).left
    /\ Len(outbuf[c]) + n = Room
    /\ queue' = [queue EXCEPT ![c] =
                    ReplaceFront(@, Rest(Current(c), n))]
    /\ UNCHANGED <<chan, peer, inbuf, asked, received, answers, ctx, flags,
                   mask, rdy, batch, cur, pc, filled, joining, touched>>

Drained(c) == ~HasBuffers(RemoveFront(queue[c]))

FillAll(c) ==
    /\ Fill(c, Current(c).left) /\ ~Drained(c)
    /\ queue' = [queue EXCEPT ![c] = RemoveFront(@)]
    /\ UNCHANGED <<chan, peer, inbuf, asked, received, answers, ctx, flags,
                   mask, rdy, batch, cur, pc, filled, joining, touched>>

\* flags &= ~epoll::write, |= epoll::read
WrongQuietStillWriting(f) == f \cup {"read"}
Quiet(f) == (f \ {"write"}) \cup {"read"}

\* The queue is empty and the last item put back said to keep the connection.
DrainAndKeep(c) ==
    /\ Fill(c, Current(c).left) /\ Drained(c) /\ queue[c].keep
    /\ queue' = [queue EXCEPT ![c] = RemoveFront(@)]
    /\ flags' = [flags EXCEPT ![c] = Quiet(@)]
    /\ ctx' = [ctx EXCEPT ![c] = FALSE]
    /\ EndWriting(FALSE)
    /\ UNCHANGED <<chan, peer, inbuf, asked, received, answers, mask, rdy,
                   joining>>

DrainAndClose(c) ==
    /\ Fill(c, Current(c).left) /\ Drained(c) /\ ~queue[c].keep
    /\ RemoveChannel(c)
    /\ UNCHANGED <<batch, filled, touched>>
    /\ Resume(c)

NothingToWrite(c) ==
    /\ Writing(c) /\ ~HasBuffers(queue[c])
    /\ EndWriting(FALSE)
    /\ UNCHANGED <<chan, peer, inbuf, outbuf, asked, received, answers, ctx,
                   queue, flags, mask, rdy, joining>>

\* Edge triggered if the socket is full, level triggered if it had room.
Rearm(c) ==
    /\ Running("rearm", c)
    /\ flags' = [flags EXCEPT ![c] = IF filled THEN @ \cup {"et"}
                                                 ELSE @ \ {"et"}]
    /\ filled' = FALSE
    /\ UNCHANGED <<chan, peer, inbuf, outbuf, asked, received, answers, ctx,
                   queue, batch, joining, touched>>
    /\ Update(c)
    /\ Resume(c)

-----------------------------------------------------------------------------
Environment ==
    \/ \E c \in Conns :
        \/ Connect(c)
        \/ \E piece \in {"part", "final"} : Send(c, piece)
        \/ Receive(c)
        \/ \E how \in {"fin", "reset"} : Leave(c, how)
        \/ \E i \in 1..Len(queue[c].buffers) : Complete(c, i)
    \/ JoinOne

Handle(c) ==
    \/ TerminateEvent(c)
    \/ ReadClosed(c) \/ ReadPart(c) \/ \E r \in Responses : ReadRequest(c, r)
    \/ WriteEvent(c) \/ WriteAfterRemove(c)
    \/ BarrierClosed(c) \/ BarrierOpen(c) \/ DoItYourself(c)
    \/ WriteFails(c) \/ FillNothing(c) \/ \E n \in 1..Room : FillPart(c, n)
    \/ FillAll(c) \/ DrainAndKeep(c) \/ DrainAndClose(c) \/ NothingToWrite(c)
    \/ Rearm(c)

Loop ==
    \/ Await
    \/ \E c \in Chans : TakeEvent(c)
    \/ AcceptEvent
    \/ \E c \in Conns : Handle(c)

Next == Environment \/ Loop

Spec == Init /\ [][Next]_vars

\* The process is scheduled, peers that stay read what they are sent, and
\* the threads of asynchronous answers finish.
Fairness ==
    /\ WF_vars(Loop)
    /\ \A c \in Conns : WF_vars(Receive(c))
    /\ \A c \in Conns :
           WF_vars(\E i \in 1..Len(queue[c].buffers) : Complete(c, i))
    /\ WF_vars(JoinOne)

FairSpec == Spec /\ Fairness

-----------------------------------------------------------------------------
\* Properties.

\* run() handles the write half of an event after process_read, which may
\* have freed the channel.  With peers that await their answers, no channel
\* is used after it was freed (run, process_read, remove).
NoTouchAfterRemove == touched = {}

\* Between two events, a registered channel waits for write events exactly
\* when it has something to write, and the kernel knows the channel's flags
\* (the updates of process_read and process_write).
ArmedForQueue ==
    \A c \in Open : mask[c] # {} /\ cur # c =>
        /\ mask[c] = flags[c]
        /\ "write" \in flags[c] <=> HasBuffers(queue[c])

\* No wakeup is lost between edge and level triggering: a channel that epoll
\* would report is on the ready list, or an event of it is being handled
\* (run, process_write and the interleaved peer).
NoLostWakeup ==
    \A c \in Open : Reported(c) # {} /\ cur # c =>
        c \in rdy \/ batch[c] # {}

\* The step leaves a file at the front of the queue, of which nothing was
\* handed to the socket: it could not be sent (fill_channel).
FileUnsent(c) ==
    /\ SyncFront(c) /\ Current(c).type = "file"
    /\ outbuf'[c] = outbuf[c]

\* The whole loop waits for the thread of an asynchronous answer only when the
\* peer that asked for it is gone: the future is destroyed with the channel's
\* queue (remove).  While peers stay no client waits for another's handler,
\* except behind a peer that asked for it before a file it had asked for was
\* sent, and that file fails.
WaitsOnlyForLeavers ==
    [][joining' > joining =>
        \E c \in Conns :
            /\ chan[c] = "open" /\ chan'[c] = "removed"
            /\ Gone(c) \/ (~Polite /\ FileUnsent(c))]_vars

\* A peer that stays sees its connection closed only after an answer that did
\* not ask to keep it: the last one, or an asynchronous one, whose wish
\* put_after_first_intact ignores; or in place of a file that could not be sent
\* (process_write, put_back, fill_channel).
ClosedOnlyOnRequest ==
    [][\A c \in Conns :
        chan[c] = "open" /\ chan'[c] = "removed" /\ peer[c] = "up" =>
            /\ answers[c] # <<>>
            /\ \/ ~Last(answers[c]).keep
               \/ Last(answers[c]).buffers[1].type = "async"
               \/ FileUnsent(c)]_vars

\* Every request of a peer that waits for its answer is answered in full, or
\* the connection ends (run, process_write, add_new_connections).
Served == \A c \in Conns :
    Awaiting(c) ~> (~Awaiting(c) \/ Gone(c) \/ chan[c] = "removed")

\* What is queued for a peer that goes on sending requests is written in the
\* end, unless the peer leaves or a freed channel was used (process_write).
Drains == \A c \in Conns :
    HasBuffers(queue[c]) ~> (~HasBuffers(queue[c]) \/ Gone(c) \/ touched # {})

\* Every connection the kernel completes is accepted (add_new_connections).
Accepted == \A c \in Conns : chan[c] = "backlog" ~> chan[c] # "backlog"

\* The channel of a peer that left is freed (run, remove).
DepartedAreRemoved == \A c \in Conns :
    (chan[c] = "open" /\ Gone(c)) ~> chan[c] = "removed"
=============================================================================
