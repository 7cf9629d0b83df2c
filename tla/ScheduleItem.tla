---------------------------- MODULE ScheduleItem ----------------------------
(***************************************************************************)
(* io::schedule_item: the queue of data sources a channel still has to     *)
(* write, and the answer a read callback hands to the scheduler.  Its      *)
(* methods are pure, so they are operators; IoScheduler keeps one item per *)
(* channel as state.                                                       *)
(*                                                                         *)
(* A data source carries no bytes: `size' and `left' count units of        *)
(* payload (initial_size and data.size() of a memory_buffer, size and      *)
(* size_left() of a unix_file), `req' is the number of the request it      *)
(* answers, and `ready' says whether the future of an async_buffer has its *)
(* value.                                                                  *)
(***************************************************************************)
EXTENDS Integers, FiniteSets, SequencesExt

Buffer == [type: {"memory", "file", "async"},
           req: Nat, size: Nat \ {0}, left: Nat \ {0}, ready: BOOLEAN]

Item == [buffers: Seq(Buffer), keep: BOOLEAN]

\* schedule_item(): what a new channel's queue starts as.
EmptyItem == [buffers |-> <<>>, keep |-> FALSE]

\* operator bool: is there anything left to write?
HasBuffers(q) == q.buffers # <<>>

FrontBuffer(q) == Head(q.buffers)

IsFrontAsync(q) == HasBuffers(q) /\ FrontBuffer(q).type = "async"

\* data_source::intact(): nothing of it was written yet.  An async_buffer
\* always says yes.
Intact(b) == b.type = "async" \/ b.left = b.size

\* Operators named Wrong... are plausible mistakes in the code, kept to show
\* which property each would break; no specification uses them.

WrongPutBackOwnKeep(q, other) == [q EXCEPT !.buffers = @ \o other.buffers]
WrongPutBackInFront(q, other) ==
    [buffers |-> other.buffers \o q.buffers, keep |-> other.keep]

\* put_back(schedule_item &&) also takes over the other item's keep flag ...
PutBack(q, other) ==
    [buffers |-> q.buffers \o other.buffers, keep |-> other.keep]

\* How many buffers stand before the first intact one.
BeforeIntact(s) ==
    Cardinality({i \in 1..Len(s) : \A j \in 1..i : ~Intact(s[j])})

\* ... put_after_first_intact(schedule_item) does not.  It inserts the other
\* item's buffers, back to front, BEFORE the first intact buffer.
PutAfterFirstIntact(q, other) ==
    LET s == q.buffers
        at == BeforeIntact(s)
    IN  [q EXCEPT !.buffers = SubSeq(s, 1, at) \o Reverse(other.buffers)
                                               \o SubSeq(s, at + 1, Len(s))]

WrongReplaceFrontForgotten(q, b) == q

ReplaceFront(q, b) == [q EXCEPT !.buffers[1] = b]

RemoveFront(q) == [q EXCEPT !.buffers = Tail(@)]
=============================================================================
