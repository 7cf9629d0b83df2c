------------------------- MODULE IoSchedulerStream -------------------------
(***************************************************************************)
(* How the event loop keeps the promise ResponseStream makes to every      *)
(* peer: the queue of a channel is the sequence of units it holds, and its *)
(* keep flag says whether the connection survives them.                    *)
(***************************************************************************)
EXTENDS IoScheduler

\* The units a sequence of buffers holds, each the number of its answer.
Units(s) == [i \in 1..Len(s) |-> [j \in 1..s[i].left |-> s[i].req]]
UnitsIn(s) == FlattenSeq(Units(s))

\* How many units the answer r has.
Size(r) == Len(FlattenSeq([i \in 1..Len(r.buffers) |->
                              [j \in 1..r.buffers[i].size |-> i]]))

\* A part of the answer r is sent from a file.
OfFile(r) == \E i \in 1..Len(r.buffers) : r.buffers[i].type = "file"

Life(c) == CASE chan[c] = "open" -> "open"
             [] chan[c] = "removed" -> "closed"
             [] OTHER -> "none"

Pending(c) == UnitsIn(queue[c].buffers)

Filed(c) == {n \in 1..Len(answers[c]) : OfFile(answers[c][n])}

Stream == INSTANCE ResponseStream WITH
    MaxAnswers <- MaxRequests,
    Sizes <- {Size(r) : r \in Responses},
    life <- [c \in Conns |-> Life(c)],
    gone <- [c \in Conns |-> Gone(c)],
    promised <- [c \in Conns |-> Len(answers[c])],
    filed <- [c \in Conns |-> Filed(c)],
    pending <- [c \in Conns |-> Pending(c)],
    handed <- outbuf,
    stay <- [c \in Conns |-> queue[c].keep]

\* What the promise rests on: no answer is asynchronous, or the peers await
\* their answers.  put_after_first_intact lets an asynchronous answer overtake
\* those that are queued already.
InTurn == \/ Polite
          \/ \A r \in Responses : \A i \in 1..Len(r.buffers) :
                 r.buffers[i].type # "async"

\* With answers in turn, the scheduler keeps ResponseStream's promise to every
\* peer (process_read, process_write, remove, put_back).
KeepsPromise == Stream!Spec
=============================================================================
