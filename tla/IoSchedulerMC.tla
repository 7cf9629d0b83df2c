--------------------------- MODULE IoSchedulerMC ---------------------------
(***************************************************************************)
(* Instances of IoScheduler for TLC.                                       *)
(***************************************************************************)
EXTENDS IoSchedulerStream

Sync(n, k) == [buffers |-> <<[type |-> "memory", size |-> n]>>, keep |-> k]
File(n, k) == [buffers |-> <<[type |-> "memory", size |-> 1],
                             [type |-> "file", size |-> n],
                             [type |-> "memory", size |-> 1]>>, keep |-> k]
Async(n) == [buffers |-> <<[type |-> "async", size |-> n]>>, keep |-> FALSE]

\* An answer that does not fit the send buffer at once and one that does, a
\* file between its header and its ending, and an asynchronous answer.
AllKinds == {Sync(3, TRUE), Sync(1, FALSE), File(1, TRUE), Async(1)}
SyncAndFile == {Sync(3, TRUE), Sync(1, FALSE), File(1, TRUE)}

Interchangeable == Permutations(Conns)
=============================================================================
